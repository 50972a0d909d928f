------------------------ MODULE UdpRelaySoundProofs ------------------------
(***************************************************************************)
(* UdpRelay while no object or id is confused with an earlier use of it,   *)
(* for every instance: the free list is sound, the tables of an open port  *)
(* are paired, and answers reach the client they are for.                  *)
(***************************************************************************)
EXTENDS UdpRelayProofs

LEMMA SoundStays == ASSUME NEW confused, Unless(confused) PROVE sound' => sound /\ ~ confused
BY Zenon DEF Unless

-----------------------------------------------------------------------------
(* The free list and the entries of the ports. *)

\* Who has an entry knows its port; who is about to be released is closed; who
\* is about to be entered has no entry yet.
EntriesSound ==
  sound =>
    /\ \A p \in Port : workconn[p] # 0 => conn[workconn[p]].port = p
    /\ \A t \in Thread : task[t].pc = "free" => conn[Head(task[t].todo).obj].bound = "none"
    /\ task["pool"].pc \in {"name", "publish"} =>
         \A p \in Port : workconn[p] # Head(task["pool"].todo).obj
    /\ task["pool"].pc = "publish" =>
         conn[Head(task["pool"].todo).obj].port = task["pool"].port

FreeSound == FreeListSound /\ EntriesSound

LEMMA InitFree == Init => FreeSound
<1> SUFFICES ASSUME Init PROVE FreeSound
  OBVIOUS
<1>1. Len(free) = Objects - 1 /\ \A i \in 1 .. Len(free) : free[i] = i + 1
  BY NumberAssumption DEF Init
<1>2. \A i \in 1 .. Len(free) : free[i] \in Object /\ free[i] # 1 /\ free[i] # 0
  BY <1>1, NumberAssumption DEF Object
<1>3. \A o \in Object : o # 1 => conn[o].bound = "none"
  BY DEF Init
<1>4. \A p \in Port : workconn[p] = IF p = "fwd" THEN 1 ELSE 0
  BY DEF Init
<1>5. FreeListSound
  <2>1. \A i, j \in 1 .. Len(free) : free[i] = free[j] => i = j
    BY <1>1
  <2>2. \A i \in 1 .. Len(free) : conn[free[i]].bound = "none"
    BY <1>2, <1>3
  <2>3. \A i \in 1 .. Len(free), p \in Port : workconn[p] # free[i]
    BY <1>2, <1>4
  <2> QED
    BY <2>1, <2>2, <2>3 DEF FreeListSound
<1>6. EntriesSound
  <2>1. \A t \in Thread : task[t].pc = "idle"
    BY DEF Init, Idle
  <2>2. 1 \in Object /\ conn[1].port = "fwd"
    BY NumberAssumption DEF Init, Object
  <2> QED
    BY <1>4, <2>1, <2>2 DEF EntriesSound, Thread
<1> QED
  BY <1>5, <1>6 DEF FreeSound

\* A step that neither opens nor closes a port, nor begins to.
QuietPorts ==
  /\ sound' => sound
  /\ UNCHANGED <<free, workconn>>
  /\ \A o \in Object : conn'[o].bound = conn[o].bound /\ conn'[o].port = conn[o].port
  /\ \A t \in Thread : task'[t].pc = "free" => task'[t] = task[t]
  /\ task'["pool"].pc \in {"name", "publish"} => task'["pool"] = task["pool"]

LEMMA QuietFree == Typed /\ FreeSound /\ QuietPorts => FreeSound'
<1> SUFFICES ASSUME Typed, FreeSound, QuietPorts, sound' PROVE FreeSound'
  BY DEF FreeSound, FreeListSound, EntriesSound
<1>1. sound /\ free' = free /\ workconn' = workconn
  BY DEF QuietPorts
<1>2. free \in Seq(Object) /\ workconn \in [Port -> 0 .. Objects]
  BY DEF Typed, PortsTyped
<1>3. FreeListSound'
  BY <1>1, <1>2 DEF FreeSound, FreeListSound, QuietPorts
<1>4. \A t \in Thread : task[t].pc = "free" => Head(task[t].todo).obj \in Object
  BY TodoHead DEF Typed, TaskTyped
<1>5. task["pool"].pc = "publish" => Head(task["pool"].todo).obj \in Object
  BY TodoHead DEF Typed, TaskTyped, Thread
<1>6. \A p \in Port : workconn[p] # 0 => workconn[p] \in Object
  BY <1>2, NumberAssumption DEF Object
<1>7. EntriesSound'
  <2>1. \A p \in Port : workconn'[p] # 0 => conn'[workconn'[p]].port = p
    BY <1>1, <1>6 DEF FreeSound, EntriesSound, QuietPorts
  <2>2. \A t \in Thread : task'[t].pc = "free" => conn'[Head(task'[t].todo).obj].bound = "none"
    BY <1>1, <1>4 DEF FreeSound, EntriesSound, QuietPorts
  <2>3. task'["pool"].pc \in {"name", "publish"} =>
          \A p \in Port : workconn'[p] # Head(task'["pool"].todo).obj
    BY <1>1 DEF FreeSound, EntriesSound, QuietPorts
  <2>4. task'["pool"].pc = "publish" =>
          conn'[Head(task'["pool"].todo).obj].port = task'["pool"].port
    BY <1>1, <1>5 DEF FreeSound, EntriesSound, QuietPorts
  <2> QED
    BY <2>1, <2>2, <2>3, <2>4 DEF EntriesSound
<1> QED
  BY <1>3, <1>7 DEF FreeSound

\* A thread that becomes idle, or begins to close, forget or handle.
LEMMA QuietTask ==
  ASSUME Typed, NEW t \in Thread, NEW s, task' = [task EXCEPT ![t] = s],
         s.pc \notin {"free", "name", "publish"}
  PROVE  /\ \A u \in Thread : task'[u].pc = "free" => task'[u] = task[u]
         /\ task'["pool"].pc \in {"name", "publish"} => task'["pool"] = task["pool"]
BY DEF Typed, TaskTyped, Thread

LEMMA QuietClose ==
  ASSUME Typed, NEW t \in Thread, NEW todo, NEW forgets, Closes(t, todo, forgets),
         UNCHANGED <<ports, sound>>
  PROVE  QuietPorts
<1>1. PICK s : task' = [task EXCEPT ![t] = s] /\ s.pc \notin {"free", "name", "publish"}
  <2> DEFINE c == [pc |-> "close", todo |-> todo, port |-> "none", admin |-> forgets]
             f == [pc |-> "forget", todo |-> <<>>, port |-> "none", admin |-> forgets]
             s == IF todo # <<>> THEN c ELSE IF forgets # "none" THEN f ELSE Idle
  <2>1. task' = [task EXCEPT ![t] = s]
    BY DEF Closes
  <2>2. c.pc = "close" /\ f.pc = "forget" /\ Idle.pc = "idle"
    BY DEF Idle
  <2> HIDE DEF c, f
  <2>3. s.pc \notin {"free", "name", "publish"}
    BY <2>2
  <2> QED
    BY <2>1, <2>3
<1> QED
  BY <1>1, QuietTask DEF QuietPorts, ports

LEMMA QuietIdle ==
  ASSUME Typed, NEW t \in Thread, task' = [task EXCEPT ![t] = Idle], UNCHANGED <<ports, sound>>
  PROVE  QuietPorts
<1>1. Idle.pc \notin {"free", "name", "publish"}
  BY DEF Idle
<1> QED
  BY <1>1, QuietTask DEF QuietPorts, ports

LEMMA QuietSame == ASSUME sound' => sound, UNCHANGED <<ports, task>> PROVE QuietPorts
BY DEF QuietPorts, ports

\* A registration changes only the next id of its object.
LEMMA QuietRegister ==
  ASSUME Typed, NEW o \in Object, NEW x \in Addr, Register(o, x), UNCHANGED <<free, workconn>>,
         task' = [task EXCEPT !["udp"] = Idle]
  PROVE  QuietPorts
<1>1. PICK id : conn' = [conn EXCEPT ![o].msg_id = id + 1] /\ (sound' => sound)
  BY RegisterDoes, SMTT(20) DEF Registered
<1>2. conn \in [Object -> Conn]
  BY DEF Typed, PortsTyped
<1>3. \A q \in Object : conn'[q].bound = conn[q].bound /\ conn'[q].port = conn[q].port
  BY <1>1, <1>2 DEF Conn
<1>4. Idle.pc \notin {"free", "name", "publish"} /\ "udp" \in Thread
  BY DEF Idle, Thread
<1> QED
  BY <1>1, <1>3, <1>4, QuietTask DEF QuietPorts

LEMMA EstablishFree ==
  ASSUME Typed, FreeSound, NEW p \in UserPort, NEW a \in Admin, Establish(p, a) PROVE FreeSound'
<1>1. CASE free = <<>>
  <2>1. UNCHANGED <<ports, task, sound>>
    BY <1>1 DEF Establish
  <2> QED
    BY <2>1, QuietSame, QuietFree
<1>2. CASE free # <<>> /\ sound'
  <2> DEFINE o == Head(free)
             g == count'.open
  <2>1. /\ free' = Tail(free) /\ workconn' = workconn
        /\ conn' = [conn EXCEPT ![o].bound = p, ![o].forward = FALSE, ![o].msg_id = 0, ![o].gen = g]
        /\ task' = [task EXCEPT !["pool"] = [pc |-> "name", todo |-> <<[obj |-> o, gen |-> g]>>,
                                            port |-> p, admin |-> a]]
        /\ sound /\ o \notin Held
    BY <1>2, SoundStays, Zenon DEF Establish
  <2>2. free \in Seq(Object) /\ conn \in [Object -> Conn] /\ task \in [Thread -> Task]
    BY DEF Typed, PortsTyped, TaskTyped
  <2>3. /\ o \in Object /\ o = free[1] /\ Len(free) \in Nat /\ 1 \in 1 .. Len(free)
        /\ Len(free') = Len(free) - 1
        /\ \A i \in 1 .. Len(free') : free'[i] = free[i + 1] /\ i + 1 \in 1 .. Len(free)
    BY <1>2, <2>1, <2>2
  <2> HIDE DEF o, g
  <2>4. \A q \in Object : /\ q # o => conn'[q].bound = conn[q].bound
                          /\ conn'[q].port = conn[q].port
    BY <2>1, <2>2, <2>3 DEF Conn
  <2>5. /\ \A i, j \in 1 .. Len(free) : free[i] = free[j] => i = j
        /\ \A i \in 1 .. Len(free) : conn[free[i]].bound = "none" /\ \A q \in Port : workconn[q] # free[i]
    BY <2>1 DEF FreeSound, FreeListSound
  <2>6. FreeListSound'
    <3>1. \A i, j \in 1 .. Len(free') : free'[i] = free'[j] => i = j
      BY <2>3, <2>5
    <3>2. \A i \in 1 .. Len(free') : free'[i] \in Object /\ free'[i] # o
      <4> TAKE i \in 1 .. Len(free')
      <4>1. free'[i] = free[i + 1] /\ i + 1 \in 1 .. Len(free) /\ i + 1 # 1
        BY <2>3
      <4>2. free[i + 1] # free[1]
        BY <2>3, <2>5, <4>1
      <4> QED
        BY <2>2, <2>3, <4>1, <4>2
    <3>3. \A i \in 1 .. Len(free') :
            conn'[free'[i]].bound = "none" /\ \A q \in Port : workconn'[q] # free'[i]
      <4> TAKE i \in 1 .. Len(free')
      <4>1. free'[i] = free[i + 1] /\ i + 1 \in 1 .. Len(free)
        BY <2>3
      <4>2. conn[free'[i]].bound = "none" /\ \A q \in Port : workconn[q] # free'[i]
        BY <2>5, <4>1
      <4>3. workconn' = workconn
        BY <2>1
      <4> QED
        BY <2>4, <3>2, <4>2, <4>3
    <3> QED
      BY <3>1, <3>3 DEF FreeListSound
  <2>7. task'["pool"].pc = "name" /\ Head(task'["pool"].todo).obj = o
    BY <2>1, <2>2 DEF Thread
  <2>8. \A t \in Thread : t # "pool" => task'[t] = task[t]
    BY <2>1, <2>2
  <2>9. \A t \in Thread : task[t].pc = "free" => Head(task[t].todo).obj \in Object \ {o}
    <3> TAKE t \in Thread
    <3> HAVE task[t].pc = "free"
    <3>1. task[t].todo \in Seq(Ptr) /\ task[t].todo # <<>>
      BY DEF Typed, TaskTyped, Task
    <3>2. 1 \in 1 .. Len(task[t].todo) /\ Head(task[t].todo) = task[t].todo[1]
      BY <3>1
    <3>3. task[t].todo[1].obj \in Held
      BY <3>2 DEF Held
    <3> QED
      BY <2>1, <3>1, <3>2, <3>3, TodoHead
  <2>10. EntriesSound'
    <3>1. \A q \in Port : workconn'[q] # 0 => conn'[workconn'[q]].port = q
      <4>1. \A q \in Port : workconn[q] # 0 => workconn[q] \in Object
        BY NumberAssumption DEF Typed, PortsTyped, Object
      <4> QED
        BY <2>1, <2>4, <4>1 DEF FreeSound, EntriesSound
    <3>2. \A t \in Thread : task'[t].pc = "free" => conn'[Head(task'[t].todo).obj].bound = "none"
      <4> TAKE t \in Thread
      <4> HAVE task'[t].pc = "free"
      <4>1. t # "pool" /\ task'[t] = task[t] /\ task[t].pc = "free"
        BY <2>7, <2>8
      <4>2. conn[Head(task[t].todo).obj].bound = "none"
        BY <2>1, <4>1 DEF FreeSound, EntriesSound
      <4> QED
        BY <2>4, <2>9, <4>1, <4>2
    <3>3. \A q \in Port : workconn'[q] # Head(task'["pool"].todo).obj
      BY <2>1, <2>3, <2>5, <2>7
    <3> QED
      BY <2>7, <3>1, <3>2, <3>3 DEF EntriesSound
  <2> QED
    BY <2>6, <2>10 DEF FreeSound
<1>3. CASE ~ sound'
  BY <1>3 DEF FreeSound, FreeListSound, EntriesSound
<1> QED
  BY <1>1, <1>2, <1>3

LEMMA NameFree == ASSUME Typed, FreeSound, Name PROVE FreeSound'
<1> DEFINE o == Head(task["pool"].todo).obj
<1>1. CASE sound
  <2>1. /\ task["pool"].pc = "name"
        /\ conn' = [conn EXCEPT ![o].admin = task["pool"].admin, ![o].port = task["pool"].port]
        /\ task' = [task EXCEPT !["pool"].pc = "publish"]
        /\ UNCHANGED <<free, workconn, sound>>
    BY DEF Name, At
  <2>2. /\ conn \in [Object -> Conn] /\ task \in [Thread -> Task] /\ "pool" \in Thread
        /\ free \in Seq(Object) /\ workconn \in [Port -> 0 .. Objects]
    BY DEF Typed, PortsTyped, TaskTyped, Thread
  <2>3. o \in Object
    BY <2>1, <2>2, TodoHead DEF Typed, TaskTyped
  <2>4. task'["pool"].todo = task["pool"].todo /\ task'["pool"].port = task["pool"].port
        /\ task'["pool"].pc = "publish" /\ \A t \in Thread : t # "pool" => task'[t] = task[t]
    BY <2>1, <2>2 DEF Task
  <2>5. \A p \in Port : workconn[p] # o
    BY <1>1, <2>1 DEF FreeSound, EntriesSound
  <2> HIDE DEF o
  <2>6. /\ \A q \in Object : conn'[q].bound = conn[q].bound /\ (q # o => conn'[q].port = conn[q].port)
        /\ conn'[o].port = task["pool"].port
    BY <2>1, <2>2, <2>3 DEF Conn
  <2>7. FreeListSound'
    BY <1>1, <2>1, <2>2, <2>6 DEF FreeSound, FreeListSound
  <2>8. \A t \in Thread : task[t].pc = "free" => Head(task[t].todo).obj \in Object
    BY TodoHead DEF Typed, TaskTyped
  <2>9. EntriesSound'
    <3>1. \A q \in Port : workconn'[q] # 0 => conn'[workconn'[q]].port = q
      <4>1. \A q \in Port : workconn[q] # 0 => workconn[q] \in Object
        BY <2>2, NumberAssumption DEF Object
      <4> QED
        BY <1>1, <2>1, <2>5, <2>6, <4>1 DEF FreeSound, EntriesSound
    <3>2. \A t \in Thread : task'[t].pc = "free" => conn'[Head(task'[t].todo).obj].bound = "none"
      BY <1>1, <2>4, <2>6, <2>8 DEF FreeSound, EntriesSound
    <3>3. Head(task'["pool"].todo).obj = o
      BY <2>4 DEF o
    <3> QED
      BY <2>1, <2>4, <2>5, <2>6, <3>1, <3>2, <3>3 DEF EntriesSound
  <2> QED
    BY <2>7, <2>9 DEF FreeSound
<1>2. CASE ~ sound
  BY <1>2 DEF Name, FreeSound, FreeListSound, EntriesSound
<1> QED
  BY <1>1, <1>2

LEMMA PublishFree == ASSUME Typed, FreeSound, Publish PROVE FreeSound'
<1> DEFINE o == Head(task["pool"].todo).obj
           p == task["pool"].port
<1>1. CASE sound'
  <2>1. /\ task["pool"].pc = "publish" /\ workconn' = [workconn EXCEPT ![p] = o]
        /\ task' = [task EXCEPT !["pool"] = Idle] /\ UNCHANGED <<free, conn>>
        /\ sound /\ conn[o].bound # "none"
    BY <1>1, SoundStays, Zenon DEF Publish, At
  <2>2. /\ task \in [Thread -> Task] /\ "pool" \in Thread
        /\ free \in Seq(Object) /\ workconn \in [Port -> 0 .. Objects]
    BY DEF Typed, PortsTyped, TaskTyped, Thread
  <2>3. conn[o].port = p
    BY <2>1 DEF FreeSound, EntriesSound
  <2> HIDE DEF o, p
  <2>4. \A q \in Port : workconn'[q] = IF q = p THEN o ELSE workconn[q]
    BY <2>1, <2>2
  <2>5. FreeListSound'
    BY <2>1, <2>2, <2>4 DEF FreeSound, FreeListSound
  <2>6. task'["pool"].pc = "idle" /\ \A t \in Thread : t # "pool" => task'[t] = task[t]
    BY <2>1, <2>2 DEF Idle
  <2>7. EntriesSound'
    <3>1. \A q \in Port : workconn'[q] # 0 => conn'[workconn'[q]].port = q
      BY <2>1, <2>3, <2>4 DEF FreeSound, EntriesSound
    <3>2. \A t \in Thread : task'[t].pc = "free" => conn'[Head(task'[t].todo).obj].bound = "none"
      BY <2>1, <2>6 DEF FreeSound, EntriesSound
    <3> QED
      BY <2>6, <3>1, <3>2 DEF EntriesSound
  <2> QED
    BY <2>5, <2>7 DEF FreeSound
<1>2. CASE ~ sound'
  BY <1>2 DEF FreeSound, FreeListSound, EntriesSound
<1> QED
  BY <1>1, <1>2

LEMMA CloseFdFree == ASSUME Typed, FreeSound, NEW t \in Thread, CloseFd(t) PROVE FreeSound'
<1> DEFINE o == Head(task[t].todo).obj
<1>1. CASE sound'
  <2>1. /\ task[t].pc = "close" /\ conn' = [conn EXCEPT ![o].bound = "none"]
        /\ task' = [task EXCEPT ![t].pc = "free"] /\ UNCHANGED <<free, workconn>>
        /\ sound
    BY <1>1, SoundStays, Zenon DEF CloseFd, At
  <2>2. /\ conn \in [Object -> Conn] /\ task \in [Thread -> Task]
        /\ free \in Seq(Object) /\ workconn \in [Port -> 0 .. Objects]
    BY DEF Typed, PortsTyped, TaskTyped
  <2>3. o \in Object
    BY <2>1, TodoHead DEF Typed, TaskTyped
  <2>4. task'[t].todo = task[t].todo /\ task'[t].pc = "free"
        /\ \A u \in Thread : u # t => task'[u] = task[u]
    BY <2>1, <2>2 DEF Task
  <2>5. Head(task'[t].todo).obj = o
    BY <2>4
  <2> HIDE DEF o
  <2>6. \A q \in Object : /\ conn'[q].bound = IF q = o THEN "none" ELSE conn[q].bound
                          /\ conn'[q].port = conn[q].port
    BY <2>1, <2>2, <2>3 DEF Conn
  <2>7. FreeListSound'
    BY <2>1, <2>2, <2>6 DEF FreeSound, FreeListSound
  <2>8. \A u \in Thread : task[u].pc \in {"free", "publish"} => Head(task[u].todo).obj \in Object
    BY TodoHead DEF Typed, TaskTyped
  <2>9. EntriesSound'
    <3>1. \A q \in Port : workconn'[q] # 0 => conn'[workconn'[q]].port = q
      <4>1. \A q \in Port : workconn[q] # 0 => workconn[q] \in Object
        BY <2>2, NumberAssumption DEF Object
      <4> QED
        BY <2>1, <2>6, <4>1 DEF FreeSound, EntriesSound
    <3>2. \A u \in Thread : task'[u].pc = "free" => conn'[Head(task'[u].todo).obj].bound = "none"
      BY <2>1, <2>3, <2>4, <2>5, <2>6, <2>8 DEF FreeSound, EntriesSound
    <3>3. task'["pool"].pc \in {"name", "publish"} => task'["pool"] = task["pool"] /\ "pool" \in Thread
      BY <2>4 DEF Thread
    <3>4. task'["pool"].pc \in {"name", "publish"} =>
            \A q \in Port : workconn'[q] # Head(task'["pool"].todo).obj
      BY <2>1, <3>3 DEF FreeSound, EntriesSound
    <3>5. task'["pool"].pc = "publish" =>
            conn'[Head(task'["pool"].todo).obj].port = task'["pool"].port
      BY <2>1, <2>6, <2>8, <3>3 DEF FreeSound, EntriesSound
    <3> QED
      BY <3>1, <3>2, <3>4, <3>5 DEF EntriesSound
  <2> QED
    BY <2>7, <2>9 DEF FreeSound
<1>2. CASE ~ sound'
  BY <1>2 DEF FreeSound, FreeListSound, EntriesSound
<1> QED
  BY <1>1, <1>2

LEMMA FreeConnectionFree ==
  ASSUME Typed, FreeSound, NEW t \in Thread, FreeConnection(t) PROVE FreeSound'
<1> DEFINE o == Head(task[t].todo).obj
           p == conn[o].port
<1>1. CASE sound'
  <2>1. /\ task[t].pc = "free" /\ free' = Append(free, o)
        /\ workconn' = [q \in Port |-> IF q = p THEN 0 ELSE workconn[q]]
        /\ Released(t) /\ UNCHANGED conn /\ sound /\ p # "none" /\ workconn[p] = o
    BY <1>1, SoundStays, Zenon DEF FreeConnection, At
  <2>2. /\ conn \in [Object -> Conn] /\ task \in [Thread -> Task]
        /\ free \in Seq(Object) /\ workconn \in [Port -> 0 .. Objects]
    BY DEF Typed, PortsTyped, TaskTyped
  <2>3. o \in Object
    BY <2>1, TodoHead DEF Typed, TaskTyped
  <2>4. p \in Port
    BY <2>1, <2>2, <2>3 DEF Conn
  <2>5. conn[o].bound = "none" /\ \A q \in Port : workconn[q] = o => q = p
    <3>1. conn[o].bound = "none"
      BY <2>1 DEF FreeSound, EntriesSound
    <3>2. o # 0
      BY <2>3, NumberAssumption DEF Object
    <3>3. \A q \in Port : workconn[q] # 0 => conn[workconn[q]].port = q
      BY <2>1 DEF FreeSound, EntriesSound
    <3> QED
      BY <3>1, <3>2, <3>3
  <2>6. PICK s : task' = [task EXCEPT ![t] = s] /\ s.pc \notin {"free", "name", "publish"}
    <3>1. [task[t] EXCEPT !.pc = "close", !.todo = Tail(task[t].todo)].pc = "close"
          /\ [task[t] EXCEPT !.pc = "forget", !.todo = <<>>].pc = "forget" /\ Idle.pc = "idle"
      BY <2>2 DEF Task, Idle
    <3> QED
      BY <2>1, <3>1 DEF Released
  <2> HIDE DEF o, p
  <2>7. FreeListSound'
    <3>1. /\ Len(free') = Len(free) + 1 /\ Len(free) \in Nat /\ free'[Len(free')] = o
          /\ \A i \in 1 .. Len(free) : free'[i] = free[i] /\ free[i] # o
      BY <2>1, <2>2, <2>3, <2>4 DEF FreeSound, FreeListSound
    <3>2. \A q \in Port : workconn'[q] # o /\ workconn'[q] \in {workconn[q], 0}
      BY <2>1, <2>3, <2>5, NumberAssumption DEF Object
    <3>3. \A i \in 1 .. Len(free) : free[i] # 0
      BY <2>2, NumberAssumption DEF Object
    <3>4. \A i \in 1 .. Len(free') : i \in 1 .. Len(free) \/ i = Len(free')
      BY <3>1
    <3>5. \A i, j \in 1 .. Len(free') : free'[i] = free'[j] => i = j
      BY <2>1, <3>1, <3>4 DEF FreeSound, FreeListSound
    <3>6. \A i \in 1 .. Len(free') : conn'[free'[i]].bound = "none" /\ \A q \in Port : workconn'[q] # free'[i]
      BY <2>1, <2>5, <3>1, <3>2, <3>3, <3>4 DEF FreeSound, FreeListSound
    <3> QED
      BY <3>5, <3>6 DEF FreeListSound
  <2>8. EntriesSound'
    <3>1. /\ \A u \in Thread : task'[u].pc = "free" => task'[u] = task[u]
          /\ task'["pool"].pc \in {"name", "publish"} => task'["pool"] = task["pool"]
      BY <2>6, QuietTask
    <3>2. \A q \in Port : workconn'[q] \in {workconn[q], 0}
      BY <2>1
    <3>3. \A u \in Thread : task'[u].pc = "free" => conn'[Head(task'[u].todo).obj].bound = "none"
      BY <2>1, <3>1 DEF FreeSound, EntriesSound
    <3>4. \A q \in Port : workconn'[q] # 0 => conn'[workconn'[q]].port = q
      BY <2>1, <3>2 DEF FreeSound, EntriesSound
    <3>5. task'["pool"].pc \in {"name", "publish"} => Head(task["pool"].todo).obj # 0
      BY <3>1, TodoHead, NumberAssumption DEF Typed, TaskTyped, Thread, Object
    <3>6. task'["pool"].pc \in {"name", "publish"} =>
            \A q \in Port : workconn'[q] # Head(task'["pool"].todo).obj
      BY <2>1, <3>1, <3>2, <3>5 DEF FreeSound, EntriesSound
    <3>7. task'["pool"].pc = "publish" =>
            conn'[Head(task'["pool"].todo).obj].port = task'["pool"].port
      BY <2>1, <3>1 DEF FreeSound, EntriesSound
    <3> QED
      BY <3>3, <3>4, <3>6, <3>7 DEF EntriesSound
  <2> QED
    BY <2>7, <2>8 DEF FreeSound
<1>2. CASE ~ sound'
  BY <1>2 DEF FreeSound, FreeListSound, EntriesSound
<1> QED
  BY <1>1, <1>2

\* The forward thread and the sender change no object and no registration.
LEMMA ForwardCalm == ForwardStep => UNCHANGED <<ports, tables, task, sound>>
<1>1. (\E m \in packages : Forward(m)) => UNCHANGED <<ports, tables, task, sound>>
  BY DEF Forward
<1>2. ASSUME NEW f \in forwarding, ForwardPort(f) \/ FindAdmin(f) \/ ForwardAdmin(f) \/ ForwardTo(f)
      PROVE  UNCHANGED <<ports, tables, task, sound>>
  BY <1>2 DEF ForwardPort, FindAdmin, ForwardAdmin, ForwardTo, Forwards, Crash
<1> QED
  BY <1>1, <1>2 DEF ForwardStep

LEMMA SenderCalm == SenderStep => UNCHANGED <<ports, tables, task, sound>>
<1>1. (\E m \in answers : Take(m)) => UNCHANGED <<ports, tables, task, sound>>
  BY DEF Take
<1>2. TakePort \/ FindId \/ TakeId => UNCHANGED <<ports, tables, task, sound>>
  BY DEF TakePort, FindId, TakeId, Looks, Crash
<1>3. FindAddr \/ TakeAddr => UNCHANGED <<ports, tables, task, sound>>
  BY DEF FindAddr, TakeAddr, Looks
<1>4. SendTo => UNCHANGED <<ports, tables, task, sound>>
  BY DEF SendTo, Crash
<1> QED
  BY <1>1, <1>2, <1>3, <1>4 DEF SenderStep

LEMMA StepFree == Typed /\ FreeSound /\ [Next]_vars => FreeSound'
<1> SUFFICES ASSUME Typed, FreeSound, [Next]_vars PROVE FreeSound'
  OBVIOUS
<1> USE QuietFree
<1>1. ASSUME NEW why, Crash(why) PROVE FreeSound'
  BY <1>1, QuietSame DEF Crash
<1>2. CASE PoolStep
  <2>1. ASSUME NEW p \in UserPort, NEW a \in Admin, CloseSocket(p, a) PROVE FreeSound'
    <3> DEFINE s == [pc |-> "look", todo |-> <<>>, port |-> p, admin |-> a]
    <3>1. task' = [task EXCEPT !["pool"] = s] /\ UNCHANGED <<ports, sound>> /\ "pool" \in Thread
      BY <2>1 DEF CloseSocket, Thread
    <3>2. s.pc \notin {"free", "name", "publish"}
      OBVIOUS
    <3> HIDE DEF s
    <3> QED
      BY <3>1, <3>2, QuietTask DEF QuietPorts, ports
  <2>2. ASSUME NEW a \in Admin, CloseAll(a) PROVE FreeSound'
    <3>1. PICK todo : Closes("pool", todo, "none")
      BY <2>2 DEF CloseAll
    <3>2. UNCHANGED <<ports, sound>> /\ "pool" \in Thread
      BY <2>2 DEF CloseAll, Thread
    <3> QED
      BY <3>1, <3>2, QuietClose
  <2>3. CASE Looked
    <3>1. CASE ~ Crash("null connection")
      <4>1. PICK todo : Closes("pool", todo, "none")
        BY <2>3, <3>1 DEF Looked
      <4>2. UNCHANGED <<ports, sound>> /\ "pool" \in Thread
        BY <2>3, <3>1 DEF Looked, Thread
      <4> QED
        BY <4>1, <4>2, QuietClose
    <3> QED
      BY <1>1, <3>1
  <2> QED
    BY <1>2, <2>1, <2>2, <2>3, EstablishFree, NameFree, PublishFree DEF PoolStep
<1>3. ASSUME NEW t \in Thread, ShutdownStep(t) \/ \E a \in Admin : Leave(t, a) PROVE FreeSound'
  <2>1. ASSUME NEW a \in Admin, Leave(t, a) PROVE FreeSound'
    <3>1. PICK todo : Closes(t, todo, a)
      BY <2>1 DEF Leave
    <3>2. UNCHANGED <<ports, sound>>
      BY <2>1 DEF Leave
    <3> QED
      BY <3>1, <3>2, QuietClose
  <2>2. CASE Forget(t)
    <3>1. CASE Crash("no forward port")
      BY <1>1, <3>1
    <3>2. CASE ~ Crash("no forward port")
      <4> DEFINE d == [task[t] EXCEPT !.pc = "delete", !.todo = <<Pointer(workconn["fwd"])>>]
                 s == IF ~ HasAddr(workconn["fwd"], task[t].admin) THEN Idle ELSE d
      <4>1. task' = [task EXCEPT ![t] = s] /\ UNCHANGED <<ports, sound>>
        BY <2>2, <3>2 DEF Forget
      <4>2. d.pc = "delete" /\ Idle.pc = "idle"
        BY DEF Typed, TaskTyped, Task, Idle
      <4> HIDE DEF d
      <4>3. s.pc \notin {"free", "name", "publish"}
        BY <4>2
      <4> QED
        BY <4>1, <4>3, QuietTask DEF QuietPorts, ports
    <3> QED
      BY <3>1, <3>2
  <2>3. CASE Delete(t)
    BY <1>1, <2>3, DeleteSplit, QuietIdle DEF Removes
  <2> QED
    BY <1>3, <2>1, <2>2, <2>3, CloseFdFree, FreeConnectionFree DEF ShutdownStep
<1>4. ASSUME NEW o \in Object, UdpStep(o) PROVE FreeSound'
  <2>1. CASE EpollWait(o)
    <3> DEFINE s == [pc |-> "handle", todo |-> <<Pointer(o)>>, port |-> conn[o].port, admin |-> "none"]
    <3>1. task' = [task EXCEPT !["udp"] = s] /\ UNCHANGED <<ports, sound>> /\ "udp" \in Thread
      BY <2>1 DEF EpollWait, Thread
    <3>2. s.pc \notin {"free", "name", "publish"}
      OBVIOUS
    <3> HIDE DEF s
    <3> QED
      BY <3>1, <3>2, QuietTask DEF QuietPorts, ports
  <2>2. CASE ReadEnds(o)
    BY <2>2, QuietClose DEF ReadEnds, Thread
  <2>3. CASE ReadRetried(o)
    BY <2>3, QuietIdle DEF ReadRetried, Thread
  <2>4. ASSUME NEW c \in Client, UserRequest(o, c) PROVE FreeSound'
    <3>1. CASE Requests(o, c) /\ Renews(o, c)
      <4>1. UNCHANGED <<ports, sound>> /\ task' = [task EXCEPT !["udp"] = Idle] /\ "udp" \in Thread
        BY <3>1 DEF Requests, Renews, ports, Thread
      <4> QED
        BY <4>1, QuietIdle
    <3>2. CASE Requests(o, c) /\ Makes(o, c)
      <4>1. Register(o, c) /\ task' = [task EXCEPT !["udp"] = Idle] /\ UNCHANGED <<free, workconn>>
        BY <3>2 DEF Requests, Makes
      <4> QED
        BY <4>1, QuietRegister DEF Addr
    <3> QED
      BY <1>1, <2>4, <3>1, <3>2, UserRequestSplit DEF Requests
  <2>5. ASSUME NEW a \in Admin, ForwardRegisters(o, a) PROVE FreeSound'
    <3>1. Register(o, a) /\ task' = [task EXCEPT !["udp"] = Idle] /\ UNCHANGED <<free, workconn>>
      BY <2>5 DEF ForwardRegisters
    <3> QED
      BY <3>1, QuietRegister DEF Addr
  <2>6. ASSUME NEW a \in Admin, ForwardRequest(o, a) PROVE FreeSound'
    <3>1. CASE Answers(o, a)
      BY <3>1, QuietIdle DEF Answers, Thread
    <3> QED
      BY <1>1, <2>6, <3>1, ForwardRequestSplit
  <2> QED
    BY <1>4, <2>1, <2>2, <2>3, <2>4, <2>5, <2>6 DEF UdpStep
<1>5. CASE ForwardStep
  BY <1>5, ForwardCalm, QuietSame
<1>6. CASE SenderStep
  BY <1>6, SenderCalm, QuietSame
<1>7. ASSUME NEW r \in DOMAIN reg, GrowOld(r) \/ Expire(r) PROVE FreeSound'
  <2>1. CASE GrowOld(r)
    BY <2>1, QuietSame DEF GrowOld
  <2>2. ASSUME NEW o \in Object, NEW x, Deletes(r, o, x) PROVE FreeSound'
    BY <2>2, SoundStays, QuietSame DEF Deletes
  <2> QED
    BY <1>1, <1>7, <2>1, <2>2, ExpireSplit
<1>8. CASE Heartbeat
  <2>1. ASSUME NEW dead, Frees(dead) PROVE FreeSound'
    <3>1. UNCHANGED <<ports, task, sound>>
      BY <2>1 DEF Frees
    <3> QED
      BY <3>1, QuietSame
  <2> QED
    BY <1>1, <1>8, <2>1, HeartbeatSplit
<1>9. CASE UNCHANGED vars
  BY <1>9, QuietSame DEF vars
<1> QED
  BY <1>2, <1>3, <1>4, <1>5, <1>6, <1>7, <1>8, <1>9 DEF Next

\* While nothing is confused, free objects are closed and entered nowhere, and
\* are free once, whichever threads close and open ports at once.
THEOREM FreeObjectsUnused == Spec => []FreeListSound
<1>1. Init => Typed /\ FreeSound
  BY InitTyped, InitFree
<1>2. Typed /\ FreeSound /\ [Next]_vars => (Typed /\ FreeSound)'
  BY StepTyped, StepFree
<1>3. Typed /\ FreeSound => FreeListSound
  BY DEF FreeSound
<1> QED
  BY <1>1, <1>2, <1>3, PTL DEF Spec

-----------------------------------------------------------------------------
(* The tables of the open ports. *)

\* Ids were given out in order.
IdsBelow == sound => \A o \in Object : conn[o].bound # "none" =>
  \A i \in Id : auxinfo[o][i] # "none" => i < conn[o].msg_id

Paired == TablesPaired /\ IdsBelow

\* The tables of object o are paired.
PairedAt(o) ==
  /\ \A x \in Addr : csinfo[o][x] # 0 =>
       /\ reg[csinfo[o][x]].live /\ reg[csinfo[o][x]].addr = x
       /\ auxinfo[o][reg[csinfo[o][x]].id] = x
  /\ \A i \in Id : auxinfo[o][i] # "none" =>
       /\ csinfo[o][auxinfo[o][i]] # 0 /\ reg[csinfo[o][auxinfo[o][i]]].id = i
       /\ i < conn[o].msg_id

LEMMA PairedEverywhere ==
  Paired <=> (sound => \A o \in Object : conn[o].bound # "none" => PairedAt(o))
BY DEF Paired, TablesPaired, IdsBelow, PairedAt

LEMMA PairedNext ==
  ASSUME sound' => \A o \in Object : conn'[o].bound # "none" => PairedAt(o)'
  PROVE  Paired'
BY DEF Paired, TablesPaired, IdsBelow, PairedAt

LEMMA InitPaired == Init => Paired
<1> SUFFICES ASSUME Init PROVE Paired
  OBVIOUS
<1>1. /\ \A o \in Object, x \in Addr : csinfo[o][x] = 0
      /\ \A o \in Object, i \in Id : auxinfo[o][i] = "none"
  BY DEF Init
<1> QED
  BY <1>1 DEF Paired, TablesPaired, IdsBelow

\* What the tables of an object hold is typed.
LEMMA PairedTypes ==
  ASSUME Typed, NEW o \in Object
  PROVE  /\ \A x \in Addr : csinfo[o][x] # 0 =>
              csinfo[o][x] \in DOMAIN reg /\ reg[csinfo[o][x]].id \in Id
         /\ \A i \in Id : auxinfo[o][i] # "none" => auxinfo[o][i] \in Addr
<1>1. /\ csinfo[o] \in [Addr -> 0 .. Len(reg)] /\ auxinfo[o] \in [Id -> Addr \cup {"none"}]
      /\ reg \in Seq(Reg) /\ Len(reg) \in Nat
  BY DEF Typed, TablesTyped
<1>2. \A r \in DOMAIN reg : reg[r] \in Reg
  BY <1>1
<1>3. \A r \in DOMAIN reg : reg[r].id \in Id
  BY <1>2 DEF Reg
<1>4. \A x \in Addr : csinfo[o][x] # 0 => csinfo[o][x] \in DOMAIN reg
  BY <1>1
<1> QED
  BY <1>1, <1>3, <1>4

\* A step that opens nothing and leaves the tables alone.
QuietTables ==
  /\ sound' => sound
  /\ UNCHANGED <<csinfo, auxinfo>>
  /\ \A o \in Object : conn'[o].bound # "none" =>
       conn[o].bound # "none" /\ conn'[o].msg_id = conn[o].msg_id
  /\ \A r \in DOMAIN reg : reg'[r].live = reg[r].live /\ reg'[r].addr = reg[r].addr /\ reg'[r].id = reg[r].id

LEMMA QuietPaired == Typed /\ Paired /\ QuietTables => Paired'
<1> SUFFICES ASSUME Typed, Paired, QuietTables, sound', NEW o \in Object, conn'[o].bound # "none"
             PROVE  PairedAt(o)'
  BY PairedNext
<1>1. PairedAt(o)
  BY PairedEverywhere DEF QuietTables
<1>2. /\ csinfo' = csinfo /\ auxinfo' = auxinfo /\ conn'[o].msg_id = conn[o].msg_id
      /\ \A r \in DOMAIN reg : reg'[r].live = reg[r].live /\ reg'[r].addr = reg[r].addr /\ reg'[r].id = reg[r].id
  BY DEF QuietTables
<1> QED
  BY <1>1, <1>2, PairedTypes DEF PairedAt

\* Opening a port: sound stays only if its object has empty tables.
LEMMA EstablishPaired ==
  ASSUME Typed, Paired, NEW p \in UserPort, NEW a \in Admin, Establish(p, a) PROVE Paired'
<1>1. CASE free = <<>>
  <2>1. UNCHANGED <<ports, sound>> /\ UNCHANGED tables
    BY <1>1 DEF Establish
  <2> QED
    BY <2>1, QuietPaired DEF QuietTables, ports, tables
<1>2. CASE free # <<>>
  <2> DEFINE o == Head(free)
             g == count'.open
  <2>1. conn' = [conn EXCEPT ![o].bound = p, ![o].forward = FALSE, ![o].msg_id = 0, ![o].gen = g]
        /\ UNCHANGED tables
    BY <1>2 DEF Establish
  <2>2. sound' => sound /\ (\A x \in Addr : csinfo[o][x] = 0) /\ (\A i \in Id : auxinfo[o][i] = "none")
    BY <1>2, SoundStays, Zenon DEF Establish, HasAddr, HasId
  <2>3. o \in Object /\ conn \in [Object -> Conn]
    BY <1>2 DEF Typed, PortsTyped
  <2> HIDE DEF o, g
  <2>4. \A q \in Object : q # o => conn'[q].bound = conn[q].bound /\ conn'[q].msg_id = conn[q].msg_id
    BY <2>1, <2>3 DEF Conn
  <2>5. UNCHANGED <<csinfo, auxinfo, reg>>
    BY <2>1 DEF tables
  <2>6. ASSUME sound', NEW q \in Object, conn'[q].bound # "none" PROVE PairedAt(q)'
    <3>1. CASE q = o
      BY <2>2, <2>5, <2>6, <3>1 DEF PairedAt
    <3>2. CASE q # o
      <4>1. PairedAt(q)
        BY <2>2, <2>4, <2>6, <3>2, PairedEverywhere
      <4> QED
        BY <2>4, <2>5, <3>2, <4>1 DEF PairedAt
    <3> QED
      BY <3>1, <3>2
  <2> QED
    BY <2>6, PairedNext
<1> QED
  BY <1>1, <1>2

\* A new registration takes the next id.
LEMMA RegisteredPaired ==
  ASSUME Typed, Paired, NEW o \in Object, NEW x \in Addr, NEW id, NEW n, Registered(o, x, id, n),
         conn[o].bound # "none", csinfo[o][x] = 0
  PROVE  Paired'
<1> SUFFICES ASSUME sound', NEW q \in Object, conn'[q].bound # "none" PROVE PairedAt(q)'
  BY PairedNext
<1>1. /\ n \notin DOMAIN reg /\ n # 0
      /\ \A i \in DOMAIN reg : reg'[i] = reg[i]
      /\ reg'[n].addr = x /\ reg'[n].id = id /\ reg'[n].live
  BY DEF Registered
<1>2. sound /\ id = conn[o].msg_id /\ id \in Id /\ conn[o].msg_id \in Nat
  BY DEF Registered
<1>3. /\ csinfo \in [Object -> [Addr -> 0 .. Len(reg)]]
      /\ auxinfo \in [Object -> [Id -> Addr \cup {"none"}]]
      /\ conn \in [Object -> Conn]
  BY DEF Typed, TablesTyped, PortsTyped
<1>4. /\ \A s \in Object, y \in Addr : csinfo'[s][y] = IF s = o /\ y = x THEN n ELSE csinfo[s][y]
      /\ \A s \in Object, i \in Id : auxinfo'[s][i] = IF s = o /\ i = id THEN x ELSE auxinfo[s][i]
  BY <1>2, <1>3 DEF Registered
<1>5. conn' = [conn EXCEPT ![o].msg_id = id + 1]
  BY DEF Registered
<1>6. /\ \A s \in Object : conn'[s].bound = conn[s].bound
      /\ \A s \in Object : s # o => conn'[s].msg_id = conn[s].msg_id
      /\ conn'[o].msg_id = id + 1
  BY <1>3, <1>5 DEF Conn
<1>7. PairedAt(q)
  BY <1>2, <1>6, PairedEverywhere
<1>8. CASE q # o
  <2>1. /\ \A y \in Addr : csinfo'[q][y] = csinfo[q][y]
        /\ \A i \in Id : auxinfo'[q][i] = auxinfo[q][i]
        /\ conn'[q].msg_id = conn[q].msg_id
    BY <1>4, <1>6, <1>8
  <2>2. \A y \in Addr : csinfo'[q][y] # 0 =>
          /\ reg'[csinfo'[q][y]].live /\ reg'[csinfo'[q][y]].addr = y
          /\ auxinfo'[q][reg'[csinfo'[q][y]].id] = y
    BY <1>1, <1>7, <2>1, PairedTypes DEF PairedAt
  <2>3. \A i \in Id : auxinfo'[q][i] # "none" =>
          /\ csinfo'[q][auxinfo'[q][i]] # 0 /\ reg'[csinfo'[q][auxinfo'[q][i]]].id = i
          /\ i < conn'[q].msg_id
    BY <1>1, <1>7, <2>1, PairedTypes DEF PairedAt
  <2> QED
    BY <2>2, <2>3 DEF PairedAt
<1>9. CASE q = o
  <2>1. ASSUME NEW y \in Addr, csinfo'[o][y] # 0
        PROVE  /\ reg'[csinfo'[o][y]].live /\ reg'[csinfo'[o][y]].addr = y
               /\ auxinfo'[o][reg'[csinfo'[o][y]].id] = y
    <3>1. CASE y = x
      BY <1>1, <1>2, <1>4, <3>1
    <3>2. CASE y # x
      <4>1. csinfo'[o][y] = csinfo[o][y] /\ csinfo[o][y] \in DOMAIN reg /\ reg[csinfo[o][y]].id \in Id
        BY <1>4, <2>1, <3>2, PairedTypes
      <4>2. /\ reg[csinfo[o][y]].live /\ reg[csinfo[o][y]].addr = y
            /\ auxinfo[o][reg[csinfo[o][y]].id] = y
        BY <1>7, <1>9, <2>1, <4>1 DEF PairedAt
      <4>3. y # "none"
        BY NameAssumption DEF Addr
      <4>4. reg[csinfo[o][y]].id < conn[o].msg_id
        BY <1>7, <1>9, <4>1, <4>2, <4>3 DEF PairedAt
      <4>5. reg[csinfo[o][y]].id # id
        BY <1>2, <4>4 DEF Id
      <4> QED
        BY <1>1, <1>4, <4>1, <4>2, <4>5
    <3> QED
      BY <3>1, <3>2
  <2>2. ASSUME NEW i \in Id, auxinfo'[o][i] # "none"
        PROVE  /\ csinfo'[o][auxinfo'[o][i]] # 0 /\ reg'[csinfo'[o][auxinfo'[o][i]]].id = i
               /\ i < conn'[o].msg_id
    <3>1. CASE i = id
      BY <1>1, <1>2, <1>4, <1>6, <3>1 DEF Id
    <3>2. CASE i # id
      <4>1. auxinfo'[o][i] = auxinfo[o][i] /\ auxinfo[o][i] \in Addr
        BY <1>4, <2>2, <3>2, PairedTypes
      <4>2. /\ csinfo[o][auxinfo[o][i]] # 0 /\ reg[csinfo[o][auxinfo[o][i]]].id = i
            /\ i < conn[o].msg_id
        BY <1>7, <1>9, <2>2, <4>1 DEF PairedAt
      <4>3. auxinfo[o][i] # x
        BY <4>2
      <4>4. csinfo'[o][auxinfo[o][i]] = csinfo[o][auxinfo[o][i]] /\ csinfo[o][auxinfo[o][i]] \in DOMAIN reg
        BY <1>4, <4>1, <4>2, <4>3, PairedTypes
      <4>5. i < conn'[o].msg_id
        BY <1>2, <1>6, <4>2 DEF Id
      <4> QED
        BY <1>1, <4>1, <4>2, <4>4, <4>5
    <3> QED
      BY <3>1, <3>2
  <2> QED
    BY <1>9, <2>1, <2>2 DEF PairedAt
<1> QED
  BY <1>8, <1>9

\* What Removes and Deletes take out of the tables of an open port: a
\* registration and its id.
LEMMA TakenOut ==
  ASSUME Typed, NEW q \in Object, PairedAt(q), NEW a \in Addr, NEW r, r = csinfo[q][a], r # 0,
         \A y \in Addr : csinfo'[q][y] = IF y = a THEN 0 ELSE csinfo[q][y],
         \A i \in Id : auxinfo'[q][i] = IF i = reg[r].id THEN "none" ELSE auxinfo[q][i],
         conn'[q].msg_id = conn[q].msg_id,
         \A i \in DOMAIN reg : reg'[i].addr = reg[i].addr /\ reg'[i].id = reg[i].id,
         \A i \in DOMAIN reg : i # r => reg'[i].live = reg[i].live,
         \A y \in Addr : y # a => csinfo[q][y] # r
  PROVE  PairedAt(q)'
<1>1. auxinfo[q][reg[r].id] = a
  BY DEF PairedAt
<1>2. ASSUME NEW y \in Addr, csinfo'[q][y] # 0
      PROVE  /\ reg'[csinfo'[q][y]].live /\ reg'[csinfo'[q][y]].addr = y
             /\ auxinfo'[q][reg'[csinfo'[q][y]].id] = y
  <2>1. /\ y # a /\ csinfo'[q][y] = csinfo[q][y] /\ csinfo[q][y] \in DOMAIN reg
        /\ reg[csinfo[q][y]].id \in Id /\ csinfo[q][y] # r
    BY <1>2, PairedTypes
  <2>2. /\ reg[csinfo[q][y]].live /\ reg[csinfo[q][y]].addr = y
        /\ auxinfo[q][reg[csinfo[q][y]].id] = y
    BY <1>2, <2>1 DEF PairedAt
  <2>3. reg[csinfo[q][y]].id # reg[r].id
    BY <1>1, <2>1, <2>2
  <2> QED
    BY <2>1, <2>2, <2>3
<1>3. ASSUME NEW i \in Id, auxinfo'[q][i] # "none"
      PROVE  /\ csinfo'[q][auxinfo'[q][i]] # 0 /\ reg'[csinfo'[q][auxinfo'[q][i]]].id = i
             /\ i < conn'[q].msg_id
  <2>1. /\ i # reg[r].id /\ auxinfo'[q][i] = auxinfo[q][i] /\ auxinfo[q][i] \in Addr
    BY <1>3, PairedTypes
  <2>2. /\ csinfo[q][auxinfo[q][i]] # 0 /\ reg[csinfo[q][auxinfo[q][i]]].id = i
        /\ i < conn[q].msg_id
    BY <1>3, <2>1 DEF PairedAt
  <2>3. auxinfo[q][i] # a
    BY <2>1, <2>2
  <2>4. csinfo'[q][auxinfo[q][i]] = csinfo[q][auxinfo[q][i]] /\ csinfo[q][auxinfo[q][i]] \in DOMAIN reg
    BY <2>1, <2>2, <2>3, PairedTypes
  <2> QED
    BY <2>1, <2>2, <2>4
<1> QED
  BY <1>2, <1>3 DEF PairedAt

\* The tables of another object than the one a registration is taken out of.
LEMMA OtherTables ==
  ASSUME Typed, NEW q \in Object, PairedAt(q), NEW r,
         \A y \in Addr : csinfo'[q][y] = csinfo[q][y] /\ csinfo[q][y] # r,
         \A i \in Id : auxinfo'[q][i] = auxinfo[q][i],
         conn'[q].msg_id = conn[q].msg_id,
         \A i \in DOMAIN reg : reg'[i].addr = reg[i].addr /\ reg'[i].id = reg[i].id,
         \A i \in DOMAIN reg : i # r => reg'[i].live = reg[i].live
  PROVE  PairedAt(q)'
<1>1. \A y \in Addr : csinfo'[q][y] # 0 =>
        /\ reg'[csinfo'[q][y]].live /\ reg'[csinfo'[q][y]].addr = y
        /\ auxinfo'[q][reg'[csinfo'[q][y]].id] = y
  <2> SUFFICES ASSUME NEW y \in Addr, csinfo[q][y] # 0
               PROVE  /\ reg'[csinfo[q][y]].live /\ reg'[csinfo[q][y]].addr = y
                      /\ auxinfo'[q][reg'[csinfo[q][y]].id] = y
    OBVIOUS
  <2>1. csinfo[q][y] \in DOMAIN reg /\ reg[csinfo[q][y]].id \in Id
    BY PairedTypes
  <2> QED
    BY <2>1 DEF PairedAt
<1>2. \A i \in Id : auxinfo'[q][i] # "none" =>
        /\ csinfo'[q][auxinfo'[q][i]] # 0 /\ reg'[csinfo'[q][auxinfo'[q][i]]].id = i
        /\ i < conn'[q].msg_id
  BY PairedTypes DEF PairedAt
<1> QED
  BY <1>1, <1>2 DEF PairedAt

LEMMA RemovesPaired ==
  ASSUME Typed, Leaks, Paired, NEW t \in Thread, NEW o \in Object, NEW a \in Admin,
         NEW r \in DOMAIN reg, Removes(t, o, a, r), TimedAs(reg', reg, r, "zero")
  PROVE  Paired'
<1>1. /\ r = csinfo[o][a] /\ r # 0 /\ a \in Addr
      /\ auxinfo' = [auxinfo EXCEPT ![o][reg[r].id] = "none"]
      /\ csinfo' = [csinfo EXCEPT ![o][a] = 0]
      /\ UNCHANGED <<conn, sound>>
  BY DEF Removes, ports, Addr
<1>2. /\ csinfo \in [Object -> [Addr -> 0 .. Len(reg)]]
      /\ auxinfo \in [Object -> [Id -> Addr \cup {"none"}]]
  BY DEF Typed, TablesTyped
<1>3. /\ \A s \in Object, y \in Addr : csinfo'[s][y] = IF s = o /\ y = a THEN 0 ELSE csinfo[s][y]
      /\ \A s \in Object, i \in Id : auxinfo'[s][i] = IF s = o /\ i = reg[r].id THEN "none" ELSE auxinfo[s][i]
  BY <1>1, <1>2
<1>4. \A i \in DOMAIN reg : reg'[i].addr = reg[i].addr /\ reg'[i].id = reg[i].id /\ reg'[i].live = reg[i].live
  BY DEF TimedAs
<1>5. \A s \in Object, y \in Addr : csinfo[s][y] = r => s = o /\ y = a
  BY <1>1 DEF Leaks, Placed
<1>6. ASSUME sound', NEW q \in Object, conn'[q].bound # "none" PROVE PairedAt(q)'
  <2>1. PairedAt(q)
    BY <1>1, <1>6, PairedEverywhere
  <2>2. CASE q = o
    BY <1>1, <1>3, <1>4, <1>5, <2>1, <2>2, TakenOut
  <2>3. CASE q # o
    <3>1. \A y \in Addr : csinfo'[q][y] = csinfo[q][y] /\ csinfo[q][y] # r
      BY <1>3, <1>5, <2>3
    <3>2. \A i \in Id : auxinfo'[q][i] = auxinfo[q][i]
      BY <1>3, <2>3
    <3>3. conn'[q].msg_id = conn[q].msg_id
      BY <1>1
    <3> QED
      BY <1>4, <2>1, <3>1, <3>2, <3>3, OtherTables
  <2> QED
    BY <2>2, <2>3
<1> QED
  BY <1>6, PairedNext

LEMMA DeletesPaired ==
  ASSUME Typed, Leaks, Paired, NEW r \in DOMAIN reg, NEW o \in Object, NEW x, Deletes(r, o, x)
  PROVE  Paired'
<1>1. /\ x = auxinfo[o][reg[r].id]
      /\ csinfo' = [csinfo EXCEPT ![o] = [y \in Addr |-> IF y = x THEN 0 ELSE @[y]]]
      /\ auxinfo' = [auxinfo EXCEPT ![o][reg[r].id] = "none"]
      /\ UNCHANGED conn
  BY DEF Deletes, ports
<1>2. sound' => sound /\ csinfo[o][reg[r].addr] = r
  BY SoundStays, Zenon DEF Deletes
<1>3. /\ csinfo \in [Object -> [Addr -> 0 .. Len(reg)]]
      /\ auxinfo \in [Object -> [Id -> Addr \cup {"none"}]]
      /\ reg[r] \in Reg /\ r # 0
  BY DEF Typed, TablesTyped
<1>4. /\ \A s \in Object, y \in Addr : csinfo'[s][y] = IF s = o /\ y = x THEN 0 ELSE csinfo[s][y]
      /\ \A s \in Object, i \in Id : auxinfo'[s][i] = IF s = o /\ i = reg[r].id THEN "none" ELSE auxinfo[s][i]
  BY <1>1, <1>3
<1>5. /\ \A i \in DOMAIN reg : reg'[i].addr = reg[i].addr /\ reg'[i].id = reg[i].id
      /\ \A i \in DOMAIN reg : i # r => reg'[i].live = reg[i].live
  <2>1. Buried(reg', reg, {r})
    BY DeletesTyped
  <2>2. \A i \in DOMAIN reg : reg[i].live \in BOOLEAN
    <3>1. \A i \in DOMAIN reg : reg[i] \in Reg
      BY DEF Typed, TablesTyped
    <3> QED
      BY <3>1 DEF Reg
  <2>3. \A i \in DOMAIN reg : reg'[i].live = (reg[i].live /\ i \notin {r})
    BY <2>1, Zenon DEF Buried
  <2>4. \A i \in DOMAIN reg : i # r => reg'[i].live = reg[i].live
    BY <2>2, <2>3, Zenon
  <2> QED
    BY <2>1, <2>4 DEF Buried
<1>6. reg[r].addr \in Addr
  BY <1>3 DEF Reg
<1>7. ASSUME sound', NEW q \in Object, conn'[q].bound # "none" PROVE PairedAt(q)'
  <2>1. PairedAt(q)
    BY <1>1, <1>2, <1>7, PairedEverywhere
  <2>2. \A s \in Object, y \in Addr : csinfo[s][y] = r => s = o /\ y = reg[r].addr
    BY <1>2, <1>3, <1>6, <1>7 DEF Leaks, Placed
  <2>3. CASE q = o
    <3>1. x = reg[r].addr /\ csinfo[o][x] = r
      BY <1>1, <1>2, <1>3, <1>6, <1>7, <2>1, <2>3 DEF PairedAt
    <3> QED
      <4>1. \A y \in Addr : csinfo'[q][y] = IF y = x THEN 0 ELSE csinfo[q][y]
        BY <1>4, <2>3
      <4>2. \A i \in Id : auxinfo'[q][i] = IF i = reg[r].id THEN "none" ELSE auxinfo[q][i]
        BY <1>4, <2>3
      <4>3. \A y \in Addr : y # x => csinfo[q][y] # r
        BY <2>2, <3>1
      <4>4. conn'[q].msg_id = conn[q].msg_id /\ r = csinfo[q][x] /\ r # 0 /\ x \in Addr
        BY <1>1, <1>3, <1>6, <2>3, <3>1
      <4> QED
        BY <1>5, <2>1, <4>1, <4>2, <4>3, <4>4, TakenOut
  <2>4. CASE q # o
    BY <1>1, <1>4, <1>5, <2>1, <2>2, <2>4, OtherTables
  <2> QED
    BY <2>3, <2>4
<1> QED
  BY <1>7, PairedNext

LEMMA FreesPaired ==
  ASSUME Typed, Leaks, Paired, NEW dead, Frees(dead) PROVE Paired'
<1>1. Buried(reg', reg, dead)
  BY FreesTyped
<1>2. /\ \A r \in dead : r \in DOMAIN reg /\ reg[r].timed = "zero"
      /\ UNCHANGED <<csinfo, auxinfo, conn, sound>>
  BY DEF Frees, ports, Typed, TablesTyped
<1>3. \A q \in Object, y \in Addr : csinfo[q][y] \notin dead
  BY <1>2 DEF Leaks, NothingLeaks
<1>4. \A i \in DOMAIN reg : reg'[i].addr = reg[i].addr /\ reg'[i].id = reg[i].id
  BY <1>1 DEF Buried
<1>5. \A i \in DOMAIN reg : reg[i].live /\ i \notin dead => reg'[i].live
  BY <1>1, Zenon DEF Buried
<1>6. ASSUME sound', NEW q \in Object, conn'[q].bound # "none" PROVE PairedAt(q)'
  <2>1. PairedAt(q)
    BY <1>2, <1>6, PairedEverywhere
  <2> QED
    BY <1>2, <1>3, <1>4, <1>5, <2>1, PairedTypes DEF PairedAt
<1> QED
  BY <1>6, PairedNext

\* Steps that leave the objects and the tables alone, but perhaps for the times.
LEMMA SamePaired ==
  ASSUME Typed, Paired, sound' => sound, UNCHANGED <<conn, csinfo, auxinfo>>,
         \A r \in DOMAIN reg : reg'[r].live = reg[r].live /\ reg'[r].addr = reg[r].addr /\ reg'[r].id = reg[r].id
  PROVE  Paired'
BY QuietPaired DEF QuietTables

LEMMA CalmPaired ==
  ASSUME Typed, Paired, sound' => sound, UNCHANGED conn, UNCHANGED tables PROVE Paired'
BY SamePaired DEF tables

LEMMA RenewedPaired ==
  ASSUME Typed, Paired, UNCHANGED <<conn, csinfo, auxinfo, sound>>, NEW r, NEW z, TimedAs(reg', reg, r, z)
  PROVE  Paired'
BY SamePaired DEF TimedAs

LEMMA NamePaired == ASSUME Typed, Paired, Name PROVE Paired'
<1> DEFINE o == Head(task["pool"].todo).obj
<1>1. /\ conn' = [conn EXCEPT ![o].admin = task["pool"].admin, ![o].port = task["pool"].port]
      /\ UNCHANGED <<csinfo, auxinfo, reg, sound>>
  BY DEF Name, tables
<1>2. conn \in [Object -> Conn]
  BY DEF Typed, PortsTyped
<1> HIDE DEF o
<1>3. \A q \in Object : conn'[q].bound = conn[q].bound /\ conn'[q].msg_id = conn[q].msg_id
  BY <1>1, <1>2 DEF Conn
<1> QED
  BY <1>1, <1>3, QuietPaired DEF QuietTables

LEMMA CloseFdPaired == ASSUME Typed, Paired, NEW t \in Thread, CloseFd(t) PROVE Paired'
<1> DEFINE o == Head(task[t].todo).obj
<1>1. /\ conn' = [conn EXCEPT ![o].bound = "none"] /\ UNCHANGED <<csinfo, auxinfo, reg>>
  BY DEF CloseFd, tables
<1>2. conn \in [Object -> Conn]
  BY DEF Typed, PortsTyped
<1>3. sound' => sound
  BY SoundStays, Zenon DEF CloseFd
<1> HIDE DEF o
<1>4. \A q \in Object : conn'[q].bound # "none" => conn[q].bound # "none" /\ conn'[q].msg_id = conn[q].msg_id
  BY <1>1, <1>2 DEF Conn
<1> QED
  BY <1>1, <1>3, <1>4, QuietPaired DEF QuietTables

LEMMA StepPaired == Typed /\ Leaks /\ Paired /\ [Next]_vars => Paired'
<1> SUFFICES ASSUME Typed, Leaks, Paired, [Next]_vars PROVE Paired'
  OBVIOUS
<1> USE CalmPaired
<1>1. ASSUME NEW why, Crash(why) PROVE Paired'
  BY <1>1 DEF Crash, ports
<1>2. CASE PoolStep
  <2>1. ASSUME NEW p \in UserPort, NEW a \in Admin, CloseSocket(p, a) PROVE Paired'
    BY <2>1 DEF CloseSocket, ports
  <2>2. ASSUME NEW a \in Admin, CloseAll(a) PROVE Paired'
    BY <2>2 DEF CloseAll, ports
  <2>3. CASE Publish
    <3>1. (sound' => sound) /\ UNCHANGED conn /\ UNCHANGED tables
      BY <2>3, SoundStays, Zenon DEF Publish
    <3> QED
      BY <3>1
  <2>4. CASE Looked
    <3>1. UNCHANGED <<ports, tables, sound>>
      BY <2>4 DEF Looked, Crash
    <3> QED
      BY <3>1 DEF ports
  <2> QED
    BY <1>2, <2>1, <2>2, <2>3, <2>4, EstablishPaired, NamePaired DEF PoolStep
<1>3. ASSUME NEW t \in Thread, ShutdownStep(t) \/ \E a \in Admin : Leave(t, a) PROVE Paired'
  <2>1. ASSUME NEW a \in Admin, Leave(t, a) PROVE Paired'
    BY <2>1 DEF Leave, ports
  <2>2. CASE FreeConnection(t)
    <3>1. (sound' => sound) /\ UNCHANGED conn /\ UNCHANGED tables
      BY <2>2, SoundStays, Zenon DEF FreeConnection
    <3> QED
      BY <3>1
  <2>3. CASE Forget(t)
    <3>1. UNCHANGED <<ports, tables, sound>>
      BY <2>3 DEF Forget, Crash
    <3> QED
      BY <3>1 DEF ports
  <2>4. CASE Delete(t)
    BY <1>1, <2>4, DeleteSplit, RemovesPaired
  <2> QED
    BY <1>3, <2>1, <2>2, <2>3, <2>4, CloseFdPaired DEF ShutdownStep
<1>4. ASSUME NEW o \in Object, UdpStep(o) PROVE Paired'
  <2>1. EpollWait(o) \/ ReadEnds(o) \/ ReadRetried(o) => UNCHANGED conn /\ UNCHANGED <<tables, sound>>
    BY DEF EpollWait, ReadEnds, ReadRetried, ports
  <2>2. ASSUME NEW c \in Client, UserRequest(o, c) PROVE Paired'
    <3>1. CASE Requests(o, c) /\ Renews(o, c)
      <4>1. /\ csinfo[o][c] # 0 /\ UNCHANGED <<csinfo, auxinfo, checkQ, heartQ, conn, sound>>
            /\ reg' = [reg EXCEPT ![csinfo[o][c]].timed = "fresh"]
        BY <3>1 DEF Renews, Requests
      <4>2. TimedAs(reg', reg, csinfo[o][c], "fresh")
        BY <4>1, RenewsTyped DEF Addr
      <4> QED
        BY <4>1, <4>2, RenewedPaired
    <3>2. CASE Requests(o, c) /\ Makes(o, c)
      <4>1. Register(o, c) /\ csinfo[o][c] = 0 /\ conn[o].bound # "none"
        BY <3>2 DEF Requests, Makes
      <4> QED
        BY <4>1, RegisterDoes, RegisteredPaired DEF Addr
    <3> QED
      BY <1>1, <2>2, <3>1, <3>2, UserRequestSplit DEF Requests
  <2>3. ASSUME NEW a \in Admin, ForwardRegisters(o, a) PROVE Paired'
    <3>1. Register(o, a) /\ csinfo[o][a] = 0 /\ conn[o].bound # "none"
      BY <2>3 DEF ForwardRegisters, HasAddr
    <3> QED
      BY <3>1, RegisterDoes, RegisteredPaired DEF Addr
  <2>4. ASSUME NEW a \in Admin, ForwardRequest(o, a) PROVE Paired'
    <3>1. CASE Answers(o, a)
      <4>1. /\ csinfo[o][a] # 0 /\ UNCHANGED <<csinfo, auxinfo, checkQ, heartQ, conn, sound>>
            /\ reg' = [reg EXCEPT ![csinfo[o][a]].timed = "fresh"]
        BY <3>1 DEF Answers, ports
      <4>2. TimedAs(reg', reg, csinfo[o][a], "fresh")
        BY <4>1, RenewsTyped DEF Addr
      <4> QED
        BY <4>1, <4>2, RenewedPaired
    <3> QED
      BY <1>1, <2>4, <3>1, ForwardRequestSplit
  <2> QED
    BY <1>4, <2>1, <2>2, <2>3, <2>4 DEF UdpStep
<1>5. CASE ForwardStep
  BY <1>5, ForwardCalm DEF ports
<1>6. CASE SenderStep
  BY <1>6, SenderCalm DEF ports
<1>7. ASSUME NEW r \in DOMAIN reg, GrowOld(r) \/ Expire(r) PROVE Paired'
  <2>1. CASE GrowOld(r)
    BY <2>1, GrowOldTyped, RenewedPaired DEF GrowOld, ports
  <2> QED
    BY <1>1, <1>7, <2>1, ExpireSplit, DeletesPaired
<1>8. CASE Heartbeat
  BY <1>1, <1>8, HeartbeatSplit, FreesPaired
<1>9. CASE UNCHANGED vars
  BY <1>9 DEF vars, ports
<1> QED
  BY <1>2, <1>3, <1>4, <1>5, <1>6, <1>7, <1>8, <1>9 DEF Next

\* While nothing is confused, the addresses and ids given out in the tables of an
\* open port are inverse to each other, whichever of the four handlers and threads
\* that change both is at it, and whatever the senders' operator[] adds between.
THEOREM TablesInverse == Spec => []TablesPaired
<1>1. Init => Typed /\ Leaks /\ Paired
  BY InitTyped, InitLeaks, InitPaired
<1>2. Typed /\ Leaks /\ Paired /\ [Next]_vars => (Typed /\ Leaks /\ Paired)'
  BY StepTyped, StepLeaks, StepPaired
<1>3. Typed /\ Leaks /\ Paired => TablesPaired
  BY DEF Paired
<1> QED
  BY <1>1, <1>2, <1>3, PTL DEF Spec

-----------------------------------------------------------------------------
(* Answers. *)

\* Openings are numbered, the first is 1.
Numbered ==
  /\ \A o \in Object : conn[o].gen <= count.open
  /\ \A o, q \in Object : conn[o].gen = conn[q].gen /\ conn[o].gen # 0 => o = q
  /\ \A o \in Object : conn[o].bound # "none" /\ ~ conn[o].forward => conn[o].gen # 0

Post == packages \cup told \cup answers \cup {f.msg : f \in forwarding}
Mail == Post \cup {m \in {sender.msg} : sender.pc # "idle"}

\* The id of a package was given to its client, and to nobody else since.
MailSound ==
  sound => \A m \in Mail :
    /\ m.gen \in 1 .. count.open
    /\ \A o \in Object : conn[o].gen = m.gen =>
         m.id < conn[o].msg_id /\ auxinfo[o][m.id] \in {m.client, "none"}

\* The sender's object is the one it found; the address and the registration
\* are those of the client.
SenderSound ==
  /\ sound /\ sender.pc \notin {"idle", "port"} => conn[sender.obj.obj].gen = sender.obj.gen
  /\ sound /\ sender.pc \in {"find addr", "addr", "send"} /\ sender.obj.gen = sender.msg.gen
       => sender.addr = sender.msg.client
  /\ sender.pc = "send" => reg[sender.reg].addr = sender.addr
Right == Numbered /\ MailSound /\ SenderSound /\ RightClient

LEMMA InitRight == Init => Right
<1> SUFFICES ASSUME Init PROVE Right
  OBVIOUS
<1>1. sender.pc = "idle" /\ packages = {} /\ forwarding = {} /\ told = {} /\ answers = {}
  BY DEF Init, Asleep
<1>2. MailSound /\ SenderSound
  BY <1>1 DEF MailSound, Mail, Post, SenderSound
<1>3. Numbered
  BY DEF Init, Numbered
<1>4. RightClient
  BY DEF Init, RightClient
<1> QED
  BY <1>2, <1>3, <1>4 DEF Right

\* Every package on its way is typed.
LEMMA MailTyped == ASSUME Typed PROVE \A m \in Mail : m \in Package /\ m.id \in Id
<1>1. \A m \in Mail : m \in Package
  BY DEF Mail, Post, Typed, RelayTyped, SenderTyped, ForwardingTyped, Forwarded
<1> QED
  BY <1>1 DEF Package

\* Two packages with the same history and id: a sending to a freed registration
\* may change whose administrator's a package is.
Same(m, n) == m.gen = n.gen /\ m.id = n.id /\ m.client = n.client

\* A step that neither opens a port, nor registers, nor packs anything, nor
\* moves the sender on.
QuietRelay ==
  /\ sound' => sound
  /\ UNCHANGED <<sender, astray>> /\ count'.open = count.open
  /\ \A o \in Object : /\ conn'[o].gen = conn[o].gen /\ conn'[o].forward = conn[o].forward
                       /\ conn'[o].msg_id = conn[o].msg_id
                       /\ conn'[o].bound # "none" => conn[o].bound # "none"
  /\ \A o \in Object, i \in Id : auxinfo'[o][i] \in {auxinfo[o][i], "none"}
  /\ \A m \in Mail' : \E n \in Mail : Same(m, n)
  /\ \A r \in DOMAIN reg : reg'[r].addr = reg[r].addr

LEMMA QuietRight == Typed /\ Right /\ QuietRelay => Right'
<1> SUFFICES ASSUME Typed, Right, QuietRelay PROVE Right'
  OBVIOUS
<1>1. Numbered'
  BY DEF Right, Numbered, QuietRelay
<1>2. MailSound'
  <2> SUFFICES ASSUME sound', NEW m \in Mail'
               PROVE  /\ m.gen \in 1 .. count'.open
                      /\ \A o \in Object : conn'[o].gen = m.gen =>
                           m.id < conn'[o].msg_id /\ auxinfo'[o][m.id] \in {m.client, "none"}
    BY Zenon DEF MailSound
  <2>1. sound /\ \E n \in Mail : Same(m, n)
    BY DEF QuietRelay
  <2>2. PICK n \in Mail : m.gen = n.gen /\ m.id = n.id /\ m.client = n.client
    BY <2>1 DEF Same
  <2>3. /\ n.gen \in 1 .. count.open /\ n.id \in Id
        /\ \A o \in Object : conn[o].gen = n.gen =>
             n.id < conn[o].msg_id /\ auxinfo[o][n.id] \in {n.client, "none"}
    BY <2>1, MailTyped DEF Right, MailSound
  <2> QED
    BY <2>2, <2>3 DEF QuietRelay
<1>3. SenderSound'
  <2>1. sender.pc \notin {"idle", "port"} => sender.obj.obj \in Object
    BY DEF Typed, RelayTyped, SenderTyped
  <2>2. sender.pc = "send" => sender.reg \in DOMAIN reg
    BY DEF Typed, RelayTyped, SenderTyped
  <2>3. sender' = sender
    BY DEF QuietRelay
  <2> QED
    BY <2>1, <2>2, <2>3, ZenonT(40) DEF Right, SenderSound, QuietRelay
<1>4. RightClient'
  BY Zenon DEF Right, RightClient, QuietRelay
<1> QED
  BY <1>1, <1>2, <1>3, <1>4 DEF Right

\* Steps that leave the objects alone, and at most empty or retime the tables.
LEMMA SameRight ==
  ASSUME Typed, Right, sound' => sound, UNCHANGED <<conn, sender, astray>>,
         count'.open = count.open,
         \A o \in Object, i \in Id : auxinfo'[o][i] \in {auxinfo[o][i], "none"},
         Post' \subseteq Post,
         \A r \in DOMAIN reg : reg'[r].addr = reg[r].addr
  PROVE  Right'
<1>1. \A m \in Mail' : \E n \in Mail : Same(m, n)
  BY DEF Mail, Same
<1> QED
  BY <1>1, QuietRight DEF QuietRelay

\* Steps on the ports.
LEMMA PortsRight ==
  ASSUME Typed, Right, sound' => sound, UNCHANGED <<tables, relay>>, count'.open = count.open,
         \A o \in Object : /\ conn'[o].gen = conn[o].gen /\ conn'[o].forward = conn[o].forward
                           /\ conn'[o].msg_id = conn[o].msg_id
                           /\ conn'[o].bound # "none" => conn[o].bound # "none"
  PROVE  Right'
<1>1. \A m \in Mail' : \E n \in Mail : Same(m, n)
  BY DEF Mail, Post, relay, Same
<1> QED
  BY <1>1, QuietRight DEF QuietRelay, relay, tables

LEMMA ClosingOpens == ASSUME Typed, Closing PROVE count'.open = count.open
BY Counted DEF Closing, Typed, RestTyped, Count

LEMMA EstablishRight ==
  ASSUME Typed, Right, NEW p \in UserPort, NEW a \in Admin, Establish(p, a) PROVE Right'
<1> DEFINE o == Head(free)
           g == count'.open
<1>1. count'.open = count.open + 1 /\ count.open \in Nat
  <2>1. count' = [count EXCEPT !.open = @ + 1] /\ count.open < MaxOpens
    BY DEF Establish
  <2>2. count \in Count
    BY DEF Typed, RestTyped, Count
  <2>3. count.open \in Nat
    BY <2>2 DEF Count
  <2> QED
    BY <2>1, <2>2, <2>3, Counted
<1>2. UNCHANGED <<tables, relay>>
  BY DEF Establish
<1>3. CASE free = <<>>
  <2>1. UNCHANGED <<conn, sound>>
    BY <1>3 DEF Establish, ports
  <2>2. conn \in [Object -> Conn]
    BY DEF Typed, PortsTyped
  <2>3. \A q \in Object : conn[q].gen \in Nat
    BY <2>2 DEF Conn
  <2>4. Numbered'
    BY <1>1, <2>1, <2>3 DEF Right, Numbered
  <2>5. MailSound'
    BY <1>1, <1>2, <2>1 DEF Right, MailSound, Mail, Post, relay, tables
  <2>6. SenderSound' /\ RightClient'
    BY <1>2, <2>1 DEF Right, SenderSound, RightClient, relay, tables
  <2> QED
    BY <2>4, <2>5, <2>6 DEF Right
<1>4. CASE free # <<>>
  <2>1. conn' = [conn EXCEPT ![o].bound = p, ![o].forward = FALSE, ![o].msg_id = 0, ![o].gen = g]
    BY <1>4 DEF Establish
  <2>2. sound' => sound /\ o \notin Held
    BY <1>4, SoundStays, Zenon DEF Establish
  <2>3. o \in Object /\ conn \in [Object -> Conn] /\ g = count.open + 1
    BY <1>1, <1>4 DEF Typed, PortsTyped
  <2> HIDE DEF o, g
  <2>4. /\ \A q \in Object : q # o => conn'[q] = conn[q]
        /\ conn'[o].gen = g
    BY <2>1, <2>3 DEF Conn
  <2>5. \A q \in Object : conn[q].gen \in Nat
    BY <2>3 DEF Conn
  <2>6. \A q \in Object : conn[q].gen <= count.open
    BY DEF Right, Numbered
  <2>7. Numbered'
    <3>1. \A q \in Object : conn'[q].gen <= g
      BY <1>1, <2>3, <2>4, <2>5, <2>6
    <3>2. \A q, s \in Object : conn'[q].gen = conn'[s].gen /\ conn'[q].gen # 0 => q = s
      <4>1. \A q \in Object : q # o => conn'[q].gen # g
        BY <1>1, <2>3, <2>4, <2>5, <2>6
      <4> QED
        BY <2>4, <4>1 DEF Right, Numbered
    <3>3. \A q \in Object : conn'[q].bound # "none" /\ ~ conn'[q].forward => conn'[q].gen # 0
      BY <1>1, <2>3, <2>4 DEF Right, Numbered
    <3> QED
      BY <3>1, <3>2, <3>3 DEF Numbered, g
  <2>8. MailSound'
    <3> SUFFICES ASSUME sound', NEW m \in Mail'
                 PROVE  /\ m.gen \in 1 .. count'.open
                        /\ \A q \in Object : conn'[q].gen = m.gen =>
                             m.id < conn'[q].msg_id /\ auxinfo'[q][m.id] \in {m.client, "none"}
      BY Zenon DEF MailSound
    <3>1. m \in Mail /\ auxinfo' = auxinfo
      BY <1>2 DEF Mail, Post, relay, tables
    <3>2. /\ m.gen \in 1 .. count.open
          /\ \A q \in Object : conn[q].gen = m.gen =>
               m.id < conn[q].msg_id /\ auxinfo[q][m.id] \in {m.client, "none"}
      BY <2>2, <3>1 DEF Right, MailSound
    <3>3. m.gen # g
      BY <1>1, <2>3, <3>2
    <3> QED
      BY <1>1, <2>4, <3>1, <3>2, <3>3
  <2>9. SenderSound'
    <3>1. sender' = sender /\ reg' = reg
      BY <1>2 DEF relay, tables
    <3>2. sender.pc \notin {"idle", "port"} => sender.obj.obj \in Object
      BY DEF Typed, RelayTyped, SenderTyped
    <3>3. sound' => sound /\ sender.obj.obj # o
      BY <2>2 DEF Held
    <3> QED
      BY <2>4, <3>1, <3>2, <3>3 DEF Right, SenderSound
  <2>10. RightClient'
    <3>1. astray' = astray
      BY <1>2 DEF relay
    <3> QED
      BY <2>2, <3>1, Zenon DEF Right, RightClient
  <2> QED
    BY <2>7, <2>8, <2>9, <2>10 DEF Right
<1> QED
  BY <1>3, <1>4

LEMMA NameRight == ASSUME Typed, Right, Name PROVE Right'
<1> DEFINE o == Head(task["pool"].todo).obj
<1>1. /\ conn' = [conn EXCEPT ![o].admin = task["pool"].admin, ![o].port = task["pool"].port]
      /\ UNCHANGED <<tables, relay>> /\ UNCHANGED <<count, sound>>
  BY DEF Name
<1>2. conn \in [Object -> Conn]
  BY DEF Typed, PortsTyped
<1> HIDE DEF o
<1>3. \A q \in Object : /\ conn'[q].gen = conn[q].gen /\ conn'[q].forward = conn[q].forward
                        /\ conn'[q].msg_id = conn[q].msg_id /\ conn'[q].bound = conn[q].bound
  BY <1>1, <1>2 DEF Conn
<1> QED
  BY <1>1, <1>3, PortsRight

LEMMA CloseFdRight == ASSUME Typed, Right, NEW t \in Thread, CloseFd(t) PROVE Right'
<1> DEFINE o == Head(task[t].todo).obj
<1>1. /\ conn' = [conn EXCEPT ![o].bound = "none"] /\ UNCHANGED <<tables, relay>> /\ UNCHANGED count
  BY DEF CloseFd
<1>2. conn \in [Object -> Conn]
  BY DEF Typed, PortsTyped
<1>3. sound' => sound
  BY SoundStays, Zenon DEF CloseFd
<1> HIDE DEF o
<1>4. \A q \in Object : /\ conn'[q].gen = conn[q].gen /\ conn'[q].forward = conn[q].forward
                        /\ conn'[q].msg_id = conn[q].msg_id
                        /\ conn'[q].bound # "none" => conn[q].bound # "none"
  BY <1>1, <1>2 DEF Conn
<1> QED
  BY <1>1, <1>3, <1>4, PortsRight

\* A registration takes an id that no package on its way has.
LEMMA RegisteredMail ==
  ASSUME Typed, Right, NEW o \in Object, NEW x \in Addr, NEW id, NEW n, Registered(o, x, id, n),
         count' = count, sender' = sender, astray' = astray
  PROVE  /\ Numbered' /\ SenderSound' /\ RightClient'
         /\ \A q \in Object : conn'[q].gen = conn[q].gen
         /\ sound' => \A m \in Mail :
              /\ m.gen \in 1 .. count.open
              /\ \A q \in Object : conn[q].gen = m.gen =>
                   m.id < conn'[q].msg_id /\ auxinfo'[q][m.id] \in {m.client, "none"}
<1>1. /\ conn' = [conn EXCEPT ![o].msg_id = id + 1]
      /\ auxinfo' = [auxinfo EXCEPT ![o][id] = x]
      /\ \A i \in DOMAIN reg : reg'[i] = reg[i]
      /\ id \in Id /\ conn[o].msg_id \in Nat
      /\ sound' => sound /\ id = conn[o].msg_id
  BY DEF Registered
<1>2. conn \in [Object -> Conn] /\ auxinfo \in [Object -> [Id -> Addr \cup {"none"}]]
  BY DEF Typed, PortsTyped, TablesTyped
<1>3. /\ \A q \in Object : /\ conn'[q].gen = conn[q].gen /\ conn'[q].forward = conn[q].forward
                           /\ conn'[q].bound = conn[q].bound
                           /\ q # o => conn'[q].msg_id = conn[q].msg_id
      /\ conn'[o].msg_id = id + 1
  BY <1>1, <1>2 DEF Conn
<1>4. \A q \in Object, i \in Id : auxinfo'[q][i] = IF q = o /\ i = id THEN x ELSE auxinfo[q][i]
  BY <1>1, <1>2
<1>5. Numbered'
  BY <1>3 DEF Right, Numbered
<1>6. SenderSound'
  <2>1. sender.pc \notin {"idle", "port"} => sender.obj.obj \in Object
    BY DEF Typed, RelayTyped, SenderTyped
  <2>2. sender.pc = "send" => sender.reg \in DOMAIN reg
    BY DEF Typed, RelayTyped, SenderTyped
  <2> QED
    BY <1>1, <1>3, <2>1, <2>2 DEF Right, SenderSound
<1>7. RightClient'
  BY <1>1, Zenon DEF Right, RightClient
<1>8. ASSUME sound', NEW m \in Mail
      PROVE  /\ m.gen \in 1 .. count.open
             /\ \A q \in Object : conn[q].gen = m.gen =>
                  m.id < conn'[q].msg_id /\ auxinfo'[q][m.id] \in {m.client, "none"}
  <2>1. m.id \in Id /\ m.id \in Nat
    BY MailTyped, NumberAssumption DEF Id
  <2>2. /\ m.gen \in 1 .. count.open
        /\ \A q \in Object : conn[q].gen = m.gen =>
             m.id < conn[q].msg_id /\ auxinfo[q][m.id] \in {m.client, "none"}
    BY <1>1, <1>8 DEF Right, MailSound
  <2>3. ASSUME NEW q \in Object, conn[q].gen = m.gen
        PROVE  m.id < conn'[q].msg_id /\ auxinfo'[q][m.id] \in {m.client, "none"}
    <3>1. CASE q = o
      <4>1. m.id < conn[o].msg_id /\ auxinfo[o][m.id] \in {m.client, "none"}
        BY <2>2, <2>3, <3>1
      <4>2. id = conn[o].msg_id /\ m.id # id /\ m.id < id + 1
        BY <1>1, <1>8, <2>1, <4>1
      <4> QED
        BY <1>3, <1>4, <2>1, <3>1, <4>1, <4>2
    <3>2. CASE q # o
      BY <1>3, <1>4, <2>1, <2>2, <2>3, <3>2
    <3> QED
      BY <3>1, <3>2
  <2> QED
    BY <2>2, <2>3
<1> QED
  BY <1>3, <1>5, <1>6, <1>7, <1>8

LEMMA ForwardRegistersRight ==
  ASSUME Typed, Right, NEW o \in Object, NEW a \in Admin, ForwardRegisters(o, a) PROVE Right'
<1>1. Register(o, a) /\ UNCHANGED <<relay, count>> /\ a \in Addr
  BY DEF ForwardRegisters, Addr
<1>2. PICK id : Registered(o, a, id, Len(reg'))
  BY <1>1, RegisterDoes
<1>3. /\ Numbered' /\ SenderSound' /\ RightClient'
      /\ \A q \in Object : conn'[q].gen = conn[q].gen
      /\ sound' => \A m \in Mail :
           /\ m.gen \in 1 .. count.open
           /\ \A q \in Object : conn[q].gen = m.gen =>
                m.id < conn'[q].msg_id /\ auxinfo'[q][m.id] \in {m.client, "none"}
  BY <1>1, <1>2, RegisteredMail DEF relay
<1>4. Mail' = Mail /\ count' = count
  BY <1>1 DEF Mail, Post, relay
<1>5. MailSound'
  BY <1>3, <1>4 DEF MailSound
<1> QED
  BY <1>3, <1>5 DEF Right

\* A package gets the id of its client.
LEMMA RequestsRight ==
  ASSUME Typed, Paired, Right, NEW o \in Object, NEW c \in Client, Requests(o, c) PROVE Right'
<1> DEFINE id == reg'[csinfo'[o][c]].id
           new == Packaged(o, c, id)
<1>1. /\ conn[o].bound # "none" /\ ~ conn[o].forward /\ c \in Addr
      /\ packages' = Queued(packages, new)
      /\ UNCHANGED <<sender, forwarding, told, answers, astray, count>>
  BY Zenon DEF Requests, Handles, Addr
<1>2. new.id = id /\ new.client = c /\ new.gen = conn[o].gen
  BY DEF Packaged
<1>3. conn[o].gen \in 1 .. count.open
  <2>1. conn \in [Object -> Conn] /\ count \in Count
    BY DEF Typed, PortsTyped, RestTyped, Count
  <2>2. conn[o].gen \in Nat /\ count.open \in Nat
    BY <2>1 DEF Conn, Count
  <2>3. conn[o].gen # 0 /\ conn[o].gen <= count.open
    BY <1>1 DEF Right, Numbered
  <2> QED
    BY <2>2, <2>3
<1>4. /\ Numbered' /\ SenderSound' /\ RightClient'
      /\ \A q \in Object : conn'[q].gen = conn[q].gen
      /\ sound' => \A m \in Mail :
           /\ m.gen \in 1 .. count.open
           /\ \A q \in Object : conn[q].gen = m.gen =>
                m.id < conn'[q].msg_id /\ auxinfo'[q][m.id] \in {m.client, "none"}
      /\ sound' => id < conn'[o].msg_id /\ auxinfo'[o][id] = c
  <2>1. CASE Renews(o, c)
    <3>1. /\ csinfo[o][c] # 0 /\ reg' = [reg EXCEPT ![csinfo[o][c]].timed = "fresh"]
          /\ UNCHANGED <<csinfo, auxinfo, conn, checkQ, heartQ, sound>>
      BY <2>1 DEF Renews, Requests
    <3>2. TimedAs(reg', reg, csinfo[o][c], "fresh") /\ csinfo[o][c] \in DOMAIN reg
      BY <1>1, <3>1, RenewsTyped
    <3>3. id = reg[csinfo[o][c]].id
      BY <3>1, <3>2 DEF TimedAs
    <3>4. sound => id < conn[o].msg_id /\ auxinfo[o][id] = c
      <4>1. SUFFICES ASSUME sound PROVE id < conn[o].msg_id /\ auxinfo[o][id] = c
        OBVIOUS
      <4>2. PairedAt(o)
        BY <1>1, <4>1, PairedEverywhere
      <4>3. auxinfo[o][id] = c /\ id \in Id
        BY <1>1, <3>1, <3>3, <4>2, PairedTypes DEF PairedAt
      <4>4. c # "none"
        BY NameAssumption
      <4> QED
        BY <4>2, <4>3, <4>4 DEF PairedAt
    <3>5. Numbered' /\ RightClient'
      BY <1>1, <3>1 DEF Right, Numbered, RightClient
    <3>6. SenderSound'
      <4>1. sender.pc = "send" => sender.reg \in DOMAIN reg
        BY DEF Typed, RelayTyped, SenderTyped
      <4> QED
        BY <1>1, <3>1, <3>2, <4>1 DEF Right, SenderSound, TimedAs
    <3>7. sound => \A m \in Mail :
            /\ m.gen \in 1 .. count.open
            /\ \A q \in Object : conn[q].gen = m.gen =>
                 m.id < conn[q].msg_id /\ auxinfo[q][m.id] \in {m.client, "none"}
      BY DEF Right, MailSound
    <3> HIDE DEF id
    <3> QED
      BY <3>1, <3>4, <3>5, <3>6, <3>7
  <2>2. CASE Makes(o, c)
    <3>1. PICK i : Registered(o, c, i, Len(reg'))
      BY <1>1, <2>2, RegisterDoes DEF Makes
    <3>2. /\ csinfo' = [csinfo EXCEPT ![o][c] = Len(reg')] /\ reg'[Len(reg')].id = i
          /\ auxinfo' = [auxinfo EXCEPT ![o][i] = c] /\ conn' = [conn EXCEPT ![o].msg_id = i + 1]
          /\ i \in Id
      BY <3>1 DEF Registered
    <3>3. /\ csinfo \in [Object -> [Addr -> 0 .. Len(reg)]]
          /\ auxinfo \in [Object -> [Id -> Addr \cup {"none"}]]
          /\ conn \in [Object -> Conn]
      BY DEF Typed, TablesTyped, PortsTyped
    <3>4. id = i /\ auxinfo'[o][i] = c /\ conn'[o].msg_id = i + 1
      BY <1>1, <3>2, <3>3 DEF Conn
    <3>5. i < i + 1
      BY <3>2, NumberAssumption DEF Id
    <3>6. /\ Numbered' /\ SenderSound' /\ RightClient'
          /\ \A q \in Object : conn'[q].gen = conn[q].gen
          /\ sound' => \A m \in Mail :
               /\ m.gen \in 1 .. count.open
               /\ \A q \in Object : conn[q].gen = m.gen =>
                    m.id < conn'[q].msg_id /\ auxinfo'[q][m.id] \in {m.client, "none"}
      BY <1>1, <3>1, RegisteredMail
    <3> HIDE DEF id
    <3> QED
      BY <3>4, <3>5, <3>6
  <2> QED
    BY <2>1, <2>2 DEF Requests
<1>5. \A q \in Object : conn[q].gen = conn[o].gen => q = o
  BY <1>3 DEF Right, Numbered
<1> HIDE DEF id, new
<1>6. \A m \in Mail' : m = new \/ m \in Mail
  BY <1>1 DEF Mail, Post, Queued
<1>7. MailSound'
  <2> SUFFICES ASSUME sound', NEW m \in Mail'
               PROVE  /\ m.gen \in 1 .. count'.open
                      /\ \A q \in Object : conn'[q].gen = m.gen =>
                           m.id < conn'[q].msg_id /\ auxinfo'[q][m.id] \in {m.client, "none"}
    BY Zenon DEF MailSound
  <2>1. CASE m = new
    BY <1>1, <1>2, <1>3, <1>4, <1>5, <2>1
  <2>2. CASE m # new
    BY <1>1, <1>4, <1>6, <2>2
  <2> QED
    BY <2>1, <2>2
<1> QED
  BY <1>4, <1>7 DEF Right

\* The sender on its way to a client.
LEMMA SenderRight ==
  ASSUME Typed, Right, UNCHANGED <<ports, tables, count, sound>>, \A m \in Mail' : m \in Mail,
         SenderSound', RightClient'
  PROVE  Right'
<1>1. Numbered'
  BY DEF Right, Numbered, ports
<1>2. MailSound'
  BY DEF Right, MailSound, ports, tables
<1> QED
  BY <1>1, <1>2 DEF Right

LEMMA AsleepRight ==
  ASSUME Typed, Right, UNCHANGED <<ports, tables, count, sound>>, sender' = Asleep,
         Post' \subseteq Post, RightClient'
  PROVE  Right'
<1>1. sender'.pc = "idle"
  BY DEF Asleep
<1>2. \A m \in Mail' : m \in Mail
  BY <1>1 DEF Mail
<1>3. SenderSound'
  BY <1>1 DEF SenderSound
<1> QED
  BY <1>2, <1>3, SenderRight

LEMMA TakeRight == ASSUME Typed, Right, NEW m \in answers, Take(m) PROVE Right'
<1>1. /\ Post' \subseteq Post /\ m \in Mail
      /\ UNCHANGED <<ports, tables, astray, count, sound>>
  BY DEF Take, Post, Mail
<1>2. RightClient'
  BY <1>1, Zenon DEF Right, RightClient
<1>3. CASE sender' = [sender EXCEPT !.pc = "port", !.msg = m]
  <2>1. sender \in Sender
    BY DEF Typed, RelayTyped, SenderTyped
  <2>2. sender'.pc = "port" /\ sender'.msg = m
    BY <1>3, <2>1 DEF Sender
  <2>3. \A n \in Mail' : n \in Mail
    BY <1>1, <2>2 DEF Mail
  <2>4. SenderSound'
    BY <2>2 DEF SenderSound
  <2> QED
    BY <1>1, <1>2, <2>3, <2>4, SenderRight
<1>4. CASE sender' = Asleep
  BY <1>1, <1>2, <1>4, AsleepRight
<1> QED
  BY <1>3, <1>4 DEF Take

\* A step of the sender after that: nothing moves but the sender.
LEMMA LooksRight ==
  ASSUME Typed, Right, NEW pc, NEW n, pc # "idle", Looks(pc, n), n.msg = sender.msg, SenderSound'
  PROVE  Right'
<1>1. /\ sender.pc # "idle" /\ sender'.msg = sender.msg
      /\ UNCHANGED <<ports, tables, packages, forwarding, told, answers, astray, count, sound>>
  BY DEF Looks
<1>2. \A m \in Mail' : m \in Mail
  BY <1>1 DEF Mail, Post
<1>3. RightClient'
  BY <1>1, Zenon DEF Right, RightClient
<1> QED
  BY <1>1, <1>2, <1>3, SenderRight

LEMMA RestsRight == ASSUME Typed, Right, NEW pc, Looks(pc, Asleep) PROVE Right'
<1>1. /\ sender' = Asleep
      /\ UNCHANGED <<ports, tables, packages, forwarding, told, answers, astray, count, sound>>
  BY DEF Looks
<1>2. Post' \subseteq Post
  BY <1>1 DEF Post
<1>3. RightClient'
  BY <1>1, Zenon DEF Right, RightClient
<1> QED
  BY <1>1, <1>2, <1>3, AsleepRight

LEMMA TakePortRight == ASSUME Typed, Right, TakePort, ~ Crash("null connection") PROVE Right'
<1> DEFINE o == Entry(sender.msg.port)
           n == [sender EXCEPT !.pc = "find id", !.obj = Pointer(o)]
<1>1. Looks("port", n) /\ sender' = n /\ UNCHANGED conn
  BY DEF TakePort, Looks, ports
<1>2. sender \in Sender
  BY DEF Typed, RelayTyped, SenderTyped
<1>3. n.pc = "find id" /\ n.msg = sender.msg /\ n.obj = Pointer(o)
  <2> HIDE DEF o
  <2> QED
    BY <1>2 DEF Sender
<1> HIDE DEF n, o
<1>4. sender'.obj.gen = conn[sender'.obj.obj].gen
  <2>1. Pointer(o).obj = o /\ Pointer(o).gen = conn[o].gen
    BY DEF Pointer
  <2>2. sender'.obj = Pointer(o)
    BY <1>1, <1>3
  <2> QED
    BY <2>1, <2>2
<1>5. SenderSound'
  BY <1>1, <1>3, <1>4 DEF SenderSound
<1> QED
  BY <1>1, <1>3, <1>5, LooksRight

LEMMA FindIdRight == ASSUME Typed, Right, FindId PROVE Right'
<1>1. CASE Looks("find id", [sender EXCEPT !.pc = "id"])
  <2>1. /\ sender.pc = "find id" /\ sender' = [sender EXCEPT !.pc = "id"]
        /\ UNCHANGED <<ports, tables, sound>>
    BY <1>1 DEF Looks
  <2>2. sender \in Sender
    BY DEF Typed, RelayTyped, SenderTyped
  <2>3. sender'.pc = "id" /\ sender'.obj = sender.obj /\ sender'.msg = sender.msg
    BY <2>1, <2>2 DEF Sender
  <2>4. SenderSound'
    BY <2>1, <2>3 DEF Right, SenderSound, ports
  <2> QED
    BY <1>1, <2>1, <2>3, <2>4, LooksRight
<1>2. CASE Looks("find id", Asleep)
  BY <1>2, RestsRight
<1> QED
  BY <1>1, <1>2 DEF FindId

LEMMA TakeIdRight == ASSUME Typed, Right, TakeId PROVE Right'
<1> DEFINE x == auxinfo[sender.obj.obj][sender.msg.id]
           n == [sender EXCEPT !.pc = "find addr", !.addr = x]
<1>1. CASE Looks("id", n) /\ x # "none"
  <2>1. sender.pc = "id" /\ sender' = n /\ UNCHANGED <<ports, tables, sound>>
    BY <1>1 DEF Looks
  <2>2. sender \in Sender /\ sender.obj.obj \in Object
    BY <2>1 DEF Typed, RelayTyped, SenderTyped
  <2>3. sound /\ sender.obj.gen = sender.msg.gen => x \in {sender.msg.client, "none"}
    <3>1. sender.msg \in Mail
      BY <2>1 DEF Mail, Post
    <3>2. sound => conn[sender.obj.obj].gen = sender.obj.gen
      BY <2>1 DEF Right, SenderSound
    <3> QED
      BY <2>2, <3>1, <3>2 DEF Right, MailSound
  <2>4. n.pc = "find addr" /\ n.addr = x /\ n.msg = sender.msg /\ n.obj = sender.obj
    <3> HIDE DEF x
    <3> QED
      BY <2>2 DEF Sender
  <2> HIDE DEF n, x
  <2>5. SenderSound'
    BY <1>1, <2>1, <2>3, <2>4 DEF Right, SenderSound, ports
  <2> QED
    BY <1>1, <2>4, <2>5, LooksRight
<1>2. CASE Looks("id", Asleep)
  BY <1>2, RestsRight
<1> QED
  BY <1>1, <1>2 DEF TakeId

LEMMA FindAddrRight == ASSUME Typed, Right, FindAddr PROVE Right'
<1>1. CASE Looks("find addr", [sender EXCEPT !.pc = "addr"])
  <2>1. /\ sender.pc = "find addr" /\ sender' = [sender EXCEPT !.pc = "addr"]
        /\ UNCHANGED <<ports, tables, sound>>
    BY <1>1 DEF Looks
  <2>2. sender \in Sender
    BY DEF Typed, RelayTyped, SenderTyped
  <2>3. /\ sender'.pc = "addr" /\ sender'.obj = sender.obj /\ sender'.msg = sender.msg
        /\ sender'.addr = sender.addr
    BY <2>1, <2>2 DEF Sender
  <2>4. SenderSound'
    BY <2>1, <2>3 DEF Right, SenderSound, ports
  <2> QED
    BY <1>1, <2>1, <2>3, <2>4, LooksRight
<1>2. CASE Looks("find addr", Asleep)
  BY <1>2, RestsRight
<1> QED
  BY <1>1, <1>2 DEF FindAddr

LEMMA TakeAddrRight == ASSUME Typed, Leaks, Right, TakeAddr PROVE Right'
<1> DEFINE r == csinfo[sender.obj.obj][sender.addr]
           n == [sender EXCEPT !.pc = "send", !.reg = r]
<1>1. CASE Looks("addr", n) /\ r # 0
  <2>1. sender.pc = "addr" /\ sender' = n /\ UNCHANGED <<ports, tables, sound>>
    BY <1>1 DEF Looks
  <2>2. sender \in Sender /\ sender.obj.obj \in Object /\ sender.addr \in Addr
    BY <2>1 DEF Typed, RelayTyped, SenderTyped
  <2>3. reg[r].addr = sender.addr
    BY <1>1, <2>2 DEF Leaks, Placed
  <2>4. /\ n.pc = "send" /\ n.reg = r /\ n.addr = sender.addr
        /\ n.msg = sender.msg /\ n.obj = sender.obj
    <3> HIDE DEF r
    <3> QED
      BY <2>2 DEF Sender
  <2> HIDE DEF n, r
  <2>5. SenderSound'
    BY <2>1, <2>3, <2>4 DEF Right, SenderSound, ports, tables
  <2> QED
    BY <1>1, <2>4, <2>5, LooksRight
<1>2. CASE Looks("addr", Asleep)
  BY <1>2, RestsRight
<1> QED
  BY <1>1, <1>2 DEF TakeAddr

\* A registration that exists still is that of the client it was looked up for.
LEMMA SendToRight == ASSUME Typed, Right, SendTo, ~ Crash("deleted registration") PROVE Right'
<1> DEFINE r == reg[sender.reg]
           m == sender.msg
<1>1. /\ sender.pc = "send" /\ sender' = Asleep
      /\ UNCHANGED <<ports, tables, packages, forwarding, told, answers, count, sound>>
  BY DEF SendTo
<1>2. PICK x \in Addr :
        /\ r.live => x = r.addr
        /\ astray' = IF sender.obj.gen = m.gen /\ x # m.client
                     THEN astray \cup {IF r.live THEN "found" ELSE "freed"} ELSE astray
  BY DEF SendTo
<1>3. sound /\ r.live /\ sender.obj.gen = m.gen => x = m.client
  BY <1>1, <1>2 DEF Right, SenderSound
<1> HIDE DEF r, m
<1>4. RightClient'
  <2> SUFFICES ASSUME sound PROVE "found" \notin astray'
    BY <1>1 DEF RightClient
  <2>1. "found" \notin astray
    BY DEF Right, RightClient
  <2> QED
    BY <1>2, <1>3, <2>1
<1>5. Post' \subseteq Post
  BY <1>1 DEF Post
<1> QED
  BY <1>1, <1>4, <1>5, AsleepRight

\* The forward thread hands packages on, or drops them; what a freed registration
\* leads to may be another administrator's.
LEMMA ForwardMail ==
  ASSUME Typed, NEW f \in forwarding, ForwardTo(f), ~ Crash("deleted registration")
  PROVE  \A m \in Mail' : \E n \in Mail : Same(m, n)
<1>1. forwarding' = {} /\ UNCHANGED <<sender, packages, answers>>
  BY DEF ForwardTo, Forwards
<1>2. PICK a \in Admin : told' \subseteq told \cup {[f.msg EXCEPT !.admin = a]}
  BY DEF ForwardTo, Reaches
<1> DEFINE k == [f.msg EXCEPT !.admin = a]
<1>3. f.msg \in Mail
  BY DEF Mail, Post
<1>4. Same(k, f.msg)
  BY ForwardingAt DEF Same, Package
<1>5. \A m \in Mail' : m \in Mail \/ m = k
  BY <1>1, <1>2 DEF Mail, Post
<1> HIDE DEF k
<1>6. \A m \in Mail : Same(m, m)
  BY DEF Same
<1> QED
  BY <1>3, <1>4, <1>5, <1>6

LEMMA ForwardStepRight == ASSUME Typed, Right, ForwardStep, \A why : ~ Crash(why) PROVE Right'
<1>1. UNCHANGED <<conn, tables, sender, answers, astray, count, sound>>
  <2>1. (\E m \in packages : Forward(m)) => UNCHANGED <<conn, tables, sender, answers, astray, count, sound>>
    BY DEF Forward, ports
  <2>2. ASSUME NEW f \in forwarding, ForwardPort(f) \/ FindAdmin(f) \/ ForwardAdmin(f) \/ ForwardTo(f)
        PROVE  UNCHANGED <<conn, tables, sender, answers, astray, count, sound>>
    BY <2>2 DEF ForwardPort, FindAdmin, ForwardAdmin, ForwardTo, Forwards, ports
  <2> QED
    BY <2>1, <2>2 DEF ForwardStep
<1>2. ASSUME \A m \in Mail' : \E n \in Mail : Same(m, n) PROVE Right'
  BY <1>1, <1>2, QuietRight DEF QuietRelay, tables
<1>3. ASSUME Post' \subseteq Post PROVE Right'
  BY <1>1, <1>2, <1>3 DEF Mail, Same
<1>4. ASSUME NEW m \in packages, Forward(m) PROVE Right'
  <2>1. /\ packages' \subseteq packages /\ UNCHANGED <<told, answers>>
        /\ \A f \in forwarding' : f.msg = m
    BY <1>4 DEF Forward
  <2> QED
    BY <1>3, <2>1 DEF Post
<1>5. ASSUME NEW f \in forwarding, ForwardPort(f) \/ FindAdmin(f) \/ ForwardAdmin(f) PROVE Right'
  <2>1. UNCHANGED <<packages, told, answers>>
    BY <1>5 DEF ForwardPort, FindAdmin, ForwardAdmin, Forwards
  <2>2. f \in Forwarded
    BY DEF Typed, RelayTyped, ForwardingTyped
  <2>3. \A g \in forwarding' : g.msg = f.msg
    <3>1. ForwardPort(f) => forwarding' = {[f EXCEPT !.pc = "find", !.obj = workconn["fwd"]]}
      BY DEF ForwardPort, Forwards
    <3>2. FindAdmin(f) => forwarding' \subseteq {[f EXCEPT !.pc = "admin"]}
      BY DEF FindAdmin, Forwards
    <3>3. ForwardAdmin(f) =>
            forwarding' \subseteq {[f EXCEPT !.pc = "send", !.reg = csinfo[f.obj][f.msg.admin]]}
      BY DEF ForwardAdmin, Forwards
    <3> QED
      BY <1>5, <2>2, <3>1, <3>2, <3>3 DEF Forwarded
  <2> QED
    BY <1>3, <2>1, <2>3 DEF Post
<1>6. ASSUME NEW f \in forwarding, ForwardTo(f) PROVE Right'
  BY <1>2, <1>6, ForwardMail
<1> QED
  BY <1>4, <1>5, <1>6 DEF ForwardStep

LEMMA StepRight == Typed /\ Leaks /\ Paired /\ Right /\ [Next]_vars => Right'
<1> SUFFICES ASSUME Typed, Leaks, Paired, Right, [Next]_vars PROVE Right'
  OBVIOUS
<1> DEFINE Untouched == /\ UNCHANGED conn /\ UNCHANGED <<tables, relay>>
                        /\ (sound' => sound) /\ count'.open = count.open
<1>1. Untouched => Right'
  BY PortsRight
<1> HIDE DEF Untouched
<1>2. ASSUME NEW why, Crash(why) PROVE Right'
  BY <1>1, <1>2 DEF Crash, ports, Untouched
<1>3. CASE PoolStep
  <2>1. ASSUME NEW p \in UserPort, NEW a \in Admin, CloseSocket(p, a) PROVE Right'
    BY <1>1, <2>1, ClosingOpens DEF CloseSocket, ports, Untouched
  <2>2. ASSUME NEW a \in Admin, CloseAll(a) PROVE Right'
    BY <1>1, <2>2, ClosingOpens DEF CloseAll, ports, Untouched
  <2>3. CASE Publish
    <3>1. (sound' => sound) /\ UNCHANGED conn /\ UNCHANGED <<tables, relay>> /\ UNCHANGED count
      BY <2>3, SoundStays, Zenon DEF Publish
    <3> QED
      BY <1>1, <3>1 DEF Untouched
  <2>4. CASE Looked
    <3>1. CASE ~ Crash("null connection")
      <4>1. UNCHANGED conn /\ UNCHANGED <<tables, relay>> /\ UNCHANGED <<sound, count>>
        BY <2>4, <3>1 DEF Looked, ports
      <4> QED
        BY <1>1, <4>1 DEF Untouched
    <3> QED
      BY <1>2, <3>1
  <2> QED
    BY <1>3, <2>1, <2>2, <2>3, <2>4, EstablishRight, NameRight DEF PoolStep
<1>4. ASSUME NEW t \in Thread, ShutdownStep(t) \/ \E a \in Admin : Leave(t, a) PROVE Right'
  <2>1. ASSUME NEW a \in Admin, Leave(t, a) PROVE Right'
    BY <1>1, <2>1, ClosingOpens DEF Leave, ports, Untouched
  <2>2. CASE FreeConnection(t)
    <3>1. (sound' => sound) /\ UNCHANGED conn /\ UNCHANGED <<tables, relay>> /\ UNCHANGED count
      BY <2>2, SoundStays, Zenon DEF FreeConnection
    <3> QED
      BY <1>1, <3>1 DEF Untouched
  <2>3. CASE Forget(t)
    <3>1. UNCHANGED <<ports, tables, relay, sound, count>>
      BY <2>3 DEF Forget, Crash
    <3> QED
      BY <1>1, <3>1 DEF ports, Untouched
  <2>4. ASSUME NEW o \in Object, NEW a \in Admin, NEW r \in DOMAIN reg,
               Removes(t, o, a, r), TimedAs(reg', reg, r, "zero")
        PROVE  Right'
    <3>1. /\ auxinfo' = [auxinfo EXCEPT ![o][reg[r].id] = "none"]
          /\ UNCHANGED <<ports, relay, count, sound>>
      BY <2>4 DEF Removes
    <3>2. \A q \in Object, i \in Id : auxinfo'[q][i] \in {auxinfo[q][i], "none"}
      BY <3>1 DEF Typed, TablesTyped
    <3>3. \A i \in DOMAIN reg : reg'[i].addr = reg[i].addr
      BY <2>4 DEF TimedAs
    <3> QED
      BY <3>1, <3>2, <3>3, SameRight DEF ports, relay, Post
  <2>5. CASE Delete(t)
    BY <1>2, <2>4, <2>5, DeleteSplit
  <2> QED
    BY <1>4, <2>1, <2>2, <2>3, <2>5, CloseFdRight DEF ShutdownStep
<1>5. ASSUME NEW o \in Object, UdpStep(o) PROVE Right'
  <2>1. EpollWait(o) \/ ReadRetried(o) => Right'
    BY <1>1 DEF EpollWait, ReadRetried, ports, Untouched
  <2>2. CASE ReadEnds(o)
    BY <1>1, <2>2, ClosingOpens DEF ReadEnds, ports, Untouched
  <2>3. ASSUME NEW c \in Client, UserRequest(o, c) PROVE Right'
    BY <1>2, <2>3, UserRequestSplit, RequestsRight
  <2>4. ASSUME NEW a \in Admin, ForwardRequest(o, a) PROVE Right'
    <3>1. CASE Answers(o, a)
      <4>1. /\ csinfo[o][a] # 0 /\ UNCHANGED <<csinfo, auxinfo, checkQ, heartQ, conn, sound>>
            /\ UNCHANGED <<sender, packages, forwarding, told, astray, count>>
            /\ reg' = [reg EXCEPT ![csinfo[o][a]].timed = "fresh"]
        BY <3>1 DEF Answers, ports
      <4>2. TimedAs(reg', reg, csinfo[o][a], "fresh")
        BY <4>1, RenewsTyped DEF Addr
      <4>3. answers' \subseteq answers \cup told
        BY <3>1 DEF Answers, Queued
      <4>4. \A i \in DOMAIN reg : reg'[i].addr = reg[i].addr
        BY <4>2 DEF TimedAs
      <4> QED
        BY <4>1, <4>3, <4>4, SameRight DEF Post
    <3> QED
      BY <1>2, <2>4, <3>1, ForwardRequestSplit
  <2> QED
    BY <1>5, <2>1, <2>2, <2>3, <2>4, ForwardRegistersRight DEF UdpStep
<1>6. CASE ForwardStep
  BY <1>2, <1>6, ForwardStepRight
<1>7. CASE SenderStep
  BY <1>2, <1>7, TakeRight, TakePortRight, FindIdRight, TakeIdRight, FindAddrRight, TakeAddrRight,
     SendToRight DEF SenderStep
<1>8. ASSUME NEW r \in DOMAIN reg, GrowOld(r) \/ Expire(r) PROVE Right'
  <2>1. CASE GrowOld(r)
    <3>1. UNCHANGED <<ports, auxinfo, relay, count, sound>>
      BY <2>1 DEF GrowOld
    <3>2. \A i \in DOMAIN reg : reg'[i].addr = reg[i].addr
      BY <2>1, GrowOldTyped DEF TimedAs
    <3> QED
      BY <3>1, <3>2, SameRight DEF ports, relay, Post
  <2>2. ASSUME NEW o \in Object, NEW x, Deletes(r, o, x) PROVE Right'
    <3>1. /\ auxinfo' = [auxinfo EXCEPT ![o][reg[r].id] = "none"] /\ UNCHANGED <<ports, relay, count>>
      BY <2>2 DEF Deletes
    <3>2. sound' => sound
      BY <2>2, SoundStays, Zenon DEF Deletes
    <3>3. \A q \in Object, i \in Id : auxinfo'[q][i] \in {auxinfo[q][i], "none"}
      BY <3>1 DEF Typed, TablesTyped
    <3>4. \A i \in DOMAIN reg : reg'[i].addr = reg[i].addr
      BY <2>2, DeletesTyped DEF Buried
    <3> QED
      BY <3>1, <3>2, <3>3, <3>4, SameRight DEF ports, relay, Post
  <2> QED
    BY <1>2, <1>8, <2>1, <2>2, ExpireSplit
<1>9. CASE Heartbeat
  <2>1. ASSUME NEW dead, Frees(dead) PROVE Right'
    <3>1. UNCHANGED <<ports, auxinfo, relay, count, sound>>
      BY <2>1 DEF Frees
    <3>2. \A i \in DOMAIN reg : reg'[i].addr = reg[i].addr
      BY <2>1, FreesTyped DEF Buried
    <3> QED
      BY <3>1, <3>2, SameRight DEF ports, relay, Post
  <2> QED
    BY <1>2, <1>9, <2>1, HeartbeatSplit
<1>10. CASE UNCHANGED vars
  BY <1>1, <1>10 DEF vars, ports, Untouched
<1> QED
  BY <1>3, <1>4, <1>5, <1>6, <1>7, <1>8, <1>9, <1>10 DEF Next

\* While nothing is confused, an answer to a port that was not closed since goes
\* to the client whose datagram it answers, though the sender looks it up in six
\* steps without a lock; unless its registration is freed before the seventh.
THEOREM AnswersReach == Spec => []RightClient
<1>1. Init => Typed /\ Leaks /\ Paired /\ Right
  BY InitTyped, InitLeaks, InitPaired, InitRight
<1>2. Typed /\ Leaks /\ Paired /\ Right /\ [Next]_vars => (Typed /\ Leaks /\ Paired /\ Right)'
  BY StepTyped, StepLeaks, StepPaired, StepRight
<1>3. Typed /\ Leaks /\ Paired /\ Right => RightClient
  BY DEF Right
<1> QED
  BY <1>1, <1>2, <1>3, PTL DEF Spec
=============================================================================
