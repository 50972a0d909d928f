--------------------------- MODULE TcpLinksProofs ---------------------------
(***************************************************************************)
(* TcpLinks for every size of the pool and all sets of administrators,     *)
(* users and ports: its types, what m_connection_work counts, and that the *)
(* limit of Event_accept is never reached.                                 *)
(***************************************************************************)
EXTENDS TcpLinks, TLAPS

-----------------------------------------------------------------------------
(* Frames and stacks. *)

\* What the fields of a pending call are, by the function called.
LEMMA FrameFields ==
  ASSUME NEW f \in Frame
  PROVE  /\ f.op \in {"shutdown", "close", "free", "notify", "reply",
                      "distribute", "dispatch", "publish"} => f.c \in Conn
         /\ f.op \in {"distribute", "link"} => f.c \in Conn /\ f.peer \in Name
         /\ f.op = "link" => f.fwd \in Conn
         /\ f.op = "dispatch" => f.cmd \in Command
         /\ f.op \in {"establish", "closePort", "publish", "drain", "pop", "erase"} =>
              f.port \in UserPort
         /\ f.op \in {"establish", "closePort", "closePorts", "closeEach"} =>
              f.admin \in Admin \cup {NoName}
         /\ f.op = "closeEach" => f.ports \in SUBSET UserPort
         /\ f.op \in {"drain", "pop"} => f.m \in Member
         /\ f.op = "find" => f.key \in Name \cup {NoName}
         /\ f.op = "index" => f.key \in Name
         /\ f.op \in {"find", "index"} => f.use \in Use
  BY DEF Frame

LEMMA CallFrame ==
  ASSUME NEW c \in Conn
  PROVE  /\ Call("shutdown", c) \in Frame /\ Call("close", c) \in Frame
         /\ Call("free", c) \in Frame /\ Call("notify", c) \in Frame
         /\ Call("reply", c) \in Frame
  BY DEF Call, Frame

LEMMA FindFrame ==
  ASSUME NEW k \in Name \cup {NoName}, NEW u \in Use
  PROVE  Find(k, u) \in Frame
  BY DEF Find, Frame

\* The top of a stack that is not empty, and the stack below it.
LEMMA TopFrame ==
  ASSUME TypeOK, NEW t \in Thread, stack[t] # <<>>
  PROVE  Top(t) \in Frame /\ Tail(stack[t]) \in Seq(Frame)
<1>1. stack[t] \in Seq(Frame)
  BY DEF TypeOK
<1> QED
  BY <1>1 DEF Top

\* Every call but those of Id_Distribute.
Plain == {f \in Frame : f.op \notin {"distribute", "link"}}

\* The calls that thread t may have pending.  Id_Distribute is called by the
\* epoll loop only, the peer of a connection that is not a user's is an
\* administrator, and only users are linked, which the types alone do not say.
Legal(t) == {f \in Frame :
               /\ f.op = "distribute" =>
                    t = "main" /\ (conn[f.c].port \notin UserPort => f.peer \in Admin)
               /\ f.op = "link" => t = "main" /\ conn[f.c].port \in UserPort}

\* The inductive invariant of the types.
Typed == TypeOK /\ \A t \in Thread : stack[t] \in Seq(Legal(t))

LEMMA PlainCall ==
  ASSUME NEW c \in Conn
  PROVE  /\ Call("shutdown", c) \in Plain /\ Call("close", c) \in Plain
         /\ Call("free", c) \in Plain /\ Call("notify", c) \in Plain
         /\ Call("reply", c) \in Plain
  BY DEF Call, Frame, Plain

LEMMA PlainFind ==
  ASSUME NEW k \in Name \cup {NoName}, NEW u \in Use
  PROVE  Find(k, u) \in Plain
  BY DEF Find, Frame, Plain

\* The top of a stack that is not empty is a legal call.
LEMMA TopLegal ==
  ASSUME Typed, NEW t \in Thread, stack[t] # <<>>
  PROVE  Top(t) \in Legal(t) /\ Top(t) \in Frame
<1>1. stack[t] \in Seq(Legal(t))
  BY DEF Typed
<1>2. Top(t) \in Legal(t)
  <2> HIDE DEF Legal
  <2> QED
    BY <1>1 DEF Top
<1> QED
  BY <1>2 DEF Legal

\* A stack of legal calls stays one when ports of connections become users'.
LEMMA LegalGrows ==
  ASSUME NEW t \in Thread, NEW s \in Seq(Legal(t)),
         \A c \in Conn : conn'[c].port = conn[c].port \/ conn'[c].port \in UserPort
  PROVE  s \in Seq(Legal(t)')
<1>1. \A f \in Frame : f.op \in {"distribute", "link"} => f.c \in Conn
  BY FrameFields
<1>2. Legal(t) \subseteq Legal(t)'
  <2>1. Legal(t)' = {f \in Frame :
                       /\ f.op = "distribute" =>
                            t = "main" /\ (conn'[f.c].port \notin UserPort => f.peer \in Admin)
                       /\ f.op = "link" => t = "main" /\ conn'[f.c].port \in UserPort}
    BY DEF Legal
  <2> QED
    BY <1>1, <2>1 DEF Legal
<1> QED
  BY ONLY <1>2, s \in Seq(Legal(t))

\* A call that returns after pushing legal calls leaves stacks of legal calls.
LEMMA LegalReturn ==
  ASSUME Typed, NEW t \in Thread, stack[t] # <<>>, NEW fs \in Seq(Legal(t)'), Return(t, fs),
         \A c \in Conn : conn'[c].port = conn[c].port \/ conn'[c].port \in UserPort
  PROVE  /\ stack' \in [Thread -> Seq(Frame)]
         /\ \A u \in Thread : stack'[u] \in Seq(Legal(u)')
<1>1. stack \in [Thread -> Seq(Frame)] /\ \A u \in Thread : stack[u] \in Seq(Legal(u))
  BY DEF Typed, TypeOK
<1>2. fs \in Seq(Frame) /\ fs \in Seq(Legal(t)')
  <2>1. Legal(t)' \subseteq Frame
    BY DEF Legal
  <2> QED
    BY ONLY <2>1, fs \in Seq(Legal(t)')
<1>3. \A u \in Thread : stack[u] \in Seq(Legal(u)')
  BY <1>1, LegalGrows
<1>4. fs \o Tail(stack[t]) \in Seq(Frame) /\ fs \o Tail(stack[t]) \in Seq(Legal(t)')
  <2>1. stack[t] \in Seq(Frame) /\ stack[t] \in Seq(Legal(t)')
    BY <1>1, <1>3
  <2> DEFINE s == stack[t]
             L == Legal(t)'
  <2>2. s \in Seq(Frame) /\ s \in Seq(L) /\ s # <<>> /\ fs \in Seq(Frame) /\ fs \in Seq(L)
    BY <2>1, <1>2
  <2> HIDE DEF s, L
  <2>3. fs \o Tail(s) \in Seq(Frame) /\ fs \o Tail(s) \in Seq(L)
    BY ONLY <2>2
  <2> QED
    BY <2>3 DEF s, L
<1>5. stack' = [stack EXCEPT ![t] = fs \o Tail(stack[t])]
  BY DEF Return
<1> QED
  BY <1>1, <1>3, <1>4, <1>5

LEMMA ReturnLegal ==
  ASSUME Typed, NEW t \in Thread, stack[t] # <<>>, NEW fs \in Seq(Plain), Return(t, fs),
         \A c \in Conn : conn'[c].port = conn[c].port \/ conn'[c].port \in UserPort
  PROVE  /\ stack' \in [Thread -> Seq(Frame)]
         /\ \A u \in Thread : stack'[u] \in Seq(Legal(u)')
<1>1. fs \in Seq(Legal(t)')
  <2>1. Plain \subseteq Legal(t)'
    BY DEF Plain, Legal
  <2> QED
    BY ONLY <2>1, fs \in Seq(Plain)
<1> QED
  BY <1>1, LegalReturn

LEMMA ReturnNothing ==
  ASSUME Typed, NEW t \in Thread, stack[t] # <<>>, Return(t, <<>>),
         \A c \in Conn : conn'[c].port = conn[c].port \/ conn'[c].port \in UserPort
  PROVE  /\ stack' \in [Thread -> Seq(Frame)]
         /\ \A u \in Thread : stack'[u] \in Seq(Legal(u)')
<1>1. <<>> \in Seq(Plain)
  OBVIOUS
<1> QED
  BY <1>1, ReturnLegal

\* A call that changes no data.
LEMMA QuietReturn ==
  ASSUME Typed, NEW t \in Thread, stack[t] # <<>>, NEW fs \in Seq(Plain), Return(t, fs),
         UNCHANGED <<links, pool, batch, cmds, count>>, fault' \in Fault, sound' \in BOOLEAN
  PROVE  Typed'
<1>1. /\ stack' \in [Thread -> Seq(Frame)]
      /\ \A u \in Thread : stack'[u] \in Seq(Legal(u)')
  BY ReturnLegal DEF links
<1> QED
  BY <1>1 DEF Typed, TypeOK, links, pool

\* A call in which the process dies.
LEMMA QuietCrash ==
  ASSUME Typed, NEW why \in Fault, Crash(why), UNCHANGED <<cmds, count>>,
         batch' \in Seq(Conn)
  PROVE  Typed'
<1>1. \A u \in Thread : stack'[u] \in Seq(Legal(u)')
  BY DEF Typed, Legal, Crash, links
<1> QED
  BY <1>1 DEF Typed, TypeOK, Crash, links, pool

-----------------------------------------------------------------------------
(* Initially, and when an event is handled. *)

LEMMA InitTyped ==
  ASSUME Init
  PROVE  Typed
<1>1. conn \in [Conn -> Connection]
  <2>1. Fresh("logic", NoName, "accept") \in Connection
        /\ Fresh("forward", NoName, "accept") \in Connection
        /\ [Fresh("none", NoName, "none") EXCEPT !.fd = FALSE] \in Connection
    BY DEF Fresh, Connection, Port
  <2> QED
    BY <2>1 DEF Init
<1>2. fconn \in Seq(Conn)
  <2>1. fconn \in [1 .. WorkConnections - 2 -> Conn] /\ WorkConnections - 2 \in Nat
    BY PoolAssumption DEF Init, Conn
  <2> QED
    BY <2>1
<1>3. work \in Int /\ workconn \in [Name -> Conn \cup {Absent}]
      /\ unfully \in [Admin -> Conn \cup {NULL, Absent}]
      /\ adm \in [UserPort -> Member \cup {NULL}]
  BY DEF Init
<1>4. member \in [Member -> [used : BOOLEAN, adcptr : Conn, opened : Seq(Conn)]]
  <2>1. 1 \in Conn
    BY PoolAssumption DEF Conn
  <2>2. [used |-> FALSE, adcptr |-> 1, opened |-> <<>>] \in
          [used : BOOLEAN, adcptr : Conn, opened : Seq(Conn)]
    BY <2>1
  <2> QED
    BY <2>2 DEF Init
<1>5. leaked \subseteq Conn /\ batch \in Seq(Conn) /\ fault \in Fault
      /\ cmds \in Seq([from : Name \cup {NoName}, cmd : Command])
  BY DEF Init, Fault
<1>6. sound \in BOOLEAN
  BY Zenon DEF Init
<1>7. count \in [accept : Nat, command : Nat, open : Nat, fail : Nat]
  BY DEF Init
<1>8. stack \in [Thread -> Seq(Frame)] /\ \A t \in Thread : stack[t] \in Seq(Legal(t))
  BY DEF Init
<1> QED
  BY <1>1, <1>2, <1>3, <1>4, <1>5, <1>6, <1>7, <1>8 DEF Typed, TypeOK

\* A handler of an event starts with plain calls.
LEMMA HandlesLegal ==
  ASSUME Typed, batch # <<>>, NEW fs \in Seq(Plain), Handles(fs),
         \A c \in Conn : conn'[c].port = conn[c].port \/ stack["main"] = <<>>
  PROVE  /\ stack' \in [Thread -> Seq(Frame)]
         /\ \A u \in Thread : stack'[u] \in Seq(Legal(u)')
         /\ batch' \in Seq(Conn)
<1>1. stack \in [Thread -> Seq(Frame)] /\ \A u \in Thread : stack[u] \in Seq(Legal(u))
  BY DEF Typed, TypeOK
<1>2. fs \in Seq(Frame) /\ fs \in Seq(Legal("main")')
  <2>1. Plain \subseteq Frame /\ Plain \subseteq Legal("main")'
    BY DEF Plain, Legal
  <2> QED
    BY ONLY <2>1, fs \in Seq(Plain)
<1>3. stack["pool"] \in Seq(Legal("pool")')
  <2>1. Legal("pool") = Plain /\ Legal("pool")' = Plain
    BY DEF Legal, Plain
  <2> QED
    BY <1>1, <2>1 DEF Thread
<1>4. batch' \in Seq(Conn)
  BY DEF Handles, Typed, TypeOK
<1> QED
  BY <1>1, <1>2, <1>3, <1>4 DEF Handles, Thread

\* A handler that changes no data but, perhaps, the commands received.
LEMMA QuietHandler ==
  ASSUME Typed, batch # <<>>, NEW fs \in Seq(Plain), Handles(fs),
         UNCHANGED <<links, pool, fault>>, sound' \in BOOLEAN,
         cmds' \in Seq([from : Name \cup {NoName}, cmd : Command]),
         count' \in [accept : Nat, command : Nat, open : Nat, fail : Nat]
  PROVE  Typed'
<1>1. /\ stack' \in [Thread -> Seq(Frame)]
      /\ \A u \in Thread : stack'[u] \in Seq(Legal(u)')
      /\ batch' \in Seq(Conn)
  BY HandlesLegal DEF links
<1> QED
  BY <1>1 DEF Typed, TypeOK, links, pool

-----------------------------------------------------------------------------
(* The steps that release connections and close ports. *)

LEMMA ShutdownTyped ==
  ASSUME Typed, NEW t \in Thread, Shutdown(t)
  PROVE  Typed'
<1> DEFINE c == Top(t).c
           f == conn[c].fwd
           rest == <<Call("close", c), Call("free", c)>>
<1>1. stack[t] # <<>> /\ c \in Conn /\ conn[c] \in Connection
  <2>1. stack[t] # <<>> /\ Top(t).op = "shutdown"
    BY DEF Shutdown, Calls, Top
  <2>2. c \in Conn
    BY <2>1, TopLegal, FrameFields
  <2> QED
    BY <2>1, <2>2 DEF Typed, TypeOK
<1>2. CASE Depth(t) >= MaxDepth
  <2>1. Crash("overflow") /\ UNCHANGED <<batch, cmds, count>>
    BY <1>2 DEF Shutdown
  <2>2. batch' \in Seq(Conn) /\ UNCHANGED <<cmds, count>> /\ "overflow" \in Fault
    BY <2>1 DEF Typed, TypeOK, Fault
  <2> QED
    BY <2>1, <2>2, QuietCrash
<1>3. CASE ~ (Depth(t) >= MaxDepth)
  <2>1. UNCHANGED <<links, pool, batch, cmds, count>> /\ fault' \in Fault
    BY <1>3 DEF Shutdown, Typed, TypeOK
  <2>2. sound' \in BOOLEAN
    BY <1>3, Zenon DEF Shutdown
  <2>3. PICK fs \in Seq(Plain) : Return(t, fs)
    <3>1. rest \in Seq(Plain)
      BY <1>1, PlainCall
    <3>2. <<[op |-> "closePorts", admin |-> conn[c].admin]>> \o rest \in Seq(Plain)
      BY <1>1, <3>1 DEF Frame, Plain, Connection
    <3>3. f # NULL => <<Call("shutdown", f)>> \o rest \in Seq(Plain)
      BY <1>1, <3>1, PlainCall DEF Connection
    <3>4. Return(t, CASE conn[c].port = "logic" ->
                            <<[op |-> "closePorts", admin |-> conn[c].admin]>> \o rest
                       [] conn[c].port # "logic" /\ f # NULL ->
                            <<Call("shutdown", f)>> \o rest
                       [] OTHER -> rest)
      BY <1>3 DEF Shutdown
    <3>5. CASE conn[c].port = "logic"
      BY <3>2, <3>4, <3>5, Zenon
    <3>6. CASE conn[c].port # "logic" /\ f # NULL
      BY <3>3, <3>4, <3>6, Zenon
    <3>7. CASE conn[c].port # "logic" /\ f = NULL
      BY <3>1, <3>4, <3>7, Zenon
    <3> QED
      BY <3>5, <3>6, <3>7
  <2> QED
    BY <1>1, <2>1, <2>2, <2>3, QuietReturn
<1> QED
  BY <1>2, <1>3

LEMMA CloseFdTyped ==
  ASSUME Typed, NEW t \in Thread, CloseFd(t)
  PROVE  Typed'
<1> DEFINE c == Top(t).c
<1>1. stack[t] # <<>> /\ c \in Conn
  BY TopLegal, FrameFields DEF CloseFd, Calls, Top
<1>2. /\ conn' \in [Conn -> Connection]
      /\ \A d \in Conn : conn'[d].port = conn[d].port
  <2>1. conn \in [Conn -> Connection]
    BY DEF Typed, TypeOK
  <2> DEFINE r == [conn[c] EXCEPT
                     !.fd = FALSE,
                     !.fwd = IF conn[c].port = "logic" THEN conn[c].fwd ELSE NULL]
  <2>2. conn' = [conn EXCEPT ![c] = r]
    BY DEF CloseFd
  <2>3. r \in Connection /\ r.port = conn[c].port
    BY <1>1, <2>1, ZenonT(30) DEF Connection
  <2> HIDE DEF r
  <2> QED
    BY <1>1, <2>1, <2>2, <2>3
<1>3. Return(t, <<>>)
  BY DEF CloseFd
<1>4. /\ stack' \in [Thread -> Seq(Frame)]
      /\ \A u \in Thread : stack'[u] \in Seq(Legal(u)')
  BY <1>1, <1>2, <1>3, ReturnNothing
<1> QED
  BY <1>2, <1>4 DEF Typed, TypeOK, CloseFd, pool

LEMMA FreeConnectionTyped ==
  ASSUME Typed, NEW t \in Thread, FreeConnection(t)
  PROVE  Typed'
<1> DEFINE c == Top(t).c
<1>1. stack[t] # <<>> /\ c \in Conn
  BY TopLegal, FrameFields DEF FreeConnection, Calls, Top
<1>2. workconn' \in [Name -> Conn \cup {Absent}]
  BY DEF FreeConnection, Typed, TypeOK
<1>3. fconn' \in Seq(Conn) /\ work' \in Int
  BY <1>1 DEF FreeConnection, Typed, TypeOK
<1>4. /\ stack' \in [Thread -> Seq(Frame)]
      /\ \A u \in Thread : stack'[u] \in Seq(Legal(u)')
  <2>1. Return(t, <<>>) /\ conn' = conn
    BY DEF FreeConnection
  <2> QED
    BY <1>1, <2>1, ReturnNothing
<1> QED
  BY <1>2, <1>3, <1>4 DEF Typed, TypeOK, FreeConnection

LEMMA ClosePortsTyped ==
  ASSUME Typed, NEW t \in Thread, ClosePorts(t)
  PROVE  Typed'
<1> DEFINE a == Top(t).admin
           mine == {p \in UserPort : adm[p] # NULL /\ conn[member[adm[p]].adcptr].admin = a}
           g == [op |-> "closeEach", ports |-> mine, admin |-> a]
<1>1. stack[t] # <<>> /\ a \in Admin \cup {NoName}
  BY TopLegal, FrameFields DEF ClosePorts, Calls, Top
<1>2. <<g>> \in Seq(Plain)
  <2>1. mine \in SUBSET UserPort
    OBVIOUS
  <2> HIDE DEF mine
  <2>2. g \in Plain
    BY <1>1, <2>1 DEF Frame, Plain
  <2> QED
    BY <2>2
<1>3. Return(t, <<g>>)
  BY DEF ClosePorts
<1>4. /\ UNCHANGED <<links, pool, batch, cmds, count>>
      /\ fault' \in Fault
  BY DEF ClosePorts, Typed, TypeOK
<1>5. sound' \in BOOLEAN
  BY Zenon DEF ClosePorts, Typed, TypeOK
<1> HIDE DEF g
<1> QED
  BY <1>1, <1>2, <1>3, <1>4, <1>5, QuietReturn

LEMMA CloseEachTyped ==
  ASSUME Typed, NEW t \in Thread, CloseEach(t)
  PROVE  Typed'
<1> DEFINE f == Top(t)
<1>1. /\ stack[t] # <<>> /\ f \in Frame /\ f.op = "closeEach"
      /\ f.ports \in SUBSET UserPort /\ f.admin \in Admin \cup {NoName}
  BY TopLegal, FrameFields DEF CloseEach, Calls, Top
<1>2. \E fs \in Seq(Plain) : Return(t, fs)
  <2>1. CASE f.ports = {} /\ Return(t, <<>>)
    <3>1. <<>> \in Seq(Plain)
      OBVIOUS
    <3> QED
      BY <2>1, <3>1
  <2>2. CASE \E p \in f.ports : Return(t, <<[op |-> "closePort", port |-> p, admin |-> f.admin],
                                            [f EXCEPT !.ports = @ \ {p}]>>)
    <3>1. PICK p \in f.ports : Return(t, <<[op |-> "closePort", port |-> p, admin |-> f.admin],
                                           [f EXCEPT !.ports = @ \ {p}]>>)
      BY <2>2
    <3>2. [op |-> "closePort", port |-> p, admin |-> f.admin] \in Plain
      BY <1>1 DEF Frame, Plain
    <3>3. [f EXCEPT !.ports = @ \ {p}] \in Plain
      <4>1. f \in [op : {"closeEach"}, ports : SUBSET UserPort, admin : Admin \cup {NoName}]
        BY <1>1 DEF Frame
      <4> QED
        BY <4>1 DEF Frame, Plain
    <3>4. <<[op |-> "closePort", port |-> p, admin |-> f.admin],
            [f EXCEPT !.ports = @ \ {p}]>> \in Seq(Plain)
      BY <3>2, <3>3
    <3> QED
      BY <3>1, <3>4
  <2> QED
    BY <2>1, <2>2 DEF CloseEach
<1>3. /\ UNCHANGED <<links, pool, batch, cmds, count>>
      /\ fault' \in Fault
  BY DEF CloseEach, Typed, TypeOK
<1>4. sound' \in BOOLEAN
  BY Zenon DEF CloseEach, Typed, TypeOK
<1> QED
  BY <1>1, <1>2, <1>3, <1>4, QuietReturn

LEMMA ClosePortTyped ==
  ASSUME Typed, NEW t \in Thread, ClosePort(t)
  PROVE  Typed'
<1> DEFINE p == Top(t).port
           m == adm[p]
           l == member[m].adcptr
<1>1. stack[t] # <<>> /\ p \in UserPort
  BY TopLegal, FrameFields DEF ClosePort, Calls, Top
<1>2. /\ UNCHANGED <<links, pool, batch, cmds, count>>
      /\ fault' \in Fault
  BY DEF ClosePort, Crash, Typed, TypeOK, Fault
<1>3. CASE /\ m = NULL \/ conn[l].admin # Top(t).admin
           /\ Return(t, <<>>) /\ UNCHANGED sound
  <2>1. Return(t, <<>>) /\ UNCHANGED sound /\ <<>> \in Seq(Plain)
    BY <1>3
  <2>2. sound' \in BOOLEAN
    BY <2>1, Zenon DEF Typed, TypeOK
  <2> QED
    BY <1>1, <1>2, <2>1, <2>2, QuietReturn
<1> DEFINE fs == <<Call("shutdown", l), [op |-> "drain", m |-> m, port |-> p],
                   [op |-> "erase", port |-> p]>>
<1>4. CASE /\ m # NULL /\ conn[l].admin = Top(t).admin
           /\ Return(t, fs)
           /\ sound' = (sound /\ conn[l].port = p /\ conn[l].handle = "accept")
  <2>1. m \in Member /\ l \in Conn
    BY <1>1, <1>4 DEF Typed, TypeOK
  <2>2. fs \in Seq(Plain)
    <3>1. [op |-> "drain", m |-> m, port |-> p] \in [op : {"drain", "pop"}, m : Member, port : UserPort]
      BY <1>1, <2>1
    <3>2. [op |-> "erase", port |-> p] \in [op : {"erase"}, port : UserPort]
      BY <1>1
    <3>3. /\ [op |-> "drain", m |-> m, port |-> p] \in Plain
          /\ [op |-> "erase", port |-> p] \in Plain
      BY <3>1, <3>2 DEF Frame, Plain
    <3> QED
      BY <2>1, <3>3, PlainCall
  <2>3. Return(t, fs)
    BY <1>4
  <2>4. sound' \in BOOLEAN
    BY <1>4, Zenon
  <2> HIDE DEF fs
  <2> QED
    BY <1>1, <1>2, <2>2, <2>3, <2>4, QuietReturn
<1>5. CASE Crash("null member")
  <2>1. batch' \in Seq(Conn) /\ "null member" \in Fault
    BY <1>2 DEF Typed, TypeOK, Fault
  <2> QED
    BY <1>2, <1>5, <2>1, QuietCrash
<1> HIDE DEF fs
<1> QED
  <2>1. \/ (m = NULL \/ conn[l].admin # Top(t).admin) /\ Return(t, <<>>) /\ UNCHANGED sound
        \/ /\ m # NULL /\ conn[l].admin = Top(t).admin
           /\ Return(t, fs)
           /\ sound' = (sound /\ conn[l].port = p /\ conn[l].handle = "accept")
        \/ Crash("null member")
    BY DEF ClosePort, fs
  <2> QED
    BY <1>3, <1>4, <1>5, <2>1

LEMMA DrainTyped ==
  ASSUME Typed, NEW t \in Thread, Drain(t)
  PROVE  Typed'
<1> DEFINE f == Top(t)
<1>1. stack[t] # <<>> /\ f \in Frame /\ f.op = "drain"
  BY TopLegal DEF Drain, Calls, Top
<1>2. <<[f EXCEPT !.op = "pop"], f>> \in Seq(Plain)
  <2>1. f \in [op : {"drain", "pop"}, m : Member, port : UserPort]
    BY <1>1 DEF Frame
  <2> QED
    BY <1>1, <2>1 DEF Frame, Plain
<1>3. \E fs \in Seq(Plain) : Return(t, fs)
  <2>1. <<>> \in Seq(Plain)
    OBVIOUS
  <2>2. Return(t, IF member[f.m].opened = <<>> THEN <<>> ELSE <<[f EXCEPT !.op = "pop"], f>>)
    BY DEF Drain
  <2> QED
    BY <1>2, <2>1, <2>2
<1>4. /\ UNCHANGED <<links, pool, batch, cmds, count>>
      /\ fault' \in Fault
  BY DEF Drain, Typed, TypeOK
<1>5. sound' \in BOOLEAN
  BY Zenon DEF Drain, Typed, TypeOK
<1> QED
  BY <1>1, <1>3, <1>4, <1>5, QuietReturn

LEMMA PopUserTyped ==
  ASSUME Typed, NEW t \in Thread, PopUser(t)
  PROVE  Typed'
<1> DEFINE m == Top(t).m
           c == Head(member[m].opened)
<1>1. stack[t] # <<>> /\ m \in Member
  BY TopLegal, FrameFields DEF PopUser, Calls, Top
<1>2. CASE member[m].opened = <<>>
  <2>1. Crash("empty list") /\ UNCHANGED <<batch, cmds, count>>
    BY <1>2 DEF PopUser
  <2>2. batch' \in Seq(Conn) /\ UNCHANGED <<cmds, count>> /\ "empty list" \in Fault
    BY <2>1 DEF Typed, TypeOK, Fault
  <2> QED
    BY <2>1, <2>2, QuietCrash
<1>3. CASE member[m].opened # <<>>
  <2>1. member[m].opened \in Seq(Conn) /\ c \in Conn /\ Tail(member[m].opened) \in Seq(Conn)
    BY <1>1, <1>3 DEF Typed, TypeOK
  <2>2. member' \in [Member -> [used : BOOLEAN, adcptr : Conn, opened : Seq(Conn)]]
    BY <1>1, <1>3, <2>1, ZenonT(30) DEF PopUser, Typed, TypeOK
  <2>3. /\ stack' \in [Thread -> Seq(Frame)]
        /\ \A u \in Thread : stack'[u] \in Seq(Legal(u)')
    <3>1. <<Call("shutdown", c)>> \in Seq(Plain)
      BY <2>1, PlainCall
    <3>2. Return(t, <<Call("shutdown", c)>>) /\ conn' = conn
      BY <1>3 DEF PopUser
    <3> QED
      BY <1>1, <3>1, <3>2, ReturnLegal
  <2>4. sound' \in BOOLEAN
    BY <1>3, Zenon DEF PopUser
  <2> QED
    BY <1>3, <2>2, <2>3, <2>4 DEF Typed, TypeOK, PopUser, pool
<1> QED
  BY <1>2, <1>3

LEMMA ErasePortTyped ==
  ASSUME Typed, NEW t \in Thread, ErasePort(t)
  PROVE  Typed'
<1>1. stack[t] # <<>> /\ Return(t, <<>>) /\ conn' = conn
  BY DEF ErasePort, Calls
<1>2. /\ stack' \in [Thread -> Seq(Frame)]
      /\ \A u \in Thread : stack'[u] \in Seq(Legal(u)')
  BY <1>1, ReturnNothing
<1>3. adm' \in [UserPort -> Member \cup {NULL}]
  BY DEF ErasePort, Typed, TypeOK, NULL
<1> QED
  BY <1>2, <1>3 DEF Typed, TypeOK, ErasePort, pool

LEMMA FindEntryTyped ==
  ASSUME Typed, NEW t \in Thread, FindEntry(t)
  PROVE  Typed'
<1> DEFINE f == Top(t)
           g == [f EXCEPT !.op = "index"]
<1>1. stack[t] # <<>> /\ f \in Frame /\ f.op = "find"
  BY TopLegal DEF FindEntry, Calls, Top
<1>2. \E fs \in Seq(Plain) : Return(t, fs)
  <2>1. <<>> \in Seq(Plain)
    OBVIOUS
  <2>2. CASE f.key = NoName \/ workconn[f.key] = Absent
    BY <2>1, <2>2 DEF FindEntry
  <2>3. CASE ~ (f.key = NoName \/ workconn[f.key] = Absent)
    <3>1. f \in [op : {"find"}, key : Name \cup {NoName}, use : Use]
      BY <1>1 DEF Frame
    <3>2. g \in Plain
      BY <2>3, <3>1 DEF Frame, Plain
    <3>3. <<g>> \in Seq(Plain)
      BY <3>2
    <3>4. Return(t, <<g>>)
      BY <2>3 DEF FindEntry
    <3> QED
      BY <3>3, <3>4
  <2> QED
    BY <2>2, <2>3
<1>3. /\ UNCHANGED <<links, pool, batch, cmds, count>>
      /\ fault' \in Fault
  BY DEF FindEntry, Typed, TypeOK
<1>4. sound' \in BOOLEAN
  BY Zenon DEF FindEntry, Typed, TypeOK
<1> QED
  BY <1>1, <1>2, <1>3, <1>4, QuietReturn

LEMMA IndexEntryTyped ==
  ASSUME Typed, NEW t \in Thread, IndexEntry(t)
  PROVE  Typed'
<1> DEFINE f == Top(t)
           c == workconn[f.key]
<1>1. stack[t] # <<>> /\ f.key \in Name /\ f.use \in Use
  BY TopLegal, FrameFields DEF IndexEntry, Calls, Top
<1>2. UNCHANGED <<batch, cmds, count>>
  BY DEF IndexEntry
<1>3. CASE c = Absent
  <2>1. Crash("null connection")
    BY <1>3 DEF IndexEntry
  <2>2. batch' \in Seq(Conn) /\ "null connection" \in Fault
    BY <1>2 DEF Typed, TypeOK, Fault
  <2> QED
    BY <1>2, <2>1, <2>2, QuietCrash
<1>4. CASE c # Absent
  <2>1. c \in Conn
    BY <1>1, <1>4 DEF Typed, TypeOK
  <2>2. \E fs \in Seq(Plain) : Return(t, fs)
    <3>1. <<>> \in Seq(Plain) /\ <<Call("shutdown", c)>> \in Seq(Plain)
      BY <2>1, PlainCall
    <3>2. CASE f.use.do \in {"evict", "send"} /\ Return(t, <<Call("shutdown", c)>>)
      BY <3>1, <3>2
    <3>3. CASE f.use.do # "evict" /\ Return(t, <<>>)
      BY <3>1, <3>3
    <3>4. CASE /\ f.use.do \notin {"evict", "send"}
               /\ Return(t, <<[op |-> "dispatch", c |-> c, cmd |-> f.use]>>)
      <4>1. f.use \in Command
        BY <1>1, <3>4 DEF Use
      <4>2. [op |-> "dispatch", c |-> c, cmd |-> f.use] \in Plain
        BY <2>1, <4>1 DEF Frame, Plain
      <4>3. <<[op |-> "dispatch", c |-> c, cmd |-> f.use]>> \in Seq(Plain)
        BY <4>2
      <4> QED
        BY <3>4, <4>3
    <3> QED
      BY <1>4, <3>2, <3>3, <3>4 DEF IndexEntry
  <2>3. UNCHANGED <<links, pool>> /\ fault' \in Fault
    BY <1>4 DEF IndexEntry, Typed, TypeOK
  <2>4. sound' \in BOOLEAN
    BY <1>4, Zenon DEF IndexEntry, Typed, TypeOK
  <2> QED
    BY <1>1, <1>2, <2>2, <2>3, <2>4, QuietReturn
<1> QED
  BY <1>3, <1>4

-----------------------------------------------------------------------------
(* The steps of the commands. *)

LEMMA TakeCommandTyped ==
  ASSUME Typed, TakeCommand
  PROVE  Typed'
<1> DEFINE f == Find(Head(cmds).from, Head(cmds).cmd)
<1>1. /\ Head(cmds) \in [from : Name \cup {NoName}, cmd : Command]
      /\ cmds' \in Seq([from : Name \cup {NoName}, cmd : Command])
  <2> DEFINE S == [from : Name \cup {NoName}, cmd : Command]
  <2>1. cmds \in Seq(S) /\ cmds # <<>> /\ cmds' = Tail(cmds)
    BY DEF TakeCommand, Typed, TypeOK
  <2> HIDE DEF S
  <2>2. Head(cmds) \in S /\ cmds' \in Seq(S)
    BY ONLY <2>1
  <2> QED
    BY <2>2 DEF S
<1>2. f \in Plain
  BY <1>1, PlainFind DEF Use
<1>3. f \in Frame /\ f \in Legal("pool")'
  BY <1>2 DEF Plain, Legal
<1>4. <<f>> \in Seq(Frame) /\ <<f>> \in Seq(Legal("pool")')
  BY <1>3
<1>5. stack["main"] \in Seq(Legal("main")')
  BY DEF Typed, Thread, Legal, TakeCommand, links
<1>6. /\ stack' \in [Thread -> Seq(Frame)]
      /\ \A u \in Thread : stack'[u] \in Seq(Legal(u)')
  <2>1. stack' = [stack EXCEPT !["pool"] = <<f>>] /\ stack \in [Thread -> Seq(Frame)]
    BY DEF TakeCommand, Typed, TypeOK
  <2> HIDE DEF f
  <2> QED
    BY <1>4, <1>5, <2>1 DEF Thread
<1> QED
  BY <1>1, <1>6 DEF Typed, TypeOK, TakeCommand, links, pool

LEMMA DispatchTyped ==
  ASSUME Typed, NEW t \in Thread, Dispatch(t)
  PROVE  Typed'
<1> DEFINE c == Top(t).c
           cmd == Top(t).cmd
           a == conn[c].admin
           reply == <<Call("reply", c)>>
           open == <<[op |-> "establish", port |-> cmd.port, admin |-> a]>> \o reply
           close == <<[op |-> "closePort", port |-> cmd.port, admin |-> a]>> \o reply
           all == <<[op |-> "closePorts", admin |-> a]>> \o reply
           exit == <<Find(a, [do |-> "evict"])>> \o reply
<1>1. stack[t] # <<>> /\ c \in Conn /\ cmd \in Command /\ a \in Admin \cup {NoName}
  <2>1. stack[t] # <<>> /\ c \in Conn /\ cmd \in Command
    BY TopLegal, FrameFields DEF Dispatch, Calls, Top
  <2> QED
    BY <2>1 DEF Typed, TypeOK, Connection
<1>2. reply \in Seq(Plain) /\ all \in Seq(Plain)
  BY <1>1, PlainCall DEF Frame, Plain
<1>3. cmd.do \in {"open", "close"} => open \in Seq(Plain) /\ close \in Seq(Plain)
  <2>1. SUFFICES ASSUME cmd.do \in {"open", "close"}
                 PROVE  open \in Seq(Plain) /\ close \in Seq(Plain)
    OBVIOUS
  <2>2. cmd.port \in UserPort
    BY <1>1, <2>1 DEF Command
  <2>3. /\ [op |-> "establish", port |-> cmd.port, admin |-> a] \in Plain
        /\ [op |-> "closePort", port |-> cmd.port, admin |-> a] \in Plain
    BY <1>1, <2>2 DEF Frame, Plain
  <2> QED
    BY <1>2, <2>3
<1>4. exit \in Seq(Plain)
  <2>1. Find(a, [do |-> "evict"]) \in Plain
    <3>1. a \in Name \cup {NoName} /\ [do |-> "evict"] \in Use
      BY <1>1 DEF Name, Use
    <3> QED
      BY <3>1, PlainFind
  <2> QED
    BY <1>2, <2>1
<1>5. \E fs \in Seq(Plain) : Return(t, fs)
  <2>1. Return(t, CASE cmd.do = "open" -> open
                    [] cmd.do = "close" -> close
                    [] cmd.do = "closeAll" -> all
                    [] cmd.do = "exit" -> exit
                    [] OTHER -> reply)
    BY DEF Dispatch
  <2> HIDE DEF open, close, all, exit, reply
  <2>2. CASE cmd.do = "open"
    BY <1>3, <2>1, <2>2
  <2>3. CASE cmd.do = "close"
    BY <1>3, <2>1, <2>3
  <2>4. CASE cmd.do = "closeAll"
    BY <1>2, <2>1, <2>4
  <2>5. CASE cmd.do = "exit"
    BY <1>4, <2>1, <2>5
  <2>6. CASE cmd.do \notin {"open", "close", "closeAll", "exit"}
    BY <1>2, <2>1, <2>6
  <2> QED
    BY <2>2, <2>3, <2>4, <2>5, <2>6
<1>6. UNCHANGED <<links, pool, batch, cmds, count>> /\ fault' \in Fault
  BY DEF Dispatch, Typed, TypeOK
<1>7. sound' \in BOOLEAN
  BY Zenon DEF Dispatch, Typed, TypeOK
<1> QED
  BY <1>1, <1>5, <1>6, <1>7, QuietReturn

LEMMA ReplyTyped ==
  ASSUME Typed, NEW t \in Thread, Reply(t)
  PROVE  Typed'
<1> DEFINE f == Find(conn[Top(t).c].id, [do |-> "send"])
<1>1. stack[t] # <<>> /\ Top(t).c \in Conn
  BY TopLegal, FrameFields DEF Reply, Calls, Top
<1>2. <<f>> \in Seq(Plain)
  <2>1. conn[Top(t).c].id \in Name \cup {NoName} /\ [do |-> "send"] \in Use
    BY <1>1 DEF Typed, TypeOK, Connection, Use
  <2>2. f \in Plain
    BY <2>1, PlainFind
  <2> QED
    BY <2>2
<1>3. Return(t, <<f>>)
  BY DEF Reply
<1>4. UNCHANGED <<links, pool, batch, cmds, count>> /\ fault' \in Fault
  BY DEF Reply, Typed, TypeOK
<1>5. sound' \in BOOLEAN
  BY Zenon DEF Reply, Typed, TypeOK
<1> HIDE DEF f
<1> QED
  BY <1>1, <1>2, <1>3, <1>4, <1>5, QuietReturn

\* A connection taken from the pool.
LEMMA GetConnectionTyped ==
  ASSUME Typed, NEW c \in Conn, NEW p \in Port, NEW a \in Admin \cup {NoName},
         NEW h \in {"accept", "admin", "forward", "user"},
         fconn # <<>>, GetConnection(c, p, a, h)
  PROVE  /\ conn' \in [Conn -> Connection]
         /\ conn'[c].port = p
         /\ \A d \in Conn : conn'[d].port = conn[d].port \/ conn'[d].port = p
         /\ fconn' \in Seq(Conn)
         /\ leaked' \subseteq Conn
         /\ sound' \in BOOLEAN
<1>1. conn \in [Conn -> Connection] /\ fconn \in Seq(Conn) /\ leaked \subseteq Conn
  BY DEF Typed, TypeOK
<1>2. Fresh(p, a, h) \in Connection /\ Fresh(p, a, h).port = p
  BY DEF Fresh, Connection
<1>3. conn' = [conn EXCEPT ![c] = Fresh(p, a, h)]
  BY DEF GetConnection
<1>4. /\ conn' \in [Conn -> Connection]
      /\ conn'[c].port = p
      /\ \A d \in Conn : conn'[d].port = conn[d].port \/ conn'[d].port = p
  BY <1>1, <1>2, <1>3
<1>5. fconn' \in Seq(Conn) /\ leaked' \subseteq Conn
  BY <1>1 DEF GetConnection
<1>6. sound' \in BOOLEAN
  BY Zenon DEF GetConnection
<1> QED
  BY <1>4, <1>5, <1>6

LEMMA EstablishTyped ==
  ASSUME Typed, NEW t \in Thread, Establish(t)
  PROVE  Typed'
<1> DEFINE p == Top(t).port
           a == Top(t).admin
<1>1. stack[t] # <<>> /\ p \in UserPort /\ a \in Admin \cup {NoName}
  BY TopLegal, FrameFields DEF Establish, Calls, Top
<1>2. UNCHANGED <<batch, cmds>>
  BY DEF Establish
<1>3. CASE Return(t, <<>>) /\ UNCHANGED <<links, pool, fault, count, sound>>
  <2>1. <<>> \in Seq(Plain) /\ fault' \in Fault
    BY <1>3 DEF Typed, TypeOK
  <2>2. sound' \in BOOLEAN
    BY <1>3, Zenon DEF Typed, TypeOK
  <2> QED
    BY <1>1, <1>2, <1>3, <2>1, <2>2, QuietReturn
<1>4. ASSUME NEW why \in {"pool empty", "exit(2)"}, Crash(why), UNCHANGED count
      PROVE  Typed'
  <2>1. batch' \in Seq(Conn) /\ why \in Fault
    BY <1>2, <1>4 DEF Typed, TypeOK, Fault
  <2> QED
    BY <1>2, <1>4, <2>1, QuietCrash
<1>5. ASSUME fconn # <<>>, NEW c \in Conn,
             count' = [count EXCEPT !.open = @ + 1],
             GetConnection(c, p, a, "accept"),
             Return(t, <<[op |-> "publish", port |-> p, c |-> c]>>),
             UNCHANGED <<workconn, unfully, adm, member, work, fault>>
      PROVE  Typed'
  <2>1. p \in Port
    BY <1>1 DEF Port
  <2>2. /\ conn' \in [Conn -> Connection]
        /\ \A d \in Conn : conn'[d].port = conn[d].port \/ conn'[d].port = p
        /\ fconn' \in Seq(Conn) /\ leaked' \subseteq Conn /\ sound' \in BOOLEAN
    BY <1>1, <1>5, <2>1, GetConnectionTyped
  <2>3. count' \in [accept : Nat, command : Nat, open : Nat, fail : Nat]
    <3>1. count \in [accept : Nat, command : Nat, open : Nat, fail : Nat]
      BY DEF Typed, TypeOK
    <3> QED
      BY ONLY <1>5, <3>1
  <2>4. <<[op |-> "publish", port |-> p, c |-> c]>> \in Seq(Plain)
    BY <1>1, <1>5 DEF Frame, Plain
  <2>5. /\ stack' \in [Thread -> Seq(Frame)]
        /\ \A u \in Thread : stack'[u] \in Seq(Legal(u)')
    BY <1>1, <1>5, <2>2, <2>4, ReturnLegal
  <2> QED
    BY <1>2, <1>5, <2>2, <2>3, <2>5 DEF Typed, TypeOK
<1> QED
  <2>1. \/ Return(t, <<>>) /\ UNCHANGED <<links, pool, fault, count, sound>>
        \/ \E why \in {"pool empty", "exit(2)"} : Crash(why) /\ UNCHANGED count
        \/ /\ fconn # <<>>
           /\ \E c \in Conn :
                /\ count' = [count EXCEPT !.open = @ + 1]
                /\ GetConnection(c, p, a, "accept")
                /\ Return(t, <<[op |-> "publish", port |-> p, c |-> c]>>)
                /\ UNCHANGED <<workconn, unfully, adm, member, work, fault>>
    BY DEF Establish
  <2> QED
    BY <1>3, <1>4, <1>5, <2>1

LEMMA PublishTyped ==
  ASSUME Typed, NEW t \in Thread, Publish(t)
  PROVE  Typed'
<1> DEFINE f == Top(t)
<1>1. stack[t] # <<>> /\ f.c \in Conn /\ f.port \in UserPort
  BY TopLegal, FrameFields DEF Publish, Calls, Top
<1>2. PICK m \in Member :
        /\ member' = [member EXCEPT ![m] = [used |-> TRUE, adcptr |-> f.c, opened |-> <<>>]]
        /\ adm' = [adm EXCEPT ![f.port] = m]
  BY DEF Publish
<1>3. member' \in [Member -> [used : BOOLEAN, adcptr : Conn, opened : Seq(Conn)]]
  <2> DEFINE r == [used |-> TRUE, adcptr |-> f.c, opened |-> <<>>]
             R == [used : BOOLEAN, adcptr : Conn, opened : Seq(Conn)]
  <2>1. r \in R
    BY <1>1
  <2>2. member \in [Member -> R] /\ member' = [member EXCEPT ![m] = r]
    BY <1>2 DEF Typed, TypeOK
  <2> HIDE DEF r, R
  <2>3. member' \in [Member -> R]
    BY <2>1, <2>2
  <2> QED
    BY <2>3 DEF R
<1>4. adm' \in [UserPort -> Member \cup {NULL}]
  BY <1>2 DEF Typed, TypeOK
<1>5. Return(t, <<>>) /\ conn' = conn
  BY DEF Publish
<1>6. /\ stack' \in [Thread -> Seq(Frame)]
      /\ \A u \in Thread : stack'[u] \in Seq(Legal(u)')
  BY <1>1, <1>5, ReturnNothing
<1> QED
  BY <1>3, <1>4, <1>6 DEF Typed, TypeOK, Publish, pool

-----------------------------------------------------------------------------
(* The steps of the epoll loop. *)

LEMMA EpollWaitTyped ==
  ASSUME Typed, EpollWait
  PROVE  Typed'
<1>1. batch' \in Seq(Conn)
  <2>1. PICK n \in 1 .. MaxBatch : batch' \in [1 .. n -> Ready]
    BY DEF EpollWait
  <2>2. MaxBatch \in Nat
    BY BoundAssumption
  <2>3. n \in Nat /\ Ready \subseteq Conn
    BY <2>1, <2>2 DEF Ready
  <2> QED
    BY <2>1, <2>3
<1>2. stack \in [Thread -> Seq(Frame)] /\ \A u \in Thread : stack[u] \in Seq(Legal(u)')
  BY DEF Typed, TypeOK, Legal, EpollWait, links
<1> QED
  BY <1>1, <1>2 DEF Typed, TypeOK, EpollWait, links, pool

\* The object whose event is handled next.
LEMMA NextEventObject ==
  ASSUME Typed, NEW h, NextEvent(h)
  PROVE  /\ batch # <<>> /\ Head(batch) \in Conn /\ Tail(batch) \in Seq(Conn)
         /\ conn[Head(batch)] \in Connection /\ stack["main"] = <<>>
  BY DEF Typed, TypeOK, NextEvent

\* The handler rHandle gets by the port a client connected to.
HandleOf(p) == CASE p = "logic" -> "admin" [] p = "forward" -> "forward" [] OTHER -> "user"

LEMMA HandleOfType ==
  ASSUME NEW p
  PROVE  HandleOf(p) \in {"accept", "admin", "forward", "user"}
<1>1. CASE p = "logic"
  BY <1>1 DEF HandleOf
<1>2. CASE p = "forward"
  BY <1>2 DEF HandleOf
<1>3. CASE p \notin {"logic", "forward"}
  BY <1>3 DEF HandleOf
<1> QED
  BY <1>1, <1>2, <1>3

LEMMA AcceptTyped ==
  ASSUME Typed, Accept
  PROVE  Typed'
<1> DEFINE l == conn[Head(batch)]
<1>1. /\ batch # <<>> /\ Head(batch) \in Conn /\ Tail(batch) \in Seq(Conn)
      /\ l \in Connection /\ stack["main"] = <<>>
  BY NextEventObject DEF Accept
<1>2. cmds' = cmds /\ cmds' \in Seq([from : Name \cup {NoName}, cmd : Command])
  BY DEF Accept, Typed, TypeOK
<1>3. CASE Handles(<<>>) /\ UNCHANGED <<links, pool, fault, count, sound>>
  <2>1. <<>> \in Seq(Plain)
    OBVIOUS
  <2>2. count' \in [accept : Nat, command : Nat, open : Nat, fail : Nat]
    BY <1>3 DEF Typed, TypeOK
  <2>3. sound' \in BOOLEAN
    BY <1>3, Zenon DEF Typed, TypeOK
  <2> QED
    BY <1>1, <1>2, <1>3, <2>1, <2>2, <2>3, QuietHandler
<1>4. CASE Crash("pool empty") /\ UNCHANGED <<batch, count>>
  <2>1. batch' \in Seq(Conn) /\ "pool empty" \in Fault
    BY <1>4 DEF Typed, TypeOK, Fault
  <2> QED
    BY <1>2, <1>4, <2>1, QuietCrash
<1>5. ASSUME NEW peer \in Client(l.port), fconn # <<>>, NEW c \in Conn,
             count' = [count EXCEPT !.accept = @ + 1],
             GetConnection(c, l.port, NoName, HandleOf(l.port)),
             work' = work + 1,
             Handles(<<[op |-> "distribute", c |-> c, peer |-> peer]>>),
             UNCHANGED <<workconn, unfully, adm, member, fault>>
      PROVE  Typed'
  <2> DEFINE f == [op |-> "distribute", c |-> c, peer |-> peer]
  <2>1. l.port \in Port
    BY <1>1 DEF Connection
  <2>2. /\ conn' \in [Conn -> Connection] /\ conn'[c].port = l.port
        /\ fconn' \in Seq(Conn) /\ leaked' \subseteq Conn /\ sound' \in BOOLEAN
    BY <1>5, <2>1, HandleOfType, GetConnectionTyped
  <2>3. count' \in [accept : Nat, command : Nat, open : Nat, fail : Nat]
    <3>1. count \in [accept : Nat, command : Nat, open : Nat, fail : Nat]
      BY DEF Typed, TypeOK
    <3> QED
      BY ONLY <1>5, <3>1
  <2>4. peer \in Name /\ (l.port \notin UserPort => peer \in Admin)
    BY <1>5 DEF Client, Name
  <2>5. f \in Frame /\ f \in Legal("main")'
    BY <1>5, <2>2, <2>4 DEF Frame, Legal
  <2>6. <<f>> \in Seq(Frame) /\ <<f>> \in Seq(Legal("main")')
    BY <2>5
  <2>7. stack \in [Thread -> Seq(Frame)] /\ stack["pool"] \in Seq(Legal("pool")')
    <3>1. Legal("pool") = Legal("pool")'
      BY DEF Legal
    <3> QED
      BY <3>1 DEF Typed, TypeOK, Thread
  <2>8. stack' = [stack EXCEPT !["main"] = <<f>>] /\ batch' = Tail(batch)
    BY <1>5 DEF Handles
  <2> HIDE DEF f
  <2>9. /\ stack' \in [Thread -> Seq(Frame)]
        /\ \A u \in Thread : stack'[u] \in Seq(Legal(u)')
    BY <2>6, <2>7, <2>8 DEF Thread
  <2>10. work' \in Int
    BY <1>5 DEF Typed, TypeOK
  <2> QED
    BY <1>1, <1>2, <1>5, <2>2, <2>3, <2>8, <2>9, <2>10 DEF Typed, TypeOK
<1> QED
  <2>1. \/ Handles(<<>>) /\ UNCHANGED <<links, pool, fault, count, sound>>
        \/ \E peer \in Client(l.port) :
             \/ Crash("pool empty") /\ UNCHANGED <<batch, count>>
             \/ /\ fconn # <<>>
                /\ \E c \in Conn :
                     /\ count' = [count EXCEPT !.accept = @ + 1]
                     /\ GetConnection(c, l.port, NoName, HandleOf(l.port))
                     /\ work' = work + 1
                     /\ Handles(<<[op |-> "distribute", c |-> c, peer |-> peer]>>)
                     /\ UNCHANGED <<workconn, unfully, adm, member, fault>>
    BY DEF Accept, HandleOf
  <2> QED
    BY <1>3, <1>4, <1>5, <2>1

LEMMA AcceptFailsTyped ==
  ASSUME Typed, AcceptFails
  PROVE  Typed'
<1> DEFINE l == conn[Head(batch)]
<1>1. /\ batch # <<>> /\ l \in Connection /\ stack["main"] = <<>> /\ fconn # <<>>
  BY NextEventObject DEF AcceptFails
<1>2. PICK c \in Conn : /\ GetConnection(c, l.port, NoName, HandleOf(l.port))
                        /\ Handles(<<Call("shutdown", c)>>)
  BY DEF AcceptFails, HandleOf
<1>3. l.port \in Port
  BY <1>1 DEF Connection
<1>4. /\ conn' \in [Conn -> Connection]
      /\ fconn' \in Seq(Conn) /\ leaked' \subseteq Conn /\ sound' \in BOOLEAN
  BY <1>1, <1>2, <1>3, HandleOfType, GetConnectionTyped
<1>5. count' \in [accept : Nat, command : Nat, open : Nat, fail : Nat]
  <2>1. count \in [accept : Nat, command : Nat, open : Nat, fail : Nat]
        /\ count' = [count EXCEPT !.accept = count.accept + 1, !.fail = count.fail + 1]
    BY DEF Typed, TypeOK, AcceptFails
  <2>2. count.accept + 1 \in Nat /\ count.fail + 1 \in Nat
    BY <2>1
  <2> QED
    BY ONLY <2>1, <2>2
<1>6. <<Call("shutdown", c)>> \in Seq(Plain)
  BY PlainCall
<1>7. /\ stack' \in [Thread -> Seq(Frame)]
      /\ \A u \in Thread : stack'[u] \in Seq(Legal(u)')
      /\ batch' \in Seq(Conn)
  BY <1>1, <1>2, <1>6, HandlesLegal
<1> QED
  BY <1>4, <1>5, <1>7 DEF Typed, TypeOK, AcceptFails

LEMMA ReadFailsTyped ==
  ASSUME Typed, ReadFails
  PROVE  Typed'
<1>1. batch # <<>> /\ Head(batch) \in Conn
  BY NextEventObject DEF ReadFails
<1>2. <<Call("shutdown", Head(batch))>> \in Seq(Plain)
  BY <1>1, PlainCall
<1>3. /\ Handles(<<Call("shutdown", Head(batch))>>) /\ UNCHANGED <<links, pool, fault>>
      /\ cmds' \in Seq([from : Name \cup {NoName}, cmd : Command])
      /\ count' \in [accept : Nat, command : Nat, open : Nat, fail : Nat]
  BY DEF ReadFails, Typed, TypeOK
<1>4. sound' \in BOOLEAN
  BY Zenon DEF ReadFails
<1> QED
  BY <1>1, <1>2, <1>3, <1>4, QuietHandler

LEMMA ReadCommandTyped ==
  ASSUME Typed, ReadCommand
  PROVE  Typed'
<1> DEFINE c == Head(batch)
<1>1. batch # <<>> /\ conn[c] \in Connection
  BY NextEventObject DEF ReadCommand
<1>2. <<>> \in Seq(Plain) /\ Handles(<<>>) /\ UNCHANGED <<links, pool, fault>>
  BY DEF ReadCommand
<1>3. /\ cmds' \in Seq([from : Name \cup {NoName}, cmd : Command])
      /\ count' \in [accept : Nat, command : Nat, open : Nat, fail : Nat]
  <2> DEFINE S == [from : Name \cup {NoName}, cmd : Command]
  <2>1. cmds \in Seq(S) /\ count \in [accept : Nat, command : Nat, open : Nat, fail : Nat]
    BY DEF Typed, TypeOK
  <2>2. CASE UNCHANGED <<cmds, count>>
    BY <2>1, <2>2
  <2>3. ASSUME NEW cmd \in Command, count' = [count EXCEPT !.command = @ + 1],
               cmds' = Append(cmds, [from |-> conn[c].id, cmd |-> cmd])
        PROVE  /\ cmds' \in Seq(S)
               /\ count' \in [accept : Nat, command : Nat, open : Nat, fail : Nat]
    <3>1. [from |-> conn[c].id, cmd |-> cmd] \in S
      BY <1>1, <2>3 DEF Connection
    <3> HIDE DEF S
    <3>2. cmds' \in Seq(S)
      BY <2>1, <2>3, <3>1
    <3>3. count' \in [accept : Nat, command : Nat, open : Nat, fail : Nat]
      BY ONLY <2>1, <2>3, SMTT(20)
    <3> QED
      BY <3>2, <3>3
  <2> QED
    BY <2>2, <2>3 DEF ReadCommand
<1>4. sound' \in BOOLEAN
  BY Zenon DEF ReadCommand, Typed, TypeOK
<1> QED
  BY <1>1, <1>2, <1>3, <1>4, QuietHandler

LEMMA ReadMessageTyped ==
  ASSUME Typed, ReadMessage
  PROVE  Typed'
<1> DEFINE f == Find(conn[Head(batch)].id, [do |-> "send"])
<1>1. batch # <<>> /\ conn[Head(batch)] \in Connection
  BY NextEventObject DEF ReadMessage
<1>2. <<f>> \in Seq(Plain)
  <2>1. conn[Head(batch)].id \in Name \cup {NoName} /\ [do |-> "send"] \in Use
    BY <1>1 DEF Connection, Use
  <2>2. f \in Plain
    BY <2>1, PlainFind
  <2> QED
    BY <2>2
<1>3. /\ Handles(<<f>>) \/ Handles(<<>>)
      /\ UNCHANGED <<links, pool, fault>>
      /\ cmds' \in Seq([from : Name \cup {NoName}, cmd : Command])
      /\ count' \in [accept : Nat, command : Nat, open : Nat, fail : Nat]
      /\ <<>> \in Seq(Plain)
  BY DEF ReadMessage, Typed, TypeOK
<1>4. sound' \in BOOLEAN
  BY Zenon DEF ReadMessage, Typed, TypeOK
<1> HIDE DEF f
<1> QED
  BY <1>1, <1>2, <1>3, <1>4, QuietHandler

LEMMA DistributeAdminTyped ==
  ASSUME Typed, NEW t \in Thread, DistributeAdmin(t)
  PROVE  Typed'
<1> DEFINE c == Top(t).c
           a == Top(t).peer
           r == [conn[c] EXCEPT !.admin = a, !.id = a,
                                !.fwd = IF workconn[a] = Absent THEN c ELSE conn[c].fwd]
<1>1. stack[t] # <<>> /\ c \in Conn /\ a \in Admin /\ a \in Name
  <2>1. stack[t] # <<>> /\ Top(t).op = "distribute" /\ conn[c].port = "logic"
    BY DEF DistributeAdmin, Calls, Top
  <2>2. c \in Conn /\ Top(t) \in Legal(t)
    BY <2>1, TopLegal, FrameFields
  <2>3. "logic" \notin UserPort
    BY PortAssumption
  <2> QED
    BY <2>1, <2>2, <2>3 DEF Legal, Name
<1>2. conn' \in [Conn -> Connection] /\ \A d \in Conn : conn'[d].port = conn[d].port
  <2>1. conn \in [Conn -> Connection]
    BY DEF Typed, TypeOK
  <2>2. r \in Connection /\ r.port = conn[c].port
    BY <1>1, <2>1, ZenonT(30) DEF Connection
  <2>3. conn' = [conn EXCEPT ![c] = r]
    BY DEF DistributeAdmin
  <2> HIDE DEF r
  <2> QED
    BY <1>1, <2>1, <2>2, <2>3
<1>3. \E fs \in Seq(Plain) : Return(t, fs)
  <2>1. <<>> \in Seq(Plain) /\ <<Call("shutdown", c)>> \in Seq(Plain)
    BY <1>1, PlainCall
  <2> QED
    BY <2>1 DEF DistributeAdmin
<1>4. /\ stack' \in [Thread -> Seq(Frame)]
      /\ \A u \in Thread : stack'[u] \in Seq(Legal(u)')
  BY <1>1, <1>2, <1>3, ReturnLegal
<1>5. /\ workconn' \in [Name -> Conn \cup {Absent}]
      /\ unfully' \in [Admin -> Conn \cup {NULL, Absent}]
  BY <1>1 DEF DistributeAdmin, Typed, TypeOK
<1> QED
  BY <1>2, <1>4, <1>5 DEF Typed, TypeOK, DistributeAdmin, pool

LEMMA DistributeForwardTyped ==
  ASSUME Typed, NEW t \in Thread, DistributeForward(t)
  PROVE  Typed'
<1> DEFINE c == Top(t).c
           a == Top(t).peer
           r == [conn[c] EXCEPT !.admin = a]
<1>1. stack[t] # <<>> /\ c \in Conn /\ a \in Admin
  <2>1. stack[t] # <<>> /\ Top(t).op = "distribute" /\ conn[c].port = "forward"
    BY DEF DistributeForward, Calls, Top
  <2>2. c \in Conn /\ Top(t) \in Legal(t)
    BY <2>1, TopLegal, FrameFields
  <2>3. "forward" \notin UserPort
    BY PortAssumption
  <2> QED
    BY <2>1, <2>2, <2>3 DEF Legal
<1>2. conn' \in [Conn -> Connection] /\ \A d \in Conn : conn'[d].port = conn[d].port
  <2>1. conn \in [Conn -> Connection]
    BY DEF Typed, TypeOK
  <2>2. r \in Connection /\ r.port = conn[c].port
    BY <1>1, <2>1 DEF Connection
  <2>3. conn' = [conn EXCEPT ![c] = r]
    BY DEF DistributeForward
  <2> HIDE DEF r
  <2> QED
    BY <1>1, <2>1, <2>2, <2>3
<1>3. \E fs \in Seq(Plain) : Return(t, fs)
  <2>1. <<>> \in Seq(Plain) /\ <<Call("shutdown", c)>> \in Seq(Plain)
    BY <1>1, PlainCall
  <2> QED
    BY <2>1 DEF DistributeForward
<1>4. /\ stack' \in [Thread -> Seq(Frame)]
      /\ \A u \in Thread : stack'[u] \in Seq(Legal(u)')
  BY <1>1, <1>2, <1>3, ReturnLegal
<1>5. unfully' \in [Admin -> Conn \cup {NULL, Absent}]
  BY <1>1 DEF DistributeForward, Typed, TypeOK
<1> QED
  BY <1>2, <1>4, <1>5 DEF Typed, TypeOK, DistributeForward, pool

\* A connection that is given its administrator and id.
LEMMA NamedConnection ==
  ASSUME NEW r \in Connection, NEW a \in Admin \cup {NoName}, NEW u \in Name
  PROVE  /\ [r EXCEPT !.admin = a, !.id = u] \in Connection
         /\ [r EXCEPT !.admin = a, !.id = u].port = r.port
  BY DEF Connection

LEMMA DistributeUserTyped ==
  ASSUME Typed, NEW t \in Thread, DistributeUser(t)
  PROVE  Typed'
<1> DEFINE c == Top(t).c
           u == Top(t).peer
           m == adm[conn[c].port]
           a == conn[member[m].adcptr].admin
           f == unfully[a]
<1>1. stack[t] # <<>> /\ c \in Conn /\ u \in Name /\ conn[c].port \in UserPort
  BY TopLegal, FrameFields DEF DistributeUser, Calls, Top
<1>2. conn \in [Conn -> Connection]
  BY DEF Typed, TypeOK
<1>3. UNCHANGED <<batch, cmds, count>>
  BY DEF DistributeUser
<1>4. CASE m = NULL
  <2>1. Crash("unpublished port")
    BY <1>4 DEF DistributeUser
  <2>2. batch' \in Seq(Conn) /\ "unpublished port" \in Fault
    BY <1>3 DEF Typed, TypeOK, Fault
  <2> QED
    BY <1>3, <2>1, <2>2, QuietCrash
<1>5. CASE m # NULL
  <2>1. m \in Member /\ member[m].adcptr \in Conn /\ a \in Admin \cup {NoName}
    <3>1. m \in Member
      BY <1>1, <1>5 DEF Typed, TypeOK
    <3>2. member[m].adcptr \in Conn
      BY <3>1 DEF Typed, TypeOK
    <3> QED
      BY <1>2, <3>1, <3>2 DEF Connection
  <2>2. UNCHANGED <<workconn, adm, member, leaked, pool, fault, sound>>
    BY <1>5 DEF DistributeUser
  <2>3. conn' \in [Conn -> Connection] /\ \A d \in Conn : conn'[d].port = conn[d].port
    <3> DEFINE r == [conn[c] EXCEPT !.admin = a, !.id = u]
    <3>1. conn' = [conn EXCEPT ![c] = r]
      BY <1>5 DEF DistributeUser
    <3>2. r \in Connection /\ r.port = conn[c].port
      BY <1>1, <1>2, <2>1, NamedConnection, ZenonT(30)
    <3> HIDE DEF r
    <3> QED
      BY <1>1, <1>2, <3>1, <3>2
  <2>4. CASE a = NoName \/ f \in {Absent, NULL}
    <3>1. Return(t, <<Call("shutdown", c)>>) /\ UNCHANGED unfully
      BY <1>5, <2>4 DEF DistributeUser
    <3>2. <<Call("shutdown", c)>> \in Seq(Plain)
      BY <1>1, PlainCall
    <3>3. /\ stack' \in [Thread -> Seq(Frame)]
          /\ \A v \in Thread : stack'[v] \in Seq(Legal(v)')
      BY <1>1, <2>3, <3>1, <3>2, ReturnLegal
    <3> QED
      BY <1>3, <2>2, <2>3, <3>1, <3>3 DEF Typed, TypeOK, pool
  <2>5. CASE ~ (a = NoName \/ f \in {Absent, NULL})
    <3> DEFINE l == [op |-> "link", c |-> c, peer |-> u, fwd |-> f]
    <3>1. a \in Admin /\ f \in Conn
      BY <2>1, <2>5 DEF Typed, TypeOK
    <3>2. unfully' = [unfully EXCEPT ![a] = NULL] /\ Return(t, <<l, Call("notify", c)>>)
      BY <1>5, <2>5 DEF DistributeUser
    <3>3. unfully' \in [Admin -> Conn \cup {NULL, Absent}]
      BY <3>1, <3>2 DEF Typed, TypeOK
    <3>4. t = "main"
      BY <1>1, TopLegal DEF Legal, DistributeUser, Calls, Top
    <3>5. l \in Legal(t)' /\ Call("notify", c) \in Legal(t)'
      <4>1. l \in Frame /\ l.op = "link" /\ l.c = c
        BY <1>1, <3>1 DEF Frame
      <4>2. conn'[l.c].port \in UserPort
        BY <1>1, <2>3, <4>1
      <4> HIDE DEF l
      <4>3. l \in Legal(t)'
        BY <3>4, <4>1, <4>2 DEF Legal
      <4> QED
        BY <1>1, <4>3, PlainCall DEF Plain, Legal
    <3> HIDE DEF l
    <3>6. <<l, Call("notify", c)>> \in Seq(Legal(t)')
      <4> HIDE DEF Legal
      <4> QED
        BY <3>5
    <3>7. /\ stack' \in [Thread -> Seq(Frame)]
          /\ \A v \in Thread : stack'[v] \in Seq(Legal(v)')
      BY <1>1, <2>3, <3>2, <3>6, LegalReturn
    <3> QED
      BY <1>3, <2>2, <2>3, <3>3, <3>7 DEF Typed, TypeOK, pool
  <2> QED
    BY <2>4, <2>5
<1> QED
  BY <1>4, <1>5

LEMMA LinkTyped ==
  ASSUME Typed, NEW t \in Thread, Link(t)
  PROVE  Typed'
<1> DEFINE c == Top(t).c
           u == Top(t).peer
           f == Top(t).fwd
           m == adm[conn[c].port]
<1>1. stack[t] # <<>> /\ c \in Conn /\ u \in Name /\ f \in Conn
  BY TopLegal, FrameFields DEF Link, Calls, Top
<1>2. conn \in [Conn -> Connection] /\ conn[c].port \in UserPort
  <2>1. Top(t) \in Legal(t) /\ Top(t).op = "link"
    BY <1>1, TopLegal DEF Link, Calls, Top
  <2> QED
    BY <2>1 DEF Typed, TypeOK, Legal
<1>3. UNCHANGED <<batch, cmds, count>>
  BY DEF Link
<1>4. CASE m = NULL
  <2>1. Crash("unpublished port")
    BY <1>4 DEF Link
  <2>2. batch' \in Seq(Conn) /\ "unpublished port" \in Fault
    BY <1>3 DEF Typed, TypeOK, Fault
  <2> QED
    BY <1>3, <2>1, <2>2, QuietCrash
<1>5. CASE m # NULL
  <2>1. m \in Member
    BY <1>2, <1>5 DEF Typed, TypeOK
  <2>2. /\ conn' = [conn EXCEPT ![f].id = u, ![c].fwd = f]
        /\ workconn' = [workconn EXCEPT ![u] = c]
        /\ member' = [member EXCEPT ![m].opened = Append(@, c)]
        /\ Return(t, <<>>)
        /\ UNCHANGED <<unfully, adm, leaked, pool, fault>>
    BY <1>5 DEF Link
  <2>3. conn' \in [Conn -> Connection] /\ \A d \in Conn : conn'[d].port = conn[d].port
    <3> DEFINE r1 == [conn[f] EXCEPT !.id = u]
               k1 == [conn EXCEPT ![f] = r1]
               r2 == [k1[c] EXCEPT !.fwd = f]
               k2 == [k1 EXCEPT ![c] = r2]
    <3>1. conn' = k2
      BY <1>1, <1>2, <2>2
    <3>2. r1 \in Connection /\ r1.port = conn[f].port
      BY <1>1, <1>2 DEF Connection
    <3> HIDE DEF r1
    <3>3. k1 \in [Conn -> Connection] /\ \A d \in Conn : k1[d].port = conn[d].port
      BY <1>1, <1>2, <3>2
    <3> HIDE DEF k1
    <3>4. r2 \in Connection /\ r2.port = k1[c].port
      BY <1>1, <3>3 DEF Connection
    <3> HIDE DEF r2
    <3>5. k2 \in [Conn -> Connection] /\ \A d \in Conn : k2[d].port = conn[d].port
      BY <1>1, <3>3, <3>4
    <3> QED
      BY <3>1, <3>5
  <2>4. workconn' \in [Name -> Conn \cup {Absent}]
    BY <1>1, <2>2 DEF Typed, TypeOK
  <2>5. member' \in [Member -> [used : BOOLEAN, adcptr : Conn, opened : Seq(Conn)]]
    <3> DEFINE R == [used : BOOLEAN, adcptr : Conn, opened : Seq(Conn)]
               o == Append(member[m].opened, c)
               n == [member[m] EXCEPT !.opened = o]
    <3>1. member \in [Member -> R] /\ member[m] \in R
      BY <2>1 DEF Typed, TypeOK
    <3>2. o \in Seq(Conn)
      BY <1>1, <3>1
    <3>3. member' = [member EXCEPT ![m] = n]
      BY <2>2
    <3> HIDE DEF o
    <3>4. n \in R
      BY ONLY <3>1, <3>2
    <3> HIDE DEF n, R
    <3>5. member' \in [Member -> R]
      BY <3>1, <3>3, <3>4
    <3> QED
      BY <3>5 DEF R
  <2>6. /\ stack' \in [Thread -> Seq(Frame)]
        /\ \A v \in Thread : stack'[v] \in Seq(Legal(v)')
    <3>1. <<>> \in Seq(Plain)
      OBVIOUS
    <3> QED
      BY <1>1, <2>2, <2>3, <3>1, ReturnLegal
  <2>7. sound' \in BOOLEAN
    BY <1>5, Zenon DEF Link, Typed, TypeOK
  <2> QED
    BY <1>3, <2>2, <2>3, <2>4, <2>5, <2>6, <2>7 DEF Typed, TypeOK, pool
<1> QED
  BY <1>4, <1>5

LEMMA NotifyAdminTyped ==
  ASSUME Typed, NEW t \in Thread, NotifyAdmin(t)
  PROVE  Typed'
<1> DEFINE a == conn[Top(t).c].admin
           f == Find(conn[workconn[a]].id, [do |-> "send"])
<1>1. stack[t] # <<>> /\ Top(t).c \in Conn
  BY TopLegal, FrameFields DEF NotifyAdmin, Calls, Top
<1>2. UNCHANGED <<batch, cmds, count>>
  BY DEF NotifyAdmin
<1>3. CASE a = NoName \/ workconn[a] = Absent
  <2>1. Crash("administrator gone")
    BY <1>3 DEF NotifyAdmin
  <2>2. batch' \in Seq(Conn) /\ "administrator gone" \in Fault
    BY <1>2 DEF Typed, TypeOK, Fault
  <2> QED
    BY <1>2, <2>1, <2>2, QuietCrash
<1>4. CASE ~ (a = NoName \/ workconn[a] = Absent)
  <2>1. /\ Return(t, <<f>>) /\ UNCHANGED <<links, pool>> /\ UNCHANGED sound
        /\ fault' \in Fault
    BY <1>4 DEF NotifyAdmin, Typed, TypeOK
  <2>2. workconn[a] \in Conn
    <3>1. a \in Admin
      BY <1>1, <1>4 DEF Typed, TypeOK, Connection
    <3> QED
      BY <1>4, <3>1 DEF Typed, TypeOK, Name
  <2>3. <<f>> \in Seq(Plain)
    <3>1. conn[workconn[a]].id \in Name \cup {NoName} /\ [do |-> "send"] \in Use
      BY <2>2 DEF Typed, TypeOK, Connection, Use
    <3>2. f \in Plain
      BY <3>1, PlainFind
    <3> QED
      BY <3>2
  <2>4. sound' \in BOOLEAN
    BY <2>1, Zenon DEF Typed, TypeOK
  <2> HIDE DEF f
  <2> QED
    BY <1>1, <1>2, <2>1, <2>3, <2>4, QuietReturn
<1> QED
  BY <1>3, <1>4

-----------------------------------------------------------------------------
(* Types. *)

LEMMA ReleaseStepTyped ==
  ASSUME Typed, NEW t \in Thread, ReleaseStep(t)
  PROVE  Typed'
  BY ShutdownTyped, CloseFdTyped, FreeConnectionTyped, FindEntryTyped, IndexEntryTyped,
     ClosePortsTyped, CloseEachTyped, ClosePortTyped, DrainTyped, PopUserTyped,
     ErasePortTyped DEF ReleaseStep

LEMMA StepTyped ==
  ASSUME Typed, [Next]_vars
  PROVE  Typed'
<1>1. CASE UNCHANGED vars
  BY <1>1 DEF Typed, TypeOK, Legal, vars, links, pool
<1>2. CASE EpollWait
  BY <1>2, EpollWaitTyped
<1>3. CASE Event
  BY <1>3, AcceptTyped, AcceptFailsTyped, ReadFailsTyped, ReadCommandTyped,
     ReadMessageTyped DEF Event
<1>4. CASE LoopStep
  BY <1>4, DistributeAdminTyped, DistributeForwardTyped, DistributeUserTyped,
     LinkTyped, NotifyAdminTyped, ReleaseStepTyped DEF LoopStep, Thread
<1>5. CASE TakeCommand
  BY <1>5, TakeCommandTyped
<1>6. CASE CommandStep
  BY <1>6, DispatchTyped, ReplyTyped, EstablishTyped, PublishTyped, ReleaseStepTyped
     DEF CommandStep, Thread
<1> QED
  BY <1>1, <1>2, <1>3, <1>4, <1>5, <1>6 DEF Next

LEMMA AlwaysTyped == Spec => []Typed
<1>1. Init => Typed
  BY InitTyped
<1>2. Typed /\ [Next]_vars => Typed'
  BY StepTyped
<1> QED
  BY <1>1, <1>2, PTL DEF Spec

\* Every variable of the pool, its tables and the two threads keeps its type,
\* for every size of the pool and every set of addresses and ports.
THEOREM TypeCorrect == Spec => []TypeOK
<1>1. Typed => TypeOK
  BY DEF Typed
<1> QED
  BY <1>1, AlwaysTyped, PTL

-----------------------------------------------------------------------------
(* What m_connection_work counts. *)

\* A step that leaves the pool and two of the counters alone.
LEMMA SamePool ==
  ASSUME WorkConserved, UNCHANGED pool, count'.open = count.open, count'.fail = count.fail
  PROVE  WorkConserved'
  BY DEF WorkConserved, pool

LEMMA CrashConserves ==
  ASSUME WorkConserved, NEW why, Crash(why), UNCHANGED count
  PROVE  WorkConserved'
  BY SamePool DEF Crash

LEMMA FreeConnectionConserves ==
  ASSUME Typed, WorkConserved, NEW t \in Thread, FreeConnection(t)
  PROVE  WorkConserved'
<1>1. Top(t).c \in Conn
  BY TopLegal, FrameFields DEF FreeConnection, Calls, Top
<1>2. fconn \in Seq(Conn) /\ work \in Int
  BY DEF Typed, TypeOK
<1>3. fconn' = Append(fconn, Top(t).c) /\ work' = work - 1 /\ count' = count
  BY DEF FreeConnection
<1>4. Len(fconn') = Len(fconn) + 1 /\ Len(fconn) \in Nat
  BY <1>1, <1>2, <1>3
<1>5. count.open \in Nat /\ count.fail \in Nat
  BY DEF Typed, TypeOK
<1> QED
  BY <1>2, <1>3, <1>4, <1>5 DEF WorkConserved

\* An object taken from the pool is one less in the free list.
LEMMA GetConnectionCounts ==
  ASSUME Typed, NEW c \in Conn, NEW p, NEW a, NEW h, fconn # <<>>, GetConnection(c, p, a, h)
  PROVE  Len(fconn') = Len(fconn) - 1 /\ Len(fconn) \in Nat
<1>1. fconn \in Seq(Conn) /\ fconn' = Tail(fconn)
  BY DEF Typed, TypeOK, GetConnection
<1> QED
  BY <1>1

\* The counters of opened ports and of failed registrations.
LEMMA CountTypes ==
  ASSUME Typed
  PROVE  /\ count \in [accept : Nat, command : Nat, open : Nat, fail : Nat]
         /\ count.open \in Nat /\ count.fail \in Nat /\ work \in Int
  BY DEF Typed, TypeOK

LEMMA EstablishConserves ==
  ASSUME Typed, WorkConserved, NEW t \in Thread, Establish(t)
  PROVE  WorkConserved'
<1>1. CASE UNCHANGED <<pool, count>>
  BY <1>1, SamePool
<1>2. CASE \E why \in {"pool empty", "exit(2)"} : Crash(why) /\ UNCHANGED count
  BY <1>2, CrashConserves
<1>3. ASSUME fconn # <<>>, NEW c \in Conn, count' = [count EXCEPT !.open = @ + 1],
             GetConnection(c, Top(t).port, Top(t).admin, "accept"), UNCHANGED work
      PROVE  WorkConserved'
  <2>1. Len(fconn') = Len(fconn) - 1 /\ Len(fconn) \in Nat
    BY <1>3, GetConnectionCounts
  <2>2. count'.open = count.open + 1 /\ count'.fail = count.fail
    BY <1>3, CountTypes
  <2> QED
    BY <1>3, <2>1, <2>2, CountTypes DEF WorkConserved
<1>4. \/ UNCHANGED <<pool, count>>
      \/ \E why \in {"pool empty", "exit(2)"} : Crash(why) /\ UNCHANGED count
      \/ /\ fconn # <<>>
         /\ \E c \in Conn : /\ count' = [count EXCEPT !.open = @ + 1]
                            /\ GetConnection(c, Top(t).port, Top(t).admin, "accept")
                            /\ UNCHANGED work
  BY DEF Establish
<1> QED
  BY <1>1, <1>2, <1>3, <1>4

LEMMA AcceptConserves ==
  ASSUME Typed, WorkConserved, Accept
  PROVE  WorkConserved'
<1> DEFINE l == conn[Head(batch)]
<1>1. CASE UNCHANGED <<pool, count>>
  BY <1>1, SamePool
<1>2. CASE Crash("pool empty") /\ UNCHANGED count
  BY <1>2, CrashConserves
<1>3. ASSUME fconn # <<>>, NEW c \in Conn, count' = [count EXCEPT !.accept = @ + 1],
             GetConnection(c, l.port, NoName, HandleOf(l.port)), work' = work + 1
      PROVE  WorkConserved'
  <2>1. Len(fconn') = Len(fconn) - 1 /\ Len(fconn) \in Nat
    BY <1>3, GetConnectionCounts
  <2>2. count'.open = count.open /\ count'.fail = count.fail
    BY <1>3, CountTypes
  <2> QED
    BY <1>3, <2>1, <2>2, CountTypes DEF WorkConserved
<1>4. \/ UNCHANGED <<pool, count>>
      \/ Crash("pool empty") /\ UNCHANGED count
      \/ /\ fconn # <<>>
         /\ \E c \in Conn : /\ count' = [count EXCEPT !.accept = @ + 1]
                            /\ GetConnection(c, l.port, NoName, HandleOf(l.port))
                            /\ work' = work + 1
  BY DEF Accept, HandleOf
<1> QED
  BY <1>1, <1>2, <1>3, <1>4

LEMMA AcceptFailsConserves ==
  ASSUME Typed, WorkConserved, AcceptFails
  PROVE  WorkConserved'
<1> DEFINE l == conn[Head(batch)]
<1>1. PICK c \in Conn : GetConnection(c, l.port, NoName, HandleOf(l.port))
  BY DEF AcceptFails, HandleOf
<1>2. Len(fconn') = Len(fconn) - 1 /\ Len(fconn) \in Nat
  BY <1>1, GetConnectionCounts DEF AcceptFails
<1>3. count'.open = count.open /\ count'.fail = count.fail + 1
  <2>1. count' = [count EXCEPT !.accept = count.accept + 1, !.fail = count.fail + 1]
    BY DEF AcceptFails
  <2> QED
    BY <2>1, CountTypes
<1>4. work' = work
  BY DEF AcceptFails
<1> QED
  BY <1>2, <1>3, <1>4, CountTypes DEF WorkConserved

LEMMA ReleaseStepConserves ==
  ASSUME Typed, WorkConserved, NEW t \in Thread, ReleaseStep(t)
  PROVE  WorkConserved'
<1>1. CASE FreeConnection(t)
  BY <1>1, FreeConnectionConserves
<1>2. CASE Shutdown(t) \/ IndexEntry(t) \/ ClosePort(t) \/ PopUser(t)
  BY <1>2, SamePool DEF Shutdown, IndexEntry, ClosePort, PopUser, Crash
<1>3. CASE \/ CloseFd(t) \/ FindEntry(t) \/ ClosePorts(t) \/ CloseEach(t) \/ Drain(t)
           \/ ErasePort(t)
  BY <1>3, SamePool DEF CloseFd, FindEntry, ClosePorts, CloseEach, Drain, ErasePort
<1> QED
  BY <1>1, <1>2, <1>3 DEF ReleaseStep

LEMMA StepConserves ==
  ASSUME Typed, WorkConserved, [Next]_vars
  PROVE  WorkConserved'
<1>1. CASE UNCHANGED vars
  BY <1>1, SamePool DEF vars
<1>2. CASE EpollWait \/ TakeCommand \/ ReadFails \/ ReadMessage
  BY <1>2, SamePool DEF EpollWait, TakeCommand, ReadFails, ReadMessage
<1>3. CASE ReadCommand
  <2>1. UNCHANGED pool /\ count'.open = count.open /\ count'.fail = count.fail
    BY <1>3, CountTypes DEF ReadCommand
  <2> QED
    BY <2>1, SamePool
<1>4. CASE Accept \/ AcceptFails
  BY <1>4, AcceptConserves, AcceptFailsConserves
<1>5. CASE LoopStep
  <2>1. CASE DistributeAdmin("main") \/ DistributeForward("main")
    BY <2>1, SamePool DEF DistributeAdmin, DistributeForward
  <2>2. CASE DistributeUser("main") \/ Link("main") \/ NotifyAdmin("main")
    BY <2>2, SamePool DEF DistributeUser, Link, NotifyAdmin, Crash
  <2> QED
    BY <1>5, <2>1, <2>2, ReleaseStepConserves DEF LoopStep, Thread
<1>6. CASE CommandStep
  <2>1. CASE Dispatch("pool") \/ Reply("pool") \/ Publish("pool")
    BY <2>1, SamePool DEF Dispatch, Reply, Publish
  <2> QED
    BY <1>6, <2>1, EstablishConserves, ReleaseStepConserves DEF CommandStep, Thread
<1> QED
  BY <1>1, <1>2, <1>3, <1>4, <1>5, <1>6 DEF Next, Event

LEMMA InitConserves ==
  ASSUME Init
  PROVE  WorkConserved
<1>1. WorkConnections - 2 \in Nat
  BY PoolAssumption
<1>2. Len(fconn) = WorkConnections - 2
  BY <1>1 DEF Init
<1>3. work = 0 /\ count.open = 0 /\ count.fail = 0
  BY DEF Init
<1> QED
  BY <1>1, <1>2, <1>3 DEF WorkConserved

\* m_connection_work and the free list add up with the ports opened and the
\* registrations failed, whatever was released twice meanwhile.
THEOREM WorkIsConserved == Spec => []WorkConserved
<1>1. Init => WorkConserved
  BY InitConserves
<1>2. Typed /\ WorkConserved /\ [Next]_vars => WorkConserved'
  BY StepConserves
<1> QED
  BY <1>1, <1>2, AlwaysTyped, PTL DEF Spec

\* The limit of Event_accept refuses nobody, however many clients come.
THEOREM NeverBusy == Spec => []BusyNeverRefuses
<1>1. Typed /\ WorkConserved => BusyNeverRefuses
  <2>1. SUFFICES ASSUME Typed, WorkConserved
                 PROVE  BusyNeverRefuses
    OBVIOUS
  <2>2. Len(fconn) \in Nat
    BY <2>1 DEF Typed, TypeOK
  <2> QED
    BY <2>1, <2>2, CountTypes, PoolAssumption DEF WorkConserved, BusyNeverRefuses
<1> QED
  BY <1>1, AlwaysTyped, WorkIsConserved, PTL

=============================================================================
