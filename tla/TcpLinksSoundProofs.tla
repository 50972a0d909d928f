------------------------ MODULE TcpLinksSoundProofs ------------------------
(***************************************************************************)
(* The free list, m_workconn and m_admin of TcpLinks for every size of the *)
(* pool and all sets of administrators, users and ports: until a call      *)
(* releases an object twice or follows a pointer to an object that was no  *)
(* longer what the pointer was for, the three are exact.                   *)
(*                                                                         *)
(* The inductive invariant follows an object through the pool.  Taken from *)
(* the free list it is young: one call has it in hands and no table leads  *)
(* to it.  Released, it is closed before it is given back, in the same     *)
(* call, and a listener is released only below the erasing of its port.    *)
(***************************************************************************)
EXTENDS TcpLinksProofs

-----------------------------------------------------------------------------
(* The inductive invariant. *)

\* The calls that release an object, and those that have a new one in hands.
Releasing == {"shutdown", "close", "free"}
YoungOp   == {"distribute", "link", "publish"}

Erase(p) == [op |-> "erase", port |-> p]

\* A free list names an object once.
Distinct == \A i, j \in 1 .. Len(fconn) : fconn[i] = fconn[j] => i = j

\* An object in the free list is closed, and no call is about to add it.
FreeIdle == \A c \in Entries(fconn) : ~ conn[c].fd /\ ~ Released(c)

\* One call at most is about to give an object back.
FreedOnce ==
  \A t, u \in Thread : \A i \in 1 .. Len(stack[t]) : \A j \in 1 .. Len(stack[u]) :
    stack[t][i].op = "free" /\ stack[u][j] = stack[t][i] => t = u /\ i = j

\* In a stack s over the objects K, an object is closed before it is given back.
ClosedFirst(s, K) ==
  \A i \in 1 .. Len(s) : s[i].op = "free" =>
    IF i = 1 THEN ~ K[s[i].c].fd ELSE s[i - 1] = Call("close", s[i].c)

\* A call that has a young object in hands is on top of its stack.
YoungOnTop(t, s) ==
  \A i \in 1 .. Len(s) : s[i].op \in YoungOp => i = 1 /\ (s[i].op = "publish" => t = "pool")

\* What Close_Socket calls before it erases its port, directly or not: no
\* administrator's connection is shut down, no other port is closed.
Quick(f, K) == \/ f.op \in {"close", "free", "drain", "pop"}
               \/ f.op = "shutdown" /\ K[f.c].port # "logic"

UnderErase(s, K) ==
  \A i, j \in 1 .. Len(s) : i < j /\ s[j].op = "erase" => Quick(s[i], K)

\* A listener is shut down by the Close_Socket that then erases its port.
Doomed(s, K) ==
  \A i \in 1 .. Len(s) : s[i].op \in {"shutdown", "close"} /\ K[s[i].c].handle = "accept" =>
    \E j \in 1 .. Len(s) : j > i /\ s[j] = Erase(K[s[i].c].port)

Ordered(t, s, K) == ClosedFirst(s, K) /\ YoungOnTop(t, s) /\ UnderErase(s, K) /\ Doomed(s, K)

Stacked == \A t \in Thread : Ordered(t, stack[t], conn)

\* No table leads to c and no call releases it.
Young(c) ==
  /\ c \notin Entries(fconn)
  /\ \A t \in Thread : \A f \in Frames(t) : f.op \in Releasing => f.c # c
  /\ \A k \in Name : workconn[k] # c

\* What the calls that have a young object in hands know of it.
NewUser ==
  \A f \in Frames("main") :
    /\ f.op = "distribute" => Young(f.c) /\ conn[f.c].handle # "accept" /\ conn[f.c].id = NoName
    /\ f.op = "link" => Young(f.c) /\ conn[f.c].handle # "accept"
                        /\ conn[f.c].id = f.peer /\ conn[f.c].admin # NoName

NewListener ==
  \A f \in Frames("pool") : f.op = "publish" =>
    /\ Young(f.c) /\ conn[f.c].fd /\ conn[f.c].handle = "accept" /\ conn[f.c].port = f.port
    /\ adm[f.port] # NULL /\ member[adm[f.port]].adcptr = f.c => Erase(f.port) \in Frames("main")

\* A listener has no id, the two of the process no administrator either; only
\* administrators' connections and linked users have a forwardConn.
FieldsAgree ==
  \A c \in Conn :
    /\ conn[c].handle = "accept" =>
         conn[c].id = NoName /\ (conn[c].port \notin UserPort => conn[c].admin = NoName)
    /\ conn[c].fwd # NULL =>
         conn[c].port = "logic" \/ (conn[c].port \in UserPort /\ conn[c].id # NoName)

WorkTable ==
  \A k \in Name : workconn[k] # Absent =>
    /\ conn[workconn[k]].id = k
    /\ conn[workconn[k]].port # "forward"
    /\ workconn[k] \notin Entries(fconn)

ErasePending(p) == \E t \in Thread : Erase(p) \in Frames(t)

Listens(c, p) == conn[c].fd /\ conn[c].handle = "accept" /\ conn[c].port = p

PortTable ==
  \A p \in UserPort : adm[p] # NULL =>
    member[adm[p]].used /\ (Listens(member[adm[p]].adcptr, p) \/ ErasePending(p))

Good == /\ Distinct /\ FreeIdle /\ FreedOnce /\ Stacked
        /\ NewUser /\ NewListener /\ FieldsAgree /\ WorkTable /\ PortTable

-----------------------------------------------------------------------------
(* Stacks. *)

\* The calls below the one on top.
Below(s) == IF s = <<>> THEN <<>> ELSE Tail(s)

\* The call on top of thread t, if there is one, leaves the calls fs.
Pushes(t, fs) == stack' = [stack EXCEPT ![t] = fs \o Below(stack[t])]

\* Where the calls of a stack z are when it is s after the one on top of s has
\* left the n calls fs.
Placed(z, fs, s, n) ==
  /\ \A i \in 1 .. Len(z) :
       \/ i \in 1 .. n /\ z[i] = fs[i]
       \/ i > n /\ i - n + 1 \in 2 .. Len(s) /\ z[i] = s[i - n + 1]
  /\ \A i \in 1 .. n : i \in 1 .. Len(z) /\ z[i] = fs[i]
  /\ \A k \in 2 .. Len(s) : k + n - 1 \in 1 .. Len(z) /\ z[k + n - 1] = s[k]

LEMMA Places ==
  ASSUME NEW F, NEW s \in Seq(F), NEW fs \in Seq(F)
  PROVE  fs \o Below(s) \in Seq(F) /\ Placed(fs \o Below(s), fs, s, Len(fs))
<1>1. CASE s = <<>>
  BY <1>1 DEF Below, Placed
<1>2. CASE s # <<>>
  <2>1. Below(s) = Tail(s)
    BY <1>2 DEF Below
  <2> QED
    BY <1>2, <2>1 DEF Placed
<1> QED
  BY <1>1, <1>2

\* The objects of the pending releases in s look the same in K and L, but may
\* have been closed.
Keeps(s, K, L) ==
  \A i \in 1 .. Len(s) : s[i].op \in Releasing =>
    /\ L[s[i].c].port = K[s[i].c].port /\ L[s[i].c].handle = K[s[i].c].handle
    /\ L[s[i].c].fd => K[s[i].c].fd

LEMMA OrderedKept ==
  ASSUME NEW t, NEW s, NEW K, NEW L, Ordered(t, s, K), Keeps(s, K, L)
  PROVE  Ordered(t, s, L)
<1>1. ClosedFirst(s, L)
  BY DEF Ordered, ClosedFirst, Keeps, Releasing
<1>2. UnderErase(s, L)
  BY DEF Ordered, UnderErase, Quick, Keeps, Releasing
<1>3. Doomed(s, L)
  BY DEF Ordered, Doomed, Keeps, Releasing
<1> QED
  BY <1>1, <1>2, <1>3 DEF Ordered

\* What the calls fs must be for the stack to stay in order.
Fits(t, fs, s, K) ==
  /\ ClosedFirst(fs, K) /\ YoungOnTop(t, fs) /\ UnderErase(fs, K)
  /\ 2 \in 1 .. Len(s) /\ s[2].op = "free" => fs = <<>> /\ ~ K[s[2].c].fd
  /\ (\E j \in 2 .. Len(s) : s[j].op = "erase") => \A i \in 1 .. Len(fs) : Quick(fs[i], K)
  /\ \A i \in 1 .. Len(fs) : fs[i].op \in {"shutdown", "close"} /\ K[fs[i].c].handle = "accept" =>
       \/ \E j \in 1 .. Len(fs) : j > i /\ fs[j] = Erase(K[fs[i].c].port)
       \/ \E j \in 2 .. Len(s) : s[j] = Erase(K[fs[i].c].port)

LEMMA OrderedPushed ==
  ASSUME NEW t, NEW F, NEW s \in Seq(F), NEW fs \in Seq(F), NEW z, z = fs \o Below(s), NEW K,
         Ordered(t, s, K), Fits(t, fs, s, K)
  PROVE  Ordered(t, z, K)
<1> DEFINE n == Len(fs)
<1>1. n \in Nat /\ Len(s) \in Nat /\ z \in Seq(F) /\ Len(z) \in Nat
  <2>1. z \in Seq(F)
    BY Places
  <2> QED
    BY <2>1
<1>0. Placed(z, fs, s, n)
  BY Places
<1>2. \A i \in 1 .. Len(z) :
        \/ i \in 1 .. n /\ z[i] = fs[i]
        \/ i > n /\ i - n + 1 \in 2 .. Len(s) /\ z[i] = s[i - n + 1]
  BY <1>0 DEF Placed
<1>3. \A i \in 1 .. n : i \in 1 .. Len(z) /\ z[i] = fs[i]
  BY <1>0 DEF Placed
<1>4. \A k \in 2 .. Len(s) : k + n - 1 \in 1 .. Len(z) /\ z[k + n - 1] = s[k]
  BY <1>0 DEF Placed
<1>5. fs = <<>> => n = 0
  OBVIOUS
<1> HIDE DEF n
<1>6. ClosedFirst(z, K)
  <2>1. SUFFICES ASSUME NEW i \in 1 .. Len(z), z[i].op = "free"
                 PROVE  IF i = 1 THEN ~ K[z[i].c].fd ELSE z[i - 1] = Call("close", z[i].c)
    BY DEF ClosedFirst
  <2>2. CASE i \in 1 .. n /\ z[i] = fs[i]
    <3>1. ClosedFirst(fs, K) /\ Len(fs) = n
      BY DEF Fits, n
    <3>2. IF i = 1 THEN ~ K[z[i].c].fd ELSE fs[i - 1] = Call("close", z[i].c)
      BY <2>1, <2>2, <3>1 DEF ClosedFirst
    <3>3. i # 1 => z[i - 1] = fs[i - 1]
      <4>1. i # 1 => i - 1 \in 1 .. n
        BY <2>2, <1>1
      <4> QED
        BY <4>1, <1>3
    <3> QED
      BY <3>2, <3>3
  <2>3. CASE i > n /\ i - n + 1 \in 2 .. Len(s) /\ z[i] = s[i - n + 1]
    <3> DEFINE k == i - n + 1
    <3>1. k \in 2 .. Len(s) /\ z[i] = s[k] /\ s[k].op = "free" /\ k \in Int /\ i = k + n - 1
      BY <2>1, <2>3, <1>1
    <3> HIDE DEF k
    <3>2. CASE k = 2
      <4>1. 2 \in 1 .. Len(s) /\ s[2].op = "free"
        BY <3>1, <3>2, <1>1
      <4>2. fs = <<>> /\ ~ K[s[2].c].fd
        BY <4>1 DEF Fits
      <4>3. i = 1
        BY <4>2, <1>5, <3>1, <3>2
      <4> QED
        BY <4>2, <4>3, <3>1, <3>2
    <3>3. CASE k # 2
      <4>1. k \in 1 .. Len(s) /\ k # 1 /\ k - 1 \in 2 .. Len(s)
        BY <3>1, <3>3, <1>1
      <4>2. s[k - 1] = Call("close", s[k].c)
        BY <4>1, <3>1 DEF Ordered, ClosedFirst
      <4>3. z[(k - 1) + n - 1] = s[k - 1]
        BY <4>1, <1>4
      <4>4. i - 1 = (k - 1) + n - 1 /\ i # 1
        BY <3>1, <4>1, <1>1
      <4> QED
        BY <4>2, <4>3, <4>4, <3>1
    <3> QED
      BY <3>2, <3>3
  <2> QED
    BY <2>2, <2>3, <1>2
<1>7. YoungOnTop(t, z)
  <2>1. SUFFICES ASSUME NEW i \in 1 .. Len(z), z[i].op \in YoungOp
                 PROVE  i = 1 /\ (z[i].op = "publish" => t = "pool")
    BY DEF YoungOnTop
  <2>2. CASE i \in 1 .. n /\ z[i] = fs[i]
    BY <2>1, <2>2 DEF Fits, YoungOnTop, n
  <2>3. CASE i > n /\ i - n + 1 \in 2 .. Len(s) /\ z[i] = s[i - n + 1]
    <3>1. PICK k \in 2 .. Len(s) : z[i] = s[k]
      BY <2>3
    <3>2. k = 1
      <4>1. k \in 1 .. Len(s)
        BY <1>1
      <4> QED
        BY <2>1, <3>1, <4>1 DEF Ordered, YoungOnTop
    <3> QED
      BY <3>2
  <2> QED
    BY <2>2, <2>3, <1>2
<1>8. UnderErase(z, K)
  <2>1. SUFFICES ASSUME NEW i \in 1 .. Len(z), NEW j \in 1 .. Len(z), i < j, z[j].op = "erase"
                 PROVE  Quick(z[i], K)
    BY DEF UnderErase
  <2>2. CASE i \in 1 .. n /\ z[i] = fs[i]
    <3>1. CASE j \in 1 .. n /\ z[j] = fs[j]
      BY <2>1, <2>2, <3>1 DEF Fits, UnderErase, n
    <3>2. CASE j > n /\ j - n + 1 \in 2 .. Len(s) /\ z[j] = s[j - n + 1]
      <4>1. \E k \in 2 .. Len(s) : s[k].op = "erase"
        BY <2>1, <3>2
      <4> QED
        BY <2>2, <4>1 DEF Fits, n
    <3> QED
      BY <3>1, <3>2, <1>2
  <2>3. CASE i > n /\ i - n + 1 \in 2 .. Len(s) /\ z[i] = s[i - n + 1]
    <3>1. j > n
      BY <2>1, <2>3, <1>1
    <3>2. j - n + 1 \in 2 .. Len(s) /\ z[j] = s[j - n + 1]
      BY <3>1, <1>1, <1>2
    <3>3. i - n + 1 \in 1 .. Len(s) /\ j - n + 1 \in 1 .. Len(s)
      <4>1. 2 .. Len(s) \subseteq 1 .. Len(s)
        BY <1>1
      <4> QED
        BY <2>3, <3>2, <4>1
    <3>4. i - n + 1 < j - n + 1
      <4>1. i \in Int /\ j \in Int /\ i < j
        BY <2>1
      <4> QED
        BY ONLY <4>1, <1>1
    <3> QED
      BY <2>1, <2>3, <3>2, <3>3, <3>4 DEF Ordered, UnderErase
  <2> QED
    BY <2>2, <2>3, <1>2
<1>9. Doomed(z, K)
  <2>1. SUFFICES ASSUME NEW i \in 1 .. Len(z), z[i].op \in {"shutdown", "close"},
                        K[z[i].c].handle = "accept"
                 PROVE  \E j \in 1 .. Len(z) : j > i /\ z[j] = Erase(K[z[i].c].port)
    BY DEF Doomed
  <2>2. CASE i \in 1 .. n /\ z[i] = fs[i]
    <3>1. CASE \E j \in 1 .. n : j > i /\ fs[j] = Erase(K[fs[i].c].port)
      BY <2>2, <3>1, <1>3
    <3>2. CASE \E j \in 2 .. Len(s) : s[j] = Erase(K[fs[i].c].port)
      <4>1. PICK j \in 2 .. Len(s) : s[j] = Erase(K[fs[i].c].port)
        BY <3>2
      <4>2. j + n - 1 \in 1 .. Len(z) /\ z[j + n - 1] = s[j]
        BY <1>4
      <4>3. j + n - 1 > i
        BY <2>2, <1>1
      <4> QED
        BY <2>2, <4>1, <4>2, <4>3
    <3> QED
      BY <2>1, <2>2, <3>1, <3>2 DEF Fits, n
  <2>3. CASE i > n /\ i - n + 1 \in 2 .. Len(s) /\ z[i] = s[i - n + 1]
    <3> DEFINE k == i - n + 1
    <3>1. k \in 2 .. Len(s) /\ z[i] = s[k] /\ k \in 1 .. Len(s) /\ i = k + n - 1
      BY <2>3, <1>1
    <3> HIDE DEF k
    <3>2. PICK j \in 1 .. Len(s) : j > k /\ s[j] = Erase(K[z[i].c].port)
      BY <2>1, <3>1 DEF Ordered, Doomed
    <3>3. j \in 2 .. Len(s) /\ j + n - 1 > i
      BY <3>1, <3>2, <1>1
    <3> QED
      BY <3>2, <3>3, <1>4
  <2> QED
    BY <2>2, <2>3, <1>2
<1> QED
  BY <1>6, <1>7, <1>8, <1>9 DEF Ordered

\* The stacks after a call of thread t has left the calls fs.
LEMMA StackPushed ==
  ASSUME Typed, NEW t \in Thread, NEW fs \in Seq(Frame), Pushes(t, fs)
  PROVE  /\ \A u \in Thread : stack[u] \in Seq(Frame) /\ stack'[u] \in Seq(Frame)
         /\ \A u \in Thread : u # t => stack'[u] = stack[u]
         /\ stack'[t] = fs \o Below(stack[t])
         /\ Placed(stack'[t], fs, stack[t], Len(fs))
<1>1. stack \in [Thread -> Seq(Frame)]
  BY DEF Typed, TypeOK
<1>2. stack' = [stack EXCEPT ![t] = fs \o Below(stack[t])]
  BY DEF Pushes
<1>3. stack'[t] = fs \o Below(stack[t]) /\ \A u \in Thread : u # t => stack'[u] = stack[u]
  BY <1>1, <1>2
<1>4. fs \o Below(stack[t]) \in Seq(Frame) /\ Placed(fs \o Below(stack[t]), fs, stack[t], Len(fs))
  <2>1. stack[t] \in Seq(Frame)
    BY <1>1
  <2> QED
    BY <2>1, Places
<1> QED
  BY <1>1, <1>3, <1>4

\* A call pending afterwards was pending before or is one of fs.
LEMMA NewFrames ==
  ASSUME Typed, NEW t \in Thread, NEW fs \in Seq(Frame), Pushes(t, fs)
  PROVE  /\ \A u \in Thread : \A f \in Frames(u)' :
              f \in Frames(u) \/ (u = t /\ f \in Entries(fs))
         /\ Stacked => \A f \in Frames(t)' : f.op \in YoungOp => f \in Entries(fs)
<1>1. \A u \in Thread : u # t => Frames(u)' = Frames(u)
  BY StackPushed DEF Frames
<1>2. \A f \in Frames(t)' :
        f \in Entries(fs) \/ \E k \in 2 .. Len(stack[t]) : f = stack[t][k]
  <2>1. Placed(stack'[t], fs, stack[t], Len(fs))
    BY StackPushed
  <2>2. \A i \in 1 .. Len(stack'[t]) : 
          \/ i \in 1 .. Len(fs) /\ stack'[t][i] = fs[i]
          \/ \E k \in 2 .. Len(stack[t]) : stack'[t][i] = stack[t][k]
    BY <2>1 DEF Placed
  <2> QED
    BY <2>2 DEF Frames, Entries
<1>3. \A k \in 2 .. Len(stack[t]) : stack[t][k] \in Frames(t)
  <2>1. Len(stack[t]) \in Nat
    BY StackPushed
  <2> QED
    BY <2>1 DEF Frames, Entries
<1>4. Stacked => \A k \in 2 .. Len(stack[t]) : stack[t][k].op \notin YoungOp
  <2>1. SUFFICES ASSUME Stacked, NEW k \in 2 .. Len(stack[t])
                 PROVE  stack[t][k].op \notin YoungOp
    OBVIOUS
  <2>2. Len(stack[t]) \in Nat
    BY StackPushed
  <2>3. k \in 1 .. Len(stack[t]) /\ k # 1
    BY <2>2
  <2> QED
    BY <2>1, <2>3 DEF Stacked, Ordered, YoungOnTop
<1> QED
  BY <1>1, <1>2, <1>3, <1>4

\* A call pending before is pending afterwards, but the one on top.
LEMMA OldFrames ==
  ASSUME Typed, NEW t \in Thread, NEW fs \in Seq(Frame), Pushes(t, fs)
  PROVE  /\ \A u \in Thread : \A f \in Frames(u) :
              f \in Frames(u)' \/ (u = t /\ stack[t] # <<>> /\ f = Top(t))
         /\ Entries(fs) \subseteq Frames(t)'
<1>1. \A u \in Thread : u # t => Frames(u)' = Frames(u)
  BY StackPushed DEF Frames
<1>0. Placed(stack'[t], fs, stack[t], Len(fs))
  BY StackPushed
<1>2. \A k \in 2 .. Len(stack[t]) : stack[t][k] \in Frames(t)'
  BY <1>0 DEF Frames, Entries, Placed
<1>3. Entries(fs) \subseteq Frames(t)'
  BY <1>0 DEF Frames, Entries, Placed
<1>4. \A f \in Frames(t) : (\E k \in 2 .. Len(stack[t]) : f = stack[t][k])
                            \/ (stack[t] # <<>> /\ f = Top(t))
  <2>1. SUFFICES ASSUME NEW f \in Frames(t)
                 PROVE  (\E k \in 2 .. Len(stack[t]) : f = stack[t][k])
                        \/ (stack[t] # <<>> /\ f = Top(t))
    OBVIOUS
  <2>2. stack[t] \in Seq(Frame)
    BY StackPushed
  <2>3. PICK i \in 1 .. Len(stack[t]) : f = stack[t][i]
    BY DEF Frames, Entries
  <2>4. i = 1 => stack[t] # <<>> /\ stack[t][i] = Head(stack[t])
    BY <2>2, <2>3
  <2>5. i # 1 => i \in 2 .. Len(stack[t])
    BY <2>2, <2>3
  <2> QED
    BY <2>3, <2>4, <2>5 DEF Top
<1> QED
  BY <1>1, <1>2, <1>3, <1>4

LEMMA StackedStep ==
  ASSUME Typed, Stacked, NEW t \in Thread, NEW fs \in Seq(Frame), Pushes(t, fs),
         \A u \in Thread : Keeps(stack[u], conn, conn'), Fits(t, fs, stack[t], conn')
  PROVE  Stacked'
<1>1. \A u \in Thread : Ordered(u, stack[u], conn')
  <2>1. SUFFICES ASSUME NEW u \in Thread
                 PROVE  Ordered(u, stack[u], conn')
    OBVIOUS
  <2>2. Ordered(u, stack[u], conn) /\ Keeps(stack[u], conn, conn')
    BY DEF Stacked
  <2> QED
    BY <2>2, OrderedKept
<1>2. Ordered(t, stack'[t], conn')
  <2>1. stack[t] \in Seq(Frame) /\ stack'[t] = fs \o Below(stack[t])
    BY StackPushed
  <2> QED
    BY <1>1, <2>1, OrderedPushed
<1>3. \A u \in Thread : u # t => Ordered(u, stack'[u], conn')
  BY <1>1, StackPushed
<1> QED
  BY <1>2, <1>3 DEF Stacked

\* The calls that will give an object back are told apart.
LEMMA FreedOnceStep ==
  ASSUME Typed, FreedOnce, NEW t \in Thread, NEW fs \in Seq(Frame), Pushes(t, fs),
         \A i \in 1 .. Len(fs) : fs[i].op = "free" =>
           /\ \A u \in Thread : fs[i] \notin Frames(u)
           /\ \A j \in 1 .. Len(fs) : fs[j] = fs[i] => i = j
  PROVE  FreedOnce'
<1>1. SUFFICES ASSUME NEW u \in Thread, NEW v \in Thread,
                      NEW i \in 1 .. Len(stack'[u]), NEW j \in 1 .. Len(stack'[v]),
                      stack'[u][i].op = "free", stack'[v][j] = stack'[u][i]
               PROVE  u = v /\ i = j
  BY DEF FreedOnce
<1>2. /\ \A w \in Thread : w # t => stack'[w] = stack[w]
      /\ \A w \in Thread : Len(stack[w]) \in Nat
      /\ Len(fs) \in Nat
  BY StackPushed
<1> DEFINE n == Len(fs)
<1>3. \A k \in 1 .. Len(stack'[t]) :
        \/ k \in 1 .. n /\ stack'[t][k] = fs[k]
        \/ k > n /\ k - n + 1 \in 2 .. Len(stack[t]) /\ stack'[t][k] = stack[t][k - n + 1]
  BY StackPushed DEF Placed
<1>4. n \in Nat /\ n = Len(fs)
  BY <1>2
<1> HIDE DEF n
<1>5. \A w \in Thread : \A k \in 1 .. Len(stack[w]) : stack[w][k] \in Frames(w)
  BY DEF Frames, Entries
<1>6. \A w \in Thread : \A k \in 1 .. Len(stack'[w]) :
        stack'[w][k] \in Frames(w) \/ (w = t /\ k \in 1 .. n /\ stack'[w][k] = fs[k])
  <2>1. \A k \in 2 .. Len(stack[t]) : k \in 1 .. Len(stack[t])
    BY <1>2
  <2> QED
    BY <2>1, <1>2, <1>3, <1>5, SMTT(20)
<1>7. CASE u = t /\ i \in 1 .. n /\ stack'[u][i] = fs[i]
  <2>1. \A w \in Thread : stack'[v][j] \notin Frames(w)
    BY <1>1, <1>4, <1>7
  <2>2. v = t /\ j \in 1 .. n /\ stack'[v][j] = fs[j]
    BY <1>6, <2>1
  <2> QED
    BY <1>1, <1>4, <1>7, <2>2
<1>8. CASE v = t /\ j \in 1 .. n /\ stack'[v][j] = fs[j]
  <2>1. \A w \in Thread : stack'[u][i] \notin Frames(w)
    BY <1>1, <1>4, <1>8
  <2>2. u = t /\ i \in 1 .. n /\ stack'[u][i] = fs[i]
    BY <1>6, <2>1
  <2> QED
    BY <1>7, <2>2
<1>9. CASE /\ ~ (u = t /\ i \in 1 .. n /\ stack'[u][i] = fs[i])
           /\ ~ (v = t /\ j \in 1 .. n /\ stack'[v][j] = fs[j])
  <2> DEFINE at(w, k) == IF w = t THEN k - n + 1 ELSE k
  <2>1. /\ at(u, i) \in 1 .. Len(stack[u]) /\ stack[u][at(u, i)] = stack'[u][i]
        /\ at(v, j) \in 1 .. Len(stack[v]) /\ stack[v][at(v, j)] = stack'[v][j]
    <3>1. ASSUME NEW w \in Thread, NEW k \in 1 .. Len(stack'[w]),
                 ~ (w = t /\ k \in 1 .. n /\ stack'[w][k] = fs[k])
          PROVE  at(w, k) \in 1 .. Len(stack[w]) /\ stack[w][at(w, k)] = stack'[w][k]
      <4>1. CASE w = t
        <5>1. k - n + 1 \in 2 .. Len(stack[t]) /\ stack'[t][k] = stack[t][k - n + 1]
          BY <1>3, <3>1, <4>1
        <5>2. k - n + 1 \in 1 .. Len(stack[t])
          BY <1>2, <5>1
        <5> QED
          BY <4>1, <5>1, <5>2
      <4>2. CASE w # t
        BY <1>2, <4>2
      <4> QED
        BY <4>1, <4>2
    <3> QED
      BY <3>1, <1>9
  <2>2. i \in Int /\ j \in Int
    OBVIOUS
  <2>3. u = v /\ at(u, i) = at(v, j)
    <3> DEFINE x == at(u, i)
               y == at(v, j)
    <3>1. /\ x \in 1 .. Len(stack[u]) /\ stack[u][x].op = "free"
          /\ y \in 1 .. Len(stack[v]) /\ stack[v][y] = stack[u][x]
      BY <1>1, <2>1
    <3> HIDE DEF at, x, y
    <3>2. u = v /\ x = y
      BY <3>1 DEF FreedOnce
    <3> QED
      BY <3>2 DEF x, y
  <2> QED
    BY <2>2, <2>3, <1>4
<1> QED
  BY <1>7, <1>8, <1>9

LEMMA ReturnPushes ==
  ASSUME NEW t \in Thread, NEW fs, stack[t] # <<>>, Return(t, fs)
  PROVE  Pushes(t, fs)
  BY DEF Return, Pushes, Below

LEMMA HandlesPushes ==
  ASSUME NEW fs \in Seq(Frame), stack["main"] = <<>>, Handles(fs)
  PROVE  Pushes("main", fs)
<1>1. fs \o Below(stack["main"]) = fs
  BY DEF Below
<1> QED
  BY <1>1 DEF Handles, Pushes

\* Below a call that no Close_Socket makes nothing waits to be erased.
LEMMA NothingBelow ==
  ASSUME NEW t, NEW F, NEW s \in Seq(F), NEW K, Ordered(t, s, K), s = <<>> \/ ~ Quick(s[1], K)
  PROVE  /\ \A k \in 2 .. Len(s) : s[k].op # "erase"
         /\ ~ (2 \in 1 .. Len(s) /\ s[2].op = "free")
<1>1. \A k \in 2 .. Len(s) : k \in 1 .. Len(s) /\ 1 \in 1 .. Len(s) /\ 1 < k /\ s # <<>>
  OBVIOUS
<1>2. \A k \in 2 .. Len(s) : s[k].op # "erase"
  BY <1>1 DEF Ordered, UnderErase
<1>3. ~ (2 \in 1 .. Len(s) /\ s[2].op = "free")
  <2>1. SUFFICES ASSUME 2 \in 1 .. Len(s), s[2].op = "free"
                 PROVE  FALSE
    OBVIOUS
  <2>2. s[2 - 1] = Call("close", s[2].c)
    BY <2>1 DEF Ordered, ClosedFirst
  <2>3. s # <<>> /\ s[1].op = "close"
    BY <2>1, <2>2 DEF Call
  <2> QED
    BY <2>3 DEF Quick
<1> QED
  BY <1>2, <1>3

LEMMA FitsPlain ==
  ASSUME NEW t, NEW F, NEW s \in Seq(F), NEW fs, NEW K, Ordered(t, s, K),
         s = <<>> \/ ~ Quick(s[1], K), YoungOnTop(t, fs),
         \A i \in 1 .. Len(fs) : /\ fs[i].op \notin {"close", "free", "erase"}
                                 /\ fs[i].op = "shutdown" => K[fs[i].c].handle # "accept"
  PROVE  Fits(t, fs, s, K)
<1>1. /\ \A k \in 2 .. Len(s) : s[k].op # "erase"
      /\ ~ (2 \in 1 .. Len(s) /\ s[2].op = "free")
  BY NothingBelow
<1>2. ClosedFirst(fs, K) /\ UnderErase(fs, K)
  BY DEF ClosedFirst, UnderErase
<1> QED
  BY <1>1, <1>2 DEF Fits

LEMMA FitsNothing ==
  ASSUME NEW t, NEW F, NEW s \in Seq(F), NEW K, Ordered(t, s, K), s # <<>>, s[1].op # "close"
  PROVE  Fits(t, <<>>, s, K)
<1>1. ~ (2 \in 1 .. Len(s) /\ s[2].op = "free")
  <2>1. SUFFICES ASSUME 2 \in 1 .. Len(s), s[2].op = "free"
                 PROVE  FALSE
    OBVIOUS
  <2>2. s[2 - 1] = Call("close", s[2].c)
    BY <2>1 DEF Ordered, ClosedFirst
  <2> QED
    BY <2>2 DEF Call
<1>2. 1 .. Len(<<>>) = {}
  OBVIOUS
<1>3. ClosedFirst(<<>>, K) /\ UnderErase(<<>>, K) /\ YoungOnTop(t, <<>>)
  BY <1>2 DEF ClosedFirst, UnderErase, YoungOnTop
<1> QED
  BY <1>1, <1>2, <1>3 DEF Fits

-----------------------------------------------------------------------------
(* Steps that change the stacks only. *)

\* A young object stays young while no table and no release leads to it.
LEMMA StaysYoung ==
  ASSUME Typed, NEW t \in Thread, NEW fs \in Seq(Frame), Pushes(t, fs), NEW c, Young(c),
         c \notin Entries(fconn'), \A k \in Name : workconn'[k] # c,
         \A f \in Entries(fs) : f.op \in Releasing => f.c # c
  PROVE  Young(c)'
<1>1. \A u \in Thread : \A f \in Frames(u)' : f.op \in Releasing => f.c # c
  BY NewFrames DEF Young
<1> QED
  BY <1>1 DEF Young

\* What a call of thread t that changes no data may leave.
Harmless(t, fs) ==
  /\ \A i \in 1 .. Len(fs) :
       /\ fs[i].op \notin YoungOp
       /\ fs[i].op = "free" => /\ fs[i] = Call("free", fs[i].c) /\ InUse(fs[i].c)
                              /\ \A j \in 1 .. Len(fs) : fs[j] = fs[i] => i = j
  /\ \A i \in 1 .. Len(fs) : fs[i].op \in Releasing =>
       \A u \in Thread : \A g \in Frames(u) : g.op \in YoungOp => g.c # fs[i].c
  /\ Fits(t, fs, stack[t], conn)

Undisturbed ==
  /\ UNCHANGED <<conn, fconn, workconn, adm>>
  /\ \A m \in Member : member'[m].used = member[m].used /\ member'[m].adcptr = member[m].adcptr

LEMMA QuietGood ==
  ASSUME Typed, Typed', Good, NEW t \in Thread, NEW fs \in Seq(Frame), Pushes(t, fs),
         Undisturbed, Harmless(t, fs), stack[t] = <<>> \/ Top(t).op # "erase"
  PROVE  Good'
<1>1. conn' = conn /\ fconn' = fconn /\ workconn' = workconn /\ adm' = adm
  BY DEF Undisturbed
<1>2. Stacked'
  <2>1. \A u \in Thread : Keeps(stack[u], conn, conn')
    BY <1>1 DEF Keeps
  <2>2. Fits(t, fs, stack[t], conn')
    BY <1>1 DEF Harmless
  <2> QED
    BY <2>1, <2>2, StackedStep DEF Good
<1>3. FreedOnce'
  <2>1. \A i \in 1 .. Len(fs) : fs[i].op = "free" =>
          /\ \A u \in Thread : fs[i] \notin Frames(u)
          /\ \A j \in 1 .. Len(fs) : fs[j] = fs[i] => i = j
    BY DEF Harmless, InUse, Released
  <2> QED
    BY <2>1, FreedOnceStep DEF Good
<1>4. Distinct'
  BY <1>1 DEF Good, Distinct
<1>5. \A u \in Thread : \A f \in Frames(u)' : f \in Frames(u) \/ (u = t /\ f \in Entries(fs))
  BY NewFrames
<1>6. \A u \in Thread, p \in UserPort : Erase(p) \in Frames(u) => Erase(p) \in Frames(u)'
  BY OldFrames DEF Erase
<1>7. FreeIdle'
  <2>1. SUFFICES ASSUME NEW c \in Entries(fconn)
                 PROVE  ~ conn[c].fd /\ ~ Released(c)'
    BY <1>1 DEF FreeIdle
  <2>2. ~ conn[c].fd /\ ~ Released(c)
    BY DEF Good, FreeIdle
  <2>3. Call("free", c) \notin Entries(fs)
    BY <2>1 DEF Harmless, InUse, Entries, Call
  <2> QED
    BY <2>2, <2>3, <1>5 DEF Released
<1>8. \A u \in Thread : \A f \in Frames(u)' : f.op \in YoungOp => f \in Frames(u)
  <2>1. \A f \in Entries(fs) : f.op \notin YoungOp
    BY DEF Harmless, Entries
  <2> QED
    BY <2>1, <1>5
<1>9. \A u \in Thread : \A f \in Frames(u) : f.op \in YoungOp /\ Young(f.c) => Young(f.c)'
  <2>1. SUFFICES ASSUME NEW u \in Thread, NEW f \in Frames(u), f.op \in YoungOp, Young(f.c)
                 PROVE  Young(f.c)'
    OBVIOUS
  <2>2. \A g \in Entries(fs) : g.op \in Releasing => g.c # f.c
    BY <2>1 DEF Harmless, Entries
  <2>3. f.c \notin Entries(fconn') /\ \A k \in Name : workconn'[k] # f.c
    BY <2>1, <1>1 DEF Young
  <2> QED
    BY <2>1, <2>2, <2>3, StaysYoung
<1>10. NewUser'
  BY <1>1, <1>8, <1>9 DEF Good, NewUser, Thread, YoungOp
<1>11. NewListener'
  <2>1. SUFFICES ASSUME NEW f \in Frames("pool")', f.op = "publish"
                 PROVE  /\ Young(f.c)' /\ conn[f.c].fd /\ conn[f.c].handle = "accept"
                        /\ conn[f.c].port = f.port
                        /\ adm[f.port] # NULL /\ member'[adm[f.port]].adcptr = f.c =>
                             Erase(f.port) \in Frames("main")'
    BY <1>1 DEF NewListener
  <2>2. f \in Frames("pool")
    BY <2>1, <1>8 DEF Thread, YoungOp
  <2>3. f.port \in UserPort
    <3>1. stack["pool"] \in Seq(Frame)
      BY StackPushed DEF Thread
    <3>2. f \in Frame
      BY <2>2, <3>1 DEF Frames, Entries
    <3> QED
      BY <2>1, <3>2, FrameFields
  <2>4. adm[f.port] # NULL => member'[adm[f.port]].adcptr = member[adm[f.port]].adcptr
    BY <2>3 DEF Undisturbed, Typed, TypeOK
  <2> QED
    BY <2>1, <2>2, <2>3, <2>4, <1>6, <1>9 DEF Good, NewListener, Thread, YoungOp
<1>12. FieldsAgree' /\ WorkTable'
  BY <1>1 DEF Good, FieldsAgree, WorkTable
<1>13. PortTable'
  <2>1. SUFFICES ASSUME NEW p \in UserPort, adm[p] # NULL
                 PROVE  /\ member'[adm[p]].used
                        /\ Listens(member'[adm[p]].adcptr, p) \/ ErasePending(p)'
    BY <1>1 DEF PortTable, Listens
  <2>2. /\ member'[adm[p]].adcptr = member[adm[p]].adcptr
        /\ member'[adm[p]].used = member[adm[p]].used
    BY <2>1 DEF Undisturbed, Typed, TypeOK
  <2>3. member[adm[p]].used /\ (Listens(member[adm[p]].adcptr, p) \/ ErasePending(p))
    BY <2>1 DEF Good, PortTable
  <2> QED
    BY <2>2, <2>3, <1>1, <1>6 DEF ErasePending, Listens
<1> QED
  BY <1>2, <1>3, <1>4, <1>7, <1>10, <1>11, <1>12, <1>13 DEF Good

LEMMA SameGood ==
  ASSUME Good, UNCHANGED <<links, pool, stack>>
  PROVE  Good'
<1>1. UNCHANGED <<conn, fconn, workconn, adm, member, stack>>
  BY DEF links, pool
<1>2. \A t \in Thread : Frames(t)' = Frames(t)
  BY <1>1 DEF Frames
<1>3. Distinct' /\ FreeIdle' /\ FreedOnce' /\ Stacked'
  BY <1>1, <1>2 DEF Good, Distinct, FreeIdle, FreedOnce, Stacked, Released
<1>4. \A c : Young(c)' <=> Young(c)
  BY <1>1, <1>2 DEF Young
<1>5. NewUser' /\ NewListener'
  BY <1>1, <1>2, <1>4 DEF Good, NewUser, NewListener, Thread
<1>6. FieldsAgree' /\ WorkTable' /\ PortTable'
  BY <1>1, <1>2 DEF Good, FieldsAgree, WorkTable, PortTable, Listens, ErasePending
<1> QED
  BY <1>3, <1>5, <1>6 DEF Good

\* A shutdown that follows a pointer or a table never meets a young object.
Followed(c) ==
  /\ conn[c].handle # "accept"
  /\ \A u \in Thread : \A g \in Frames(u) : g.op \in YoungOp => g.c # c

\* A call that only makes others, which erase, close and give back nothing.
LEMMA CallGood ==
  ASSUME Typed, Typed', Good, NEW t \in Thread, NEW fs \in Seq(Frame), Pushes(t, fs), Undisturbed,
         stack[t] = <<>> \/ (~ Quick(Top(t), conn) /\ Top(t).op # "erase"),
         \A i \in 1 .. Len(fs) : /\ fs[i].op \notin YoungOp \cup {"close", "free", "erase"}
                                 /\ fs[i].op = "shutdown" => Followed(fs[i].c)
  PROVE  Good'
<1>1. stack[t] \in Seq(Frame) /\ Ordered(t, stack[t], conn)
  BY StackPushed DEF Good, Stacked
<1>2. stack[t] = <<>> \/ ~ Quick(stack[t][1], conn)
  BY <1>1 DEF Top
<1>3. YoungOnTop(t, fs)
  BY DEF YoungOnTop
<1>4. \A i \in 1 .. Len(fs) : /\ fs[i].op \notin {"close", "free", "erase"}
                              /\ fs[i].op = "shutdown" => conn[fs[i].c].handle # "accept"
  BY DEF Followed
<1>5. Fits(t, fs, stack[t], conn)
  BY <1>1, <1>2, <1>3, <1>4, FitsPlain
<1>6. Harmless(t, fs)
  BY <1>5 DEF Harmless, Followed, Releasing
<1> QED
  BY <1>6, QuietGood

\* A call that returns.
LEMMA NothingGood ==
  ASSUME Typed, Typed', Good, NEW t \in Thread, stack[t] # <<>>, Return(t, <<>>), Undisturbed,
         Top(t).op \notin {"close", "erase"}
  PROVE  Good'
<1>1. <<>> \in Seq(Frame) /\ Pushes(t, <<>>)
  BY ReturnPushes
<1>2. stack[t] \in Seq(Frame) /\ Ordered(t, stack[t], conn)
  BY <1>1, StackPushed DEF Good, Stacked
<1>3. Fits(t, <<>>, stack[t], conn)
  <2>1. stack[t][1].op # "close"
    BY <1>2 DEF Top
  <2> QED
    BY <1>2, <2>1, FitsNothing
<1>4. Harmless(t, <<>>)
  <2>1. 1 .. Len(<<>>) = {}
    OBVIOUS
  <2> QED
    BY <1>3, <2>1 DEF Harmless
<1> QED
  BY <1>1, <1>4, QuietGood

\* A call that makes one other call.
LEMMA OneCallGood ==
  ASSUME Typed, Typed', Good, NEW t \in Thread, stack[t] # <<>>, NEW f \in Frame,
         Return(t, <<f>>), Undisturbed, ~ Quick(Top(t), conn), Top(t).op # "erase",
         f.op \notin YoungOp \cup {"close", "free", "erase"},
         f.op = "shutdown" => Followed(f.c)
  PROVE  Good'
<1> DEFINE fs == <<f>>
<1>1. fs \in Seq(Frame) /\ Pushes(t, fs)
  BY ReturnPushes
<1>2. \A i \in 1 .. Len(fs) : fs[i] = f
  OBVIOUS
<1> HIDE DEF fs
<1> QED
  BY <1>1, <1>2, CallGood

LEMMA LinksUndisturbed ==
  ASSUME UNCHANGED links, UNCHANGED pool
  PROVE  Undisturbed
  BY DEF links, pool, Undisturbed

LEMMA ClosePortsGood ==
  ASSUME Typed, Typed', Good, NEW t \in Thread, ClosePorts(t)
  PROVE  Good'
<1> DEFINE mine == {p \in UserPort : adm[p] # NULL /\
                       conn[member[adm[p]].adcptr].admin = Top(t).admin}
           f == [op |-> "closeEach", ports |-> mine, admin |-> Top(t).admin]
<1>1. stack[t] # <<>> /\ Top(t).op = "closePorts" /\ Top(t).admin \in Admin \cup {NoName}
  BY TopLegal, FrameFields DEF ClosePorts, Calls, Top
<1>2. f \in Frame /\ f.op = "closeEach"
  BY <1>1 DEF Frame
<1>3. Return(t, <<f>>) /\ Undisturbed
  BY LinksUndisturbed DEF ClosePorts
<1>4. ~ Quick(Top(t), conn)
  BY <1>1 DEF Quick
<1> HIDE DEF f
<1> QED
  BY <1>1, <1>2, <1>3, <1>4, OneCallGood DEF YoungOp

LEMMA CloseEachGood ==
  ASSUME Typed, Typed', Good, NEW t \in Thread, CloseEach(t)
  PROVE  Good'
<1> DEFINE f == Top(t)
<1>1. /\ stack[t] # <<>> /\ f \in Frame /\ f.op = "closeEach"
      /\ f.ports \in SUBSET UserPort /\ f.admin \in Admin \cup {NoName}
  BY TopLegal, FrameFields DEF CloseEach, Calls, Top
<1>2. Undisturbed /\ ~ Quick(Top(t), conn)
  BY <1>1, LinksUndisturbed DEF CloseEach, Quick
<1>3. CASE Return(t, <<>>)
  BY <1>1, <1>2, <1>3, NothingGood
<1>4. ASSUME NEW p \in f.ports,
             Return(t, <<[op |-> "closePort", port |-> p, admin |-> f.admin],
                         [f EXCEPT !.ports = @ \ {p}]>>)
      PROVE  Good'
  <2> DEFINE g == [op |-> "closePort", port |-> p, admin |-> f.admin]
             h == [f EXCEPT !.ports = @ \ {p}]
             fs == <<g, h>>
  <2>1. g \in Frame /\ g.op = "closePort"
    BY <1>1 DEF Frame
  <2>2. h \in Frame /\ h.op = "closeEach"
    <3>1. f \in [op : {"closeEach"}, ports : SUBSET UserPort, admin : Admin \cup {NoName}]
      BY <1>1 DEF Frame
    <3> QED
      BY <3>1 DEF Frame
  <2> HIDE DEF g, h
  <2>3. fs \in Seq(Frame) /\ Pushes(t, fs)
    BY <1>1, <1>4, <2>1, <2>2, ReturnPushes DEF g, h
  <2>4. \A i \in 1 .. Len(fs) : fs[i].op \in {"closePort", "closeEach"}
    BY <2>1, <2>2
  <2> HIDE DEF fs
  <2> QED
    BY <1>1, <1>2, <2>3, <2>4, CallGood DEF YoungOp
<1> QED
  BY <1>3, <1>4 DEF CloseEach

LEMMA FindEntryGood ==
  ASSUME Typed, Typed', Good, NEW t \in Thread, FindEntry(t)
  PROVE  Good'
<1> DEFINE f == Top(t)
           g == [f EXCEPT !.op = "index"]
<1>1. stack[t] # <<>> /\ f \in Frame /\ f.op = "find"
  BY TopLegal DEF FindEntry, Calls, Top
<1>2. Undisturbed /\ ~ Quick(Top(t), conn)
  BY <1>1, LinksUndisturbed DEF FindEntry, Quick
<1>3. CASE f.key = NoName \/ workconn[f.key] = Absent
  <2>1. Return(t, <<>>)
    BY <1>3 DEF FindEntry
  <2> QED
    BY <1>1, <1>2, <2>1, NothingGood
<1>4. CASE ~ (f.key = NoName \/ workconn[f.key] = Absent)
  <2>1. Return(t, <<g>>)
    BY <1>4 DEF FindEntry
  <2>2. g \in Frame /\ g.op = "index"
    <3>1. f \in [op : {"find"}, key : Name \cup {NoName}, use : Use]
      BY <1>1 DEF Frame
    <3> QED
      BY <1>4, <3>1 DEF Frame
  <2> HIDE DEF g
  <2> QED
    BY <1>1, <1>2, <2>1, <2>2, OneCallGood DEF YoungOp
<1> QED
  BY <1>3, <1>4

\* Which young objects there are.
LEMMA YoungFrames ==
  ASSUME Typed, Good
  PROVE  /\ \A u \in Thread : \A g \in Frames(u) : g.op \in YoungOp => Young(g.c)
         /\ \A u \in Thread : \A g \in Frames(u) : g.op \in YoungOp =>
              (g.op = "publish" => u = "pool") /\ (g.op # "publish" => u = "main")
<1>1. \A g \in Frames("main") : g.op \in {"distribute", "link"} => Young(g.c)
  BY DEF Good, NewUser
<1>2. \A g \in Frames("pool") : g.op = "publish" => Young(g.c)
  BY DEF Good, NewListener
<1>3. \A g \in Frames("main") : g.op # "publish"
  BY DEF Good, Stacked, Ordered, YoungOnTop, Frames, Entries, YoungOp, Thread
<1>4. \A g \in Frames("pool") : g.op \notin {"distribute", "link"}
  BY DEF Typed, Legal, Frames, Entries, Thread
<1> QED
  BY <1>1, <1>2, <1>3, <1>4 DEF YoungOp, Thread

\* The object an entry of m_workconn leads to has an id and is not young.
LEMMA EntryFollowed ==
  ASSUME Typed, Good, NEW k \in Name, workconn[k] # Absent
  PROVE  workconn[k] \in Conn /\ Followed(workconn[k])
<1>1. workconn[k] \in Conn /\ conn[workconn[k]].id = k
  BY DEF Typed, TypeOK, Good, WorkTable
<1>2. k # NoName
  BY NameAssumption DEF Name
<1>3. conn[workconn[k]].handle # "accept"
  BY <1>1, <1>2 DEF Good, FieldsAgree
<1> QED
  BY <1>1, <1>3, YoungFrames DEF Followed, Young

LEMMA IndexEntryGood ==
  ASSUME Typed, Typed', Good, NEW t \in Thread, IndexEntry(t)
  PROVE  Good'
<1> DEFINE k == Top(t).key
           c == workconn[k]
           g == [op |-> "dispatch", c |-> c, cmd |-> Top(t).use]
<1>1. stack[t] # <<>> /\ Top(t) \in Frame /\ Top(t).op = "index" /\ k \in Name /\ Top(t).use \in Use
  BY TopLegal, FrameFields DEF IndexEntry, Calls, Top
<1>2. CASE c = Absent
  BY <1>2, SameGood DEF IndexEntry, Crash
<1>3. CASE c # Absent
  <2>1. c \in Conn /\ Followed(c)
    BY <1>1, <1>3, EntryFollowed
  <2>2. Undisturbed /\ ~ Quick(Top(t), conn)
    BY <1>1, <1>3, LinksUndisturbed DEF IndexEntry, Quick
  <2>3. CASE Return(t, <<>>)
    BY <1>1, <2>2, <2>3, NothingGood
  <2>4. CASE Return(t, <<Call("shutdown", c)>>)
    <3>1. /\ Call("shutdown", c) \in Frame /\ Call("shutdown", c).op = "shutdown"
          /\ Call("shutdown", c).c = c
      BY <2>1, CallFrame DEF Call
    <3> QED
      BY <1>1, <2>1, <2>2, <2>4, <3>1, OneCallGood DEF YoungOp
  <2>5. CASE Return(t, <<g>>) /\ Top(t).use.do \notin {"evict", "send"}
    <3>1. g \in Frame /\ g.op = "dispatch"
      BY <1>1, <2>1, <2>5 DEF Frame, Use
    <3> HIDE DEF g
    <3> QED
      BY <1>1, <2>2, <2>5, <3>1, OneCallGood DEF YoungOp
  <2> QED
    BY <1>3, <2>3, <2>4, <2>5 DEF IndexEntry
<1> QED
  BY <1>2, <1>3

LEMMA NotifyAdminGood ==
  ASSUME Typed, Typed', Good, NEW t \in Thread, NotifyAdmin(t)
  PROVE  Good'
<1> DEFINE a == conn[Top(t).c].admin
           f == Find(conn[workconn[a]].id, [do |-> "send"])
<1>1. stack[t] # <<>> /\ Top(t).c \in Conn /\ Top(t).op = "notify"
  BY TopLegal, FrameFields DEF NotifyAdmin, Calls, Top
<1>2. CASE a = NoName \/ workconn[a] = Absent
  BY <1>2, SameGood DEF NotifyAdmin, Crash
<1>3. CASE ~ (a = NoName \/ workconn[a] = Absent)
  <2>1. Return(t, <<f>>) /\ Undisturbed /\ ~ Quick(Top(t), conn)
    BY <1>1, <1>3, LinksUndisturbed DEF NotifyAdmin, Quick
  <2>2. workconn[a] \in Conn
    <3>1. a \in Admin
      BY <1>1, <1>3 DEF Typed, TypeOK, Connection
    <3> QED
      BY <1>3, <3>1 DEF Typed, TypeOK, Name
  <2>3. f \in Frame /\ f.op = "find"
    <3>1. conn[workconn[a]].id \in Name \cup {NoName} /\ [do |-> "send"] \in Use
      BY <2>2 DEF Typed, TypeOK, Connection, Use
    <3> QED
      BY <3>1, FindFrame DEF Find
  <2> HIDE DEF f
  <2> QED
    BY <1>1, <2>1, <2>3, OneCallGood DEF YoungOp
<1> QED
  BY <1>2, <1>3

LEMMA ReplyGood ==
  ASSUME Typed, Typed', Good, NEW t \in Thread, Reply(t)
  PROVE  Good'
<1> DEFINE f == Find(conn[Top(t).c].id, [do |-> "send"])
<1>1. stack[t] # <<>> /\ Top(t).c \in Conn /\ Top(t).op = "reply"
  BY TopLegal, FrameFields DEF Reply, Calls, Top
<1>2. Return(t, <<f>>) /\ Undisturbed /\ ~ Quick(Top(t), conn)
  BY <1>1, LinksUndisturbed DEF Reply, Quick
<1>3. f \in Frame /\ f.op = "find"
  <2>1. conn[Top(t).c].id \in Name \cup {NoName} /\ [do |-> "send"] \in Use
    BY <1>1 DEF Typed, TypeOK, Connection, Use
  <2> QED
    BY <2>1, FindFrame DEF Find
<1> HIDE DEF f
<1> QED
  BY <1>1, <1>2, <1>3, OneCallGood DEF YoungOp

LEMMA DispatchGood ==
  ASSUME Typed, Typed', Good, NEW t \in Thread, Dispatch(t)
  PROVE  Good'
<1> DEFINE c == Top(t).c
           cmd == Top(t).cmd
           a == conn[c].admin
           r == Call("reply", c)
<1>1. stack[t] # <<>> /\ c \in Conn /\ Top(t).op = "dispatch" /\ cmd \in Command
  BY TopLegal, FrameFields DEF Dispatch, Calls, Top
<1>2. Undisturbed /\ ~ Quick(Top(t), conn)
  BY <1>1, LinksUndisturbed DEF Dispatch, Quick
<1>3. a \in Admin \cup {NoName} /\ r \in Frame /\ r.op = "reply"
  BY <1>1, CallFrame DEF Typed, TypeOK, Connection, Call
<1> HIDE DEF r
<1>4. \E fs \in Seq(Frame) :
        /\ Return(t, fs)
        /\ \A i \in 1 .. Len(fs) :
             fs[i].op \in {"establish", "closePort", "closePorts", "find", "reply"}
  <2>1. Return(t, CASE cmd.do = "open" ->
                          <<[op |-> "establish", port |-> cmd.port, admin |-> a]>> \o <<r>>
                     [] cmd.do = "close" ->
                          <<[op |-> "closePort", port |-> cmd.port, admin |-> a]>> \o <<r>>
                     [] cmd.do = "closeAll" ->
                          <<[op |-> "closePorts", admin |-> a]>> \o <<r>>
                     [] cmd.do = "exit" -> <<Find(a, [do |-> "evict"])>> \o <<r>>
                     [] OTHER -> <<r>>)
    BY DEF Dispatch, r
  <2> DEFINE Fine(fs) == /\ fs \in Seq(Frame)
                         /\ \A i \in 1 .. Len(fs) :
                              fs[i].op \in {"establish", "closePort", "closePorts", "find", "reply"}
  <2>2. /\ \A f \in Frame : f.op \in {"establish", "closePort", "closePorts", "find"} =>
             Fine(<<f>> \o <<r>>)
        /\ Fine(<<r>>)
    BY <1>3
  <2>3. cmd.do \in {"open", "close"} =>
          /\ [op |-> "establish", port |-> cmd.port, admin |-> a] \in Frame
          /\ [op |-> "closePort", port |-> cmd.port, admin |-> a] \in Frame
    BY <1>1, <1>3 DEF Command, Frame
  <2>4. [op |-> "closePorts", admin |-> a] \in Frame
    BY <1>3 DEF Frame
  <2>5. Find(a, [do |-> "evict"]) \in Frame /\ Find(a, [do |-> "evict"]).op = "find"
    <3>1. [do |-> "evict"] \in Use /\ a \in Name \cup {NoName}
      BY <1>3 DEF Use, Name
    <3> QED
      BY <3>1, FindFrame DEF Find
  <2> HIDE DEF cmd, a, Fine
  <2> SUFFICES \E fs : Return(t, fs) /\ Fine(fs)
    BY DEF Fine
  <2>6. CASE cmd.do = "open"
    BY <2>1, <2>2, <2>3, <2>6
  <2>7. CASE cmd.do = "close"
    BY <2>1, <2>2, <2>3, <2>7
  <2>8. CASE cmd.do = "closeAll"
    BY <2>1, <2>2, <2>4, <2>8
  <2>9. CASE cmd.do = "exit"
    BY <2>1, <2>2, <2>5, <2>9
  <2>10. CASE cmd.do \notin {"open", "close", "closeAll", "exit"}
    BY <2>1, <2>2, <2>10
  <2> QED
    BY <2>6, <2>7, <2>8, <2>9, <2>10
<1>5. PICK fs \in Seq(Frame) :
        /\ Return(t, fs)
        /\ \A i \in 1 .. Len(fs) :
             fs[i].op \in {"establish", "closePort", "closePorts", "find", "reply"}
  BY <1>4
<1>6. Pushes(t, fs)
  BY <1>1, <1>5, ReturnPushes
<1> QED
  BY <1>1, <1>2, <1>5, <1>6, CallGood DEF YoungOp

LEMMA TakeCommandGood ==
  ASSUME Typed, Typed', Good, TakeCommand
  PROVE  Good'
<1> DEFINE f == Find(Head(cmds).from, Head(cmds).cmd)
           fs == <<f>>
<1>1. f \in Frame /\ f.op = "find"
  <2>1. Head(cmds) \in [from : Name \cup {NoName}, cmd : Command]
    <3> DEFINE S == [from : Name \cup {NoName}, cmd : Command]
    <3>1. cmds \in Seq(S) /\ cmds # <<>>
      BY DEF TakeCommand, Typed, TypeOK
    <3> HIDE DEF S
    <3>2. Head(cmds) \in S
      BY ONLY <3>1
    <3> QED
      BY <3>2 DEF S
  <2>2. Head(cmds).from \in Name \cup {NoName} /\ Head(cmds).cmd \in Use
    BY <2>1 DEF Use
  <2> QED
    BY <2>2, FindFrame DEF Find
<1>2. stack["pool"] = <<>> /\ Undisturbed
  BY LinksUndisturbed DEF TakeCommand
<1>3. stack' = [stack EXCEPT !["pool"] = fs]
  BY DEF TakeCommand
<1> HIDE DEF f
<1>4. fs \in Seq(Frame) /\ \A i \in 1 .. Len(fs) : fs[i].op = "find"
  BY <1>1
<1> HIDE DEF fs
<1>5. Pushes("pool", fs)
  <2>1. fs \o Below(stack["pool"]) = fs
    BY <1>2, <1>4 DEF Below
  <2> QED
    BY <1>3, <2>1 DEF Pushes
<1> QED
  BY <1>2, <1>4, <1>5, CallGood DEF YoungOp, Thread

\* A handler of an event that makes one call, or none.
LEMMA HandlerGood ==
  ASSUME Typed, Typed', Good, stack["main"] = <<>>, NEW f \in Frame, NEW fs \in {<<>>, <<f>>},
         Handles(fs), Undisturbed, f.op \notin YoungOp \cup {"close", "free", "erase"},
         f.op = "shutdown" => Followed(f.c)
  PROVE  Good'
<1>1. fs \in Seq(Frame) /\ \A i \in 1 .. Len(fs) : fs[i] = f
  <2>1. CASE fs = <<>>
    BY <2>1
  <2>2. CASE fs = <<f>>
    BY <2>2
  <2> QED
    BY <2>1, <2>2
<1>2. Pushes("main", fs)
  BY <1>1, HandlesPushes
<1> QED
  BY <1>1, <1>2, CallGood DEF Thread

LEMMA ReadFailsGood ==
  ASSUME Typed, Typed', Good, ReadFails
  PROVE  Good'
<1> DEFINE c == Head(batch)
           f == Call("shutdown", c)
<1>1. stack["main"] = <<>> /\ c \in Conn /\ conn[c].handle \in {"admin", "forward", "user"}
  BY NextEventObject DEF ReadFails, NextEvent
<1>2. Undisturbed /\ Handles(<<f>>)
  BY LinksUndisturbed DEF ReadFails
<1>3. Followed(c)
  <2>1. Frames("main") = {}
    BY <1>1 DEF Frames, Entries
  <2>2. \A g \in Frames("pool") : g.op = "publish" => conn[g.c].handle = "accept"
    BY DEF Good, NewListener
  <2> QED
    BY <1>1, <2>1, <2>2, YoungFrames DEF Followed, Thread
<1>4. f \in Frame /\ f.op = "shutdown" /\ f.c = c
  BY <1>1, CallFrame DEF Call
<1> HIDE DEF c, f
<1> QED
  BY <1>1, <1>2, <1>3, <1>4, HandlerGood DEF YoungOp

LEMMA ReadCommandGood ==
  ASSUME Typed, Typed', Good, ReadCommand
  PROVE  Good'
<1>1. stack["main"] = <<>> /\ Undisturbed /\ Handles(<<>>)
  BY LinksUndisturbed DEF ReadCommand, NextEvent
<1>2. PICK f \in Frame : f.op = "notify"
  <2>1. Call("notify", 1) \in Frame
    <3>1. 1 \in Conn
      BY PoolAssumption DEF Conn
    <3> QED
      BY <3>1, CallFrame
  <2> QED
    BY <2>1 DEF Call
<1> QED
  BY <1>1, <1>2, HandlerGood DEF YoungOp

LEMMA ReadMessageGood ==
  ASSUME Typed, Typed', Good, ReadMessage
  PROVE  Good'
<1> DEFINE c == Head(batch)
           f == Find(conn[c].id, [do |-> "send"])
<1>1. stack["main"] = <<>> /\ c \in Conn
  BY NextEventObject DEF ReadMessage, NextEvent
<1>2. f \in Frame /\ f.op = "find"
  <2>1. conn[c].id \in Name \cup {NoName} /\ [do |-> "send"] \in Use
    BY <1>1 DEF Typed, TypeOK, Connection, Use
  <2> QED
    BY <2>1, FindFrame DEF Find
<1>3. Undisturbed /\ \E fs \in {<<>>, <<f>>} : Handles(fs)
  BY LinksUndisturbed DEF ReadMessage
<1> HIDE DEF c, f
<1> QED
  BY <1>1, <1>2, <1>3, HandlerGood DEF YoungOp

\* A call below which a port may wait to be erased.
LEMMA FitsOver ==
  ASSUME NEW t, NEW F, NEW s \in Seq(F), NEW fs, NEW K, Ordered(t, s, K),
         s # <<>>, s[1].op # "close", ClosedFirst(fs, K),
         \A i \in 1 .. Len(fs) : fs[i].op \notin YoungOp \cup {"erase"},
         (\E j \in 2 .. Len(s) : s[j].op = "erase") => \A i \in 1 .. Len(fs) : Quick(fs[i], K),
         \A i \in 1 .. Len(fs) :
           fs[i].op \in {"shutdown", "close"} /\ K[fs[i].c].handle = "accept" =>
             \E j \in 2 .. Len(s) : s[j] = Erase(K[fs[i].c].port)
  PROVE  Fits(t, fs, s, K)
<1>1. ~ (2 \in 1 .. Len(s) /\ s[2].op = "free")
  <2>1. SUFFICES ASSUME 2 \in 1 .. Len(s), s[2].op = "free"
                 PROVE  FALSE
    OBVIOUS
  <2>2. s[2 - 1] = Call("close", s[2].c)
    BY <2>1 DEF Ordered, ClosedFirst
  <2> QED
    BY <2>2 DEF Call
<1>2. YoungOnTop(t, fs) /\ UnderErase(fs, K)
  BY DEF YoungOnTop, UnderErase
<1> QED
  BY <1>1, <1>2 DEF Fits

LEMMA DrainGood ==
  ASSUME Typed, Typed', Good, NEW t \in Thread, Drain(t)
  PROVE  Good'
<1> DEFINE f == Top(t)
           g == [f EXCEPT !.op = "pop"]
           fs == <<g, f>>
<1>1. stack[t] # <<>> /\ f \in Frame /\ f.op = "drain"
  BY TopLegal DEF Drain, Calls, Top
<1>2. Undisturbed
  BY LinksUndisturbed DEF Drain
<1>3. CASE Return(t, <<>>)
  BY <1>1, <1>2, <1>3, NothingGood
<1>4. CASE Return(t, fs)
  <2>1. g \in Frame /\ g.op = "pop"
    <3>1. f \in [op : {"drain", "pop"}, m : Member, port : UserPort]
      BY <1>1 DEF Frame
    <3> QED
      BY <3>1 DEF Frame
  <2> HIDE DEF g
  <2>2. fs \in Seq(Frame) /\ Pushes(t, fs)
    BY <1>1, <1>4, <2>1, ReturnPushes DEF g
  <2>3. \A i \in 1 .. Len(fs) : fs[i].op \in {"drain", "pop"}
    BY <1>1, <2>1
  <2> HIDE DEF fs
  <2>4. /\ stack[t] \in Seq(Frame) /\ Ordered(t, stack[t], conn)
        /\ stack[t][1].op # "close"
    <3>1. stack[t] \in Seq(Frame) /\ Ordered(t, stack[t], conn)
      BY <2>2, StackPushed DEF Good, Stacked
    <3> QED
      BY <1>1, <3>1 DEF Top
  <2>5. /\ ClosedFirst(fs, conn)
        /\ \A i \in 1 .. Len(fs) : fs[i].op \notin YoungOp \cup {"erase"}
        /\ \A i \in 1 .. Len(fs) : Quick(fs[i], conn)
        /\ \A i \in 1 .. Len(fs) : fs[i].op \notin {"shutdown", "close"}
    BY <2>3 DEF ClosedFirst, YoungOp, Quick
  <2>6. Fits(t, fs, stack[t], conn)
    BY <1>1, <2>4, <2>5, FitsOver
  <2>7. Harmless(t, fs)
    BY <2>3, <2>6 DEF Harmless, YoungOp, Releasing
  <2> QED
    BY <1>1, <1>2, <2>2, <2>7, QuietGood
<1> QED
  BY <1>3, <1>4 DEF Drain

LEMMA PopUserGood ==
  ASSUME Typed, Typed', Good, NEW t \in Thread, PopUser(t), sound'
  PROVE  Good'
<1> DEFINE m == Top(t).m
           c == Head(member[m].opened)
           f == Call("shutdown", c)
           fs == <<f>>
<1>1. stack[t] # <<>> /\ Top(t) \in Frame /\ Top(t).op = "pop" /\ m \in Member /\ Top(t).port \in UserPort
  BY TopLegal, FrameFields DEF PopUser, Calls, Top
<1>2. CASE member[m].opened = <<>>
  BY <1>2, SameGood DEF PopUser, Crash
<1>3. CASE member[m].opened # <<>>
  <2>1. /\ member' = [member EXCEPT ![m].opened = Tail(@)]
        /\ Return(t, fs) /\ UNCHANGED <<conn, workconn, adm, fconn>>
        /\ ~ Distributing(c) /\ conn[c].handle = "user" /\ conn[c].port = Top(t).port
    BY <1>3 DEF PopUser, pool
  <2>2. c \in Conn
    <3>1. member[m].opened \in Seq(Conn)
      BY <1>1 DEF Typed, TypeOK
    <3> QED
      BY <1>3, <3>1
  <2>3. Undisturbed
    <3>1. \A k \in Member : member'[k].used = member[k].used /\ member'[k].adcptr = member[k].adcptr
      BY <1>1, <2>1 DEF Typed, TypeOK
    <3> QED
      BY <2>1, <3>1 DEF Undisturbed
  <2>4. Followed(c)
    <3>1. \A g \in Frames("main") : g.op \in {"distribute", "link"} => g.c # c
      BY <2>1 DEF Distributing
    <3>2. \A g \in Frames("pool") : g.op = "publish" => g.c # c
      BY <2>1 DEF Good, NewListener
    <3>3. \A u \in Thread : \A g \in Frames(u) : g.op \in YoungOp => g.c # c
      BY <3>1, <3>2, YoungFrames DEF YoungOp
    <3> QED
      BY <2>1, <3>3 DEF Followed
  <2>5. f \in Frame /\ f.op = "shutdown" /\ f.c = c
    BY <2>2, CallFrame DEF Call
  <2> HIDE DEF f
  <2>6. fs \in Seq(Frame) /\ Pushes(t, fs) /\ \A i \in 1 .. Len(fs) : fs[i] = f
    BY <1>1, <2>1, <2>5, ReturnPushes DEF f
  <2> HIDE DEF fs, c
  <2>7. /\ stack[t] \in Seq(Frame) /\ Ordered(t, stack[t], conn)
        /\ stack[t][1].op # "close"
    <3>1. stack[t] \in Seq(Frame) /\ Ordered(t, stack[t], conn)
      BY <2>6, StackPushed DEF Good, Stacked
    <3> QED
      BY <1>1, <3>1 DEF Top
  <2>8. /\ ClosedFirst(fs, conn)
        /\ \A i \in 1 .. Len(fs) : fs[i].op \notin YoungOp \cup {"erase"}
        /\ \A i \in 1 .. Len(fs) : Quick(fs[i], conn)
        /\ \A i \in 1 .. Len(fs) : conn[fs[i].c].handle # "accept"
    <3>1. "logic" \notin UserPort
      BY PortAssumption
    <3>2. Quick(f, conn)
      BY <1>1, <2>1, <2>5, <3>1 DEF Quick
    <3> QED
      BY <2>1, <2>5, <2>6, <3>2 DEF ClosedFirst, YoungOp
  <2>9. Fits(t, fs, stack[t], conn)
    BY <1>1, <2>7, <2>8, FitsOver
  <2>10. Harmless(t, fs)
    BY <2>4, <2>5, <2>6, <2>9 DEF Harmless, YoungOp, Releasing, Followed
  <2> QED
    BY <1>1, <2>3, <2>6, <2>10, QuietGood
<1> QED
  BY <1>2, <1>3

LEMMA ClosePortGood ==
  ASSUME Typed, Typed', Good, NEW t \in Thread, ClosePort(t), sound'
  PROVE  Good'
<1> DEFINE p == Top(t).port
           m == adm[p]
           l == member[m].adcptr
           fs == <<Call("shutdown", l), [op |-> "drain", m |-> m, port |-> p],
                   [op |-> "erase", port |-> p]>>
<1>1. stack[t] # <<>> /\ p \in UserPort /\ Top(t).op = "closePort"
  BY TopLegal, FrameFields DEF ClosePort, Calls, Top
<1>2. Undisturbed /\ ~ Quick(Top(t), conn)
  BY <1>1, LinksUndisturbed DEF ClosePort, Quick, Crash
<1>3. CASE Return(t, <<>>)
  BY <1>1, <1>2, <1>3, NothingGood
<1>4. CASE m # NULL /\ Return(t, fs) /\ conn[l].port = p /\ conn[l].handle = "accept"
  <2>1. m \in Member /\ l \in Conn
    BY <1>1, <1>4 DEF Typed, TypeOK
  <2>2. Return(t, fs) /\ conn[l].port = p /\ conn[l].handle = "accept"
    BY <1>4
  <2>3. fs \in Seq(Frame)
    BY <1>1, <2>1, CallFrame, SMTT(20) DEF Frame
  <2>4. Pushes(t, fs)
    BY <1>1, <2>2, ReturnPushes
  <2>5. /\ Len(fs) = 3
        /\ fs[1].op = "shutdown" /\ fs[1].c = l
        /\ fs[2].op = "drain" /\ fs[3] = Erase(p) /\ fs[3].op = "erase"
        /\ 1 .. 3 = {1, 2, 3}
    BY DEF Call, Erase
  <2> HIDE DEF fs
  <2>6. /\ stack[t] \in Seq(Frame) /\ Ordered(t, stack[t], conn) /\ Top(t) = stack[t][1]
    <3>1. stack[t] \in Seq(Frame) /\ Ordered(t, stack[t], conn)
      BY <2>3, <2>4, StackPushed DEF Good, Stacked
    <3> QED
      BY <1>1, <3>1 DEF Top
  <2>7. /\ \A k \in 2 .. Len(stack[t]) : stack[t][k].op # "erase"
        /\ ~ (2 \in 1 .. Len(stack[t]) /\ stack[t][2].op = "free")
    BY <1>2, <2>6, NothingBelow
  <2>8. Fits(t, fs, stack[t], conn)
    <3>1. "logic" \notin UserPort
      BY PortAssumption
    <3>2. ClosedFirst(fs, conn) /\ YoungOnTop(t, fs)
      BY <2>5 DEF ClosedFirst, YoungOnTop, YoungOp
    <3>3. UnderErase(fs, conn)
      BY <1>1, <2>2, <2>5, <3>1 DEF UnderErase, Quick
    <3>4. \A i \in 1 .. Len(fs) : fs[i].op \in {"shutdown", "close"} =>
            \E j \in 1 .. Len(fs) : j > i /\ fs[j] = Erase(conn[fs[i].c].port)
      BY <2>2, <2>5
    <3> QED
      BY <2>7, <3>2, <3>3, <3>4 DEF Fits
  <2>9. \A u \in Thread : \A g \in Frames(u) : g.op \in YoungOp => g.c # l
    <3>1. SUFFICES ASSUME NEW u \in Thread, NEW g \in Frames(u), g.op \in YoungOp, g.c = l
                   PROVE  FALSE
      OBVIOUS
    <3>2. g.op = "publish" /\ u = "pool"
      BY <2>2, <3>1, YoungFrames DEF Good, NewUser, YoungOp
    <3>3. g.port = p /\ Erase(p) \in Frames("main")
      BY <1>4, <2>2, <3>1, <3>2 DEF Good, NewListener
    <3>4. PICK i \in 1 .. Len(stack[u]) : g = stack[u][i]
      BY DEF Frames, Entries
    <3>5. i = 1
      BY <3>1, <3>2, <3>4 DEF Good, Stacked, Ordered, YoungOnTop
    <3>6. t = "main"
      BY <1>1, <2>6, <3>2, <3>4, <3>5 DEF Thread
    <3>7. PICK j \in 1 .. Len(stack[t]) : stack[t][j] = Erase(p)
      BY <3>3, <3>6 DEF Frames, Entries
    <3>8. j # 1
      BY <1>1, <2>6, <3>7 DEF Erase
    <3>9. j \in 2 .. Len(stack[t])
      BY <3>8
    <3> QED
      BY <2>7, <3>7, <3>9 DEF Erase
  <2>10. Harmless(t, fs)
    BY <2>5, <2>8, <2>9 DEF Harmless, Releasing, YoungOp
  <2> QED
    BY <1>1, <1>2, <2>3, <2>4, <2>10, QuietGood
<1>5. CASE Crash("null member")
  <2>1. UNCHANGED <<links, pool, stack>>
    BY <1>5 DEF ClosePort, Crash
  <2> QED
    BY <2>1, SameGood
<1> HIDE DEF fs
<1> QED
  <2>1. \/ Return(t, <<>>)
        \/ m # NULL /\ Return(t, fs) /\ conn[l].port = p /\ conn[l].handle = "accept"
        \/ Crash("null member")
    BY DEF ClosePort, fs
  <2> QED
    BY <1>3, <1>4, <1>5, <2>1

\* A call before two others.
LEMMA Concatenated ==
  ASSUME NEW F, NEW h \in Seq(F), NEW r \in Seq(F)
  PROVE  /\ h \o r \in Seq(F) /\ Len(h \o r) = Len(h) + Len(r)
         /\ \A i \in 1 .. Len(h) : (h \o r)[i] = h[i]
         /\ \A i \in 1 .. Len(r) : (h \o r)[Len(h) + i] = r[i]
  OBVIOUS

LEMMA OneBefore ==
  ASSUME NEW F, NEW g \in F, NEW r \in Seq(F), Len(r) = 2
  PROVE  /\ <<g>> \o r \in Seq(F) /\ Len(<<g>> \o r) = 3
         /\ (<<g>> \o r)[1] = g /\ (<<g>> \o r)[2] = r[1] /\ (<<g>> \o r)[3] = r[2]
<1> DEFINE h == <<g>>
           z == h \o r
<1>1. h \in Seq(F) /\ Len(h) = 1 /\ h[1] = g
  OBVIOUS
<1> HIDE DEF h
<1>2. /\ z \in Seq(F) /\ Len(z) = Len(h) + Len(r)
      /\ \A i \in 1 .. Len(h) : z[i] = h[i]
      /\ \A i \in 1 .. Len(r) : z[Len(h) + i] = r[i]
  BY <1>1, Concatenated, SMTT(20)
<1> HIDE DEF z
<1>3. z \in Seq(F) /\ Len(z) = 3 /\ z[1] = g /\ z[2] = r[1] /\ z[3] = r[2]
  BY <1>1, <1>2
<1> QED
  BY <1>3 DEF z, h

\* The partner of a connection that is not an administrator's: a forward
\* connection that was linked, hence no listener and not young.
LEMMA PartnerFollowed ==
  ASSUME Typed, Good, NEW c \in Conn, conn[c].port # "logic", conn[c].fwd # NULL,
         conn[c].port \in UserPort =>
           /\ conn[conn[c].fwd].port = "forward"
           /\ conn[conn[c].fwd].id = conn[c].id
  PROVE  /\ conn[c].fwd \in Conn /\ Followed(conn[c].fwd)
         /\ conn[conn[c].fwd].port = "forward"
<1> DEFINE f == conn[c].fwd
<1>1. f \in Conn
  BY DEF Typed, TypeOK, Connection
<1>2. conn[f].port = "forward" /\ conn[f].id # NoName
  BY DEF Good, FieldsAgree
<1>3. conn[f].handle # "accept"
  BY <1>1, <1>2 DEF Good, FieldsAgree
<1>4. \A u \in Thread : \A g \in Frames(u) : g.op \in YoungOp => g.c # f
  <2>1. SUFFICES ASSUME NEW u \in Thread, NEW g \in Frames(u), g.op \in YoungOp, g.c = f
                 PROVE  FALSE
    OBVIOUS
  <2>2. g.op = "link" /\ u = "main"
    BY <1>2, <1>3, <2>1, YoungFrames DEF Good, NewUser, NewListener, YoungOp
  <2>3. g \in Legal(u)
    BY DEF Typed, Frames, Entries
  <2>4. conn[f].port \in UserPort
    BY <2>1, <2>2, <2>3 DEF Legal
  <2> QED
    BY <1>2, <2>4, PortAssumption
<1> QED
  BY <1>1, <1>2, <1>3, <1>4 DEF Followed

LEMMA ShutdownGood ==
  ASSUME Typed, Typed', Good, NEW t \in Thread, Shutdown(t), sound'
  PROVE  Good'
<1> DEFINE c == Top(t).c
           f == conn[c].fwd
           rest == <<Call("close", c), Call("free", c)>>
           ports == [op |-> "closePorts", admin |-> conn[c].admin]
<1>1. /\ stack[t] # <<>> /\ Top(t).op = "shutdown" /\ c \in Conn /\ conn[c] \in Connection
      /\ stack[t] \in Seq(Frame) /\ Ordered(t, stack[t], conn) /\ Top(t) = stack[t][1]
      /\ 1 \in 1 .. Len(stack[t])
  <2>1. stack[t] # <<>> /\ Top(t).op = "shutdown" /\ c \in Conn
    BY TopLegal, FrameFields DEF Shutdown, Calls, Top
  <2>2. stack[t] \in Seq(Frame)
    BY DEF Typed, TypeOK
  <2> QED
    BY <2>1, <2>2, SMTT(20) DEF Typed, TypeOK, Good, Stacked, Top
<1>2. CASE Depth(t) >= MaxDepth
  BY <1>2, SameGood DEF Shutdown, Crash
<1>3. CASE ~ (Depth(t) >= MaxDepth)
  <2>1. /\ InUse(c)
        /\ conn[c].port \in UserPort /\ f # NULL =>
             conn[f].port = "forward" /\ conn[f].id = conn[c].id
    BY <1>3 DEF Shutdown
  <2>2. Undisturbed
    BY <1>3, LinksUndisturbed DEF Shutdown
  <2>3. PICK fs \in Seq(Frame) :
          /\ Return(t, fs) /\ Len(fs) \in {2, 3}
          /\ fs[Len(fs)] = Call("free", c) /\ fs[Len(fs) - 1] = Call("close", c)
          /\ Len(fs) = 3 =>
               \/ fs[1].op = "closePorts" /\ conn[c].port = "logic"
               \/ /\ fs[1].op = "shutdown" /\ Followed(fs[1].c)
                  /\ conn[fs[1].c].port = "forward"
    <3> DEFINE Fine(fs) ==
          /\ fs \in Seq(Frame) /\ Len(fs) \in {2, 3}
          /\ fs[Len(fs)] = Call("free", c) /\ fs[Len(fs) - 1] = Call("close", c)
          /\ Len(fs) = 3 =>
               \/ fs[1].op = "closePorts" /\ conn[c].port = "logic"
               \/ /\ fs[1].op = "shutdown" /\ Followed(fs[1].c)
                  /\ conn[fs[1].c].port = "forward"
    <3>1. rest \in Seq(Frame) /\ Len(rest) = 2
          /\ rest[1] = Call("close", c) /\ rest[2] = Call("free", c)
      BY <1>1, CallFrame
    <3> HIDE DEF rest
    <3>2. \A g \in Frame : /\ <<g>> \o rest \in Seq(Frame) /\ Len(<<g>> \o rest) = 3
                           /\ (<<g>> \o rest)[1] = g /\ (<<g>> \o rest)[2] = rest[1]
                           /\ (<<g>> \o rest)[3] = rest[2]
      BY <3>1, OneBefore
    <3>3. conn[c].port = "logic" => Fine(<<ports>> \o rest)
      <4>1. ports \in Frame /\ ports.op = "closePorts"
        BY <1>1 DEF Frame, Connection
      <4> HIDE DEF ports
      <4> QED
        BY <3>1, <3>2, <4>1
    <3>4. conn[c].port # "logic" /\ f # NULL => Fine(<<Call("shutdown", f)>> \o rest)
      <4>1. SUFFICES ASSUME conn[c].port # "logic", f # NULL
                     PROVE  Fine(<<Call("shutdown", f)>> \o rest)
        OBVIOUS
      <4>2. f \in Conn /\ Followed(f) /\ conn[f].port = "forward"
        BY <1>1, <2>1, <4>1, PartnerFollowed
      <4>3. /\ Call("shutdown", f) \in Frame /\ Call("shutdown", f).op = "shutdown"
            /\ Call("shutdown", f).c = f
        BY <4>2, CallFrame DEF Call
      <4> QED
        BY <3>1, <3>2, <4>2, <4>3
    <3>5. Fine(rest)
      BY <3>1
    <3>6. Return(t, CASE conn[c].port = "logic" -> <<ports>> \o rest
                       [] conn[c].port # "logic" /\ f # NULL -> <<Call("shutdown", f)>> \o rest
                       [] OTHER -> rest)
      BY <1>3 DEF Shutdown, rest
    <3> HIDE DEF Fine, ports, f
    <3>7. \E fs : Return(t, fs) /\ Fine(fs)
      <4>1. CASE conn[c].port = "logic"
        BY <3>3, <3>6, <4>1
      <4>2. CASE conn[c].port # "logic" /\ f # NULL
        BY <3>4, <3>6, <4>2
      <4>3. CASE conn[c].port # "logic" /\ f = NULL
        BY <3>5, <3>6, <4>3
      <4> QED
        BY <4>1, <4>2, <4>3
    <3> QED
      BY <3>7 DEF Fine
  <2>4. Pushes(t, fs)
    BY <1>1, <2>3, ReturnPushes
  <2> DEFINE n == Len(fs)
  <2>5. /\ n \in {2, 3} /\ Len(fs) = n
        /\ fs[n].op = "free" /\ fs[n].c = c /\ fs[n] = Call("free", c)
        /\ fs[n - 1].op = "close" /\ fs[n - 1].c = c /\ fs[n - 1] = Call("close", c)
        /\ \A i \in 1 .. n : i = n \/ i = n - 1 \/ (n = 3 /\ i = 1)
    BY <2>3 DEF Call
  <2> HIDE DEF n
  <2>6. /\ ClosedFirst(fs, conn)
        /\ \A i \in 1 .. Len(fs) : fs[i].op \in {"closePorts", "shutdown", "close", "free"}
    BY <2>3, <2>5 DEF ClosedFirst
  <2>7. (\E j \in 2 .. Len(stack[t]) : stack[t][j].op = "erase") =>
          \A i \in 1 .. Len(fs) : Quick(fs[i], conn)
    <3>1. SUFFICES ASSUME NEW j \in 2 .. Len(stack[t]), stack[t][j].op = "erase"
                   PROVE  \A i \in 1 .. Len(fs) : Quick(fs[i], conn)
      OBVIOUS
    <3>2. Quick(stack[t][1], conn)
      BY <1>1, <3>1, NothingBelow
    <3>3. conn[c].port # "logic"
      BY <1>1, <3>2 DEF Quick
    <3> QED
      BY <2>3, <2>5, <3>3 DEF Quick
  <2>8. \A i \in 1 .. Len(fs) :
          fs[i].op \in {"shutdown", "close"} /\ conn[fs[i].c].handle = "accept" =>
            \E j \in 2 .. Len(stack[t]) : stack[t][j] = Erase(conn[fs[i].c].port)
    <3>1. SUFFICES ASSUME NEW i \in 1 .. Len(fs), fs[i].op \in {"shutdown", "close"},
                          conn[fs[i].c].handle = "accept"
                   PROVE  \E j \in 2 .. Len(stack[t]) : stack[t][j] = Erase(conn[fs[i].c].port)
      OBVIOUS
    <3>2. fs[i].c = c
      BY <2>3, <2>5, <3>1 DEF Followed
    <3>3. PICK j \in 1 .. Len(stack[t]) : j > 1 /\ stack[t][j] = Erase(conn[c].port)
      BY <1>1, <3>1, <3>2 DEF Ordered, Doomed
    <3>4. j \in 2 .. Len(stack[t])
      BY <3>3
    <3> QED
      BY <3>2, <3>3, <3>4
  <2>9. Fits(t, fs, stack[t], conn)
    <3>1. stack[t][1].op # "close"
      BY <1>1
    <3> QED
      BY <1>1, <2>6, <2>7, <2>8, <3>1, FitsOver DEF YoungOp
  <2>10. \A i \in 1 .. Len(fs) : fs[i].op \in Releasing =>
           \A u \in Thread : \A g \in Frames(u) : g.op \in YoungOp => g.c # fs[i].c
    <3>1. \A u \in Thread : \A g \in Frames(u) : g.op \in YoungOp => g.c # c
      <4>1. Top(t) \in Frames(t)
        BY <1>1 DEF Frames, Entries
      <4> QED
        BY <1>1, <4>1, YoungFrames DEF Young, Releasing
    <3> QED
      BY <2>3, <2>5, <3>1 DEF Followed, Releasing
  <2>11. Harmless(t, fs)
    <3>1. \A i \in 1 .. Len(fs) : fs[i].op = "free" => i = n
      BY <2>3, <2>5
    <3> QED
      BY <2>1, <2>5, <2>6, <2>9, <2>10, <3>1 DEF Harmless, YoungOp
  <2> QED
    BY <1>1, <2>2, <2>4, <2>11, QuietGood
<1> QED
  BY <1>2, <1>3

-----------------------------------------------------------------------------
(* Steps that change the objects and the tables. *)

LEMMA FrameOf ==
  ASSUME Typed, NEW u \in Thread, NEW f \in Frames(u)
  PROVE  f \in Frame /\ f \in Legal(u)
<1>1. stack[u] \in Seq(Frame) /\ stack[u] \in Seq(Legal(u))
  BY DEF Typed, TypeOK
<1> QED
  BY <1>1 DEF Frames, Entries

LEMMA TopPending ==
  ASSUME Typed, NEW t \in Thread, stack[t] # <<>>
  PROVE  /\ stack[t] \in Seq(Frame) /\ Top(t) = stack[t][1] /\ 1 \in 1 .. Len(stack[t])
         /\ Top(t) \in Frames(t)
<1>1. stack[t] \in Seq(Frame)
  BY DEF Typed, TypeOK
<1>2. Top(t) = stack[t][1] /\ 1 \in 1 .. Len(stack[t])
  BY <1>1 DEF Top
<1> QED
  BY <1>1, <1>2 DEF Frames, Entries

LEMMA KeepsIf ==
  ASSUME Typed,
         \A u \in Thread : \A f \in Frames(u) : f.op \in Releasing /\ f.c \in Conn =>
           /\ conn'[f.c].port = conn[f.c].port /\ conn'[f.c].handle = conn[f.c].handle
           /\ conn'[f.c].fd => conn[f.c].fd
  PROVE  \A u \in Thread : Keeps(stack[u], conn, conn')
<1>1. \A u \in Thread : \A f \in Frames(u) : f.op \in Releasing => f.c \in Conn
  BY FrameOf, FrameFields DEF Releasing
<1> QED
  BY <1>1 DEF Keeps, Frames, Entries

\* What a call of thread t that leaves the calls fs does to the stacks.
LEMMA StepFrames ==
  ASSUME Typed, Good, NEW t \in Thread, NEW fs \in Seq(Frame), Pushes(t, fs),
         \A u \in Thread : Keeps(stack[u], conn, conn'), Fits(t, fs, stack[t], conn'),
         \A i \in 1 .. Len(fs) : fs[i].op # "free"
  PROVE  /\ Stacked' /\ FreedOnce'
         /\ \A u \in Thread : \A f \in Frames(u)' :
              f \in Frames(u) \/ (u = t /\ f \in Entries(fs))
         /\ \A u \in Thread : \A f \in Frames(u) :
              f \in Frames(u)' \/ (u = t /\ stack[t] # <<>> /\ f = Top(t))
         /\ Entries(fs) \subseteq Frames(t)'
         /\ \A f \in Frames(t)' : f.op \in YoungOp => f \in Entries(fs)
         /\ \A c \in Conn : ~ Released(c) => ~ Released(c)'
<1>1. Stacked'
  BY StackedStep DEF Good
<1>2. FreedOnce'
  BY FreedOnceStep DEF Good
<1>3. Stacked
  BY DEF Good
<1>4. \A c \in Conn : Call("free", c) \notin Entries(fs)
  BY DEF Entries, Call
<1>5. \A u \in Thread : \A f \in Frames(u)' : f \in Frames(u) \/ (u = t /\ f \in Entries(fs))
  BY NewFrames
<1>6. \A c \in Conn : ~ Released(c) => ~ Released(c)'
  BY <1>4, <1>5 DEF Released
<1> QED
  BY <1>1, <1>2, <1>3, <1>5, <1>6, NewFrames, OldFrames

\* The same, for a call that returns.
LEMMA PopFrames ==
  ASSUME Typed, Good, NEW t \in Thread, stack[t] # <<>>, Return(t, <<>>),
         \A u \in Thread : Keeps(stack[u], conn, conn'), Fits(t, <<>>, stack[t], conn')
  PROVE  /\ Stacked' /\ FreedOnce'
         /\ \A u \in Thread : \A f \in Frames(u)' : f \in Frames(u)
         /\ \A u \in Thread : \A f \in Frames(u) : f \in Frames(u)' \/ (u = t /\ f = Top(t))
         /\ \A f \in Frames(t)' : f.op \notin YoungOp
         /\ \A c \in Conn : ~ Released(c) => ~ Released(c)'
         /\ \A c : (Young(c) /\ c \notin Entries(fconn') /\ (\A k \in Name : workconn'[k] # c)) =>
                    Young(c)'
<1> DEFINE fs == <<>>
<1>1. fs \in Seq(Frame) /\ Pushes(t, fs) /\ Entries(fs) = {} /\ \A i \in 1 .. Len(fs) : FALSE
  BY ReturnPushes DEF Entries
<1>2. Fits(t, fs, stack[t], conn')
  OBVIOUS
<1> HIDE DEF fs
<1>3. \A c : (Young(c) /\ c \notin Entries(fconn') /\ (\A k \in Name : workconn'[k] # c)) =>
              Young(c)'
  BY <1>1, StaysYoung
<1> QED
  BY <1>1, <1>2, <1>3, StepFrames

LEMMA CloseFdGood ==
  ASSUME Typed, Typed', Good, NEW t \in Thread, CloseFd(t)
  PROVE  Good'
<1> DEFINE c == Top(t).c
<1>1. /\ stack[t] # <<>> /\ Top(t).op = "close" /\ c \in Conn /\ conn \in [Conn -> Connection]
      /\ stack[t] \in Seq(Frame) /\ Ordered(t, stack[t], conn) /\ Top(t) = stack[t][1]
      /\ 1 \in 1 .. Len(stack[t])
  <2>1. stack[t] # <<>> /\ Top(t).op = "close" /\ c \in Conn
    BY TopLegal, FrameFields DEF CloseFd, Calls, Top
  <2>2. stack[t] \in Seq(Frame)
    BY DEF Typed, TypeOK
  <2> QED
    BY <2>1, <2>2, SMTT(20) DEF Typed, TypeOK, Good, Stacked, Top
<1>2. Return(t, <<>>) /\ UNCHANGED <<fconn, workconn, adm, member>>
  BY DEF CloseFd, pool
<1>3. /\ ~ conn'[c].fd
      /\ \A d \in Conn : /\ conn'[d].port = conn[d].port /\ conn'[d].handle = conn[d].handle
                         /\ conn'[d].id = conn[d].id /\ conn'[d].admin = conn[d].admin
                         /\ conn'[d].fwd \in {conn[d].fwd, NULL}
                         /\ d # c => conn'[d] = conn[d]
  <2>1. conn' = [conn EXCEPT ![c] = [conn[c] EXCEPT
                    !.fd = FALSE,
                    !.fwd = IF conn[c].port = "logic" THEN conn[c].fwd ELSE NULL]]
    BY DEF CloseFd
  <2> DEFINE r == [conn[c] EXCEPT
                    !.fd = FALSE,
                    !.fwd = IF conn[c].port = "logic" THEN conn[c].fwd ELSE NULL]
  <2>2. /\ ~ r.fd /\ r.port = conn[c].port /\ r.handle = conn[c].handle /\ r.id = conn[c].id
        /\ r.admin = conn[c].admin /\ r.fwd \in {conn[c].fwd, NULL}
    BY <1>1 DEF Connection
  <2>3. conn' = [conn EXCEPT ![c] = r]
    BY <2>1
  <2> HIDE DEF r
  <2> QED
    BY <1>1, <2>2, <2>3
<1>4. \A u \in Thread : Keeps(stack[u], conn, conn')
  <2>1. \A d \in Conn : conn'[d].fd => conn[d].fd
    BY <1>3
  <2> QED
    BY <1>3, <2>1, KeepsIf
<1>5. Fits(t, <<>>, stack[t], conn')
  <2>1. \A i \in 1 .. Len(<<>>) : FALSE
    OBVIOUS
  <2>2. ClosedFirst(<<>>, conn') /\ YoungOnTop(t, <<>>) /\ UnderErase(<<>>, conn')
    BY <2>1 DEF ClosedFirst, YoungOnTop, UnderErase
  <2>3. 2 \in 1 .. Len(stack[t]) /\ stack[t][2].op = "free" => ~ conn'[stack[t][2].c].fd
    <3>1. SUFFICES ASSUME 2 \in 1 .. Len(stack[t]), stack[t][2].op = "free"
                   PROVE  ~ conn'[stack[t][2].c].fd
      OBVIOUS
    <3>2. stack[t][2 - 1] = Call("close", stack[t][2].c)
      BY <1>1, <3>1 DEF Ordered, ClosedFirst
    <3>3. c = stack[t][2].c
      BY <1>1, <3>2 DEF Call
    <3> QED
      BY <1>3, <3>3
  <2> QED
    BY <2>1, <2>2, <2>3 DEF Fits
<1>6. /\ Stacked' /\ FreedOnce'
      /\ \A u \in Thread : \A f \in Frames(u)' : f \in Frames(u)
      /\ \A u \in Thread : \A f \in Frames(u) : f \in Frames(u)' \/ (u = t /\ f = Top(t))
      /\ \A d \in Conn : ~ Released(d) => ~ Released(d)'
      /\ \A d : Young(d) => Young(d)'
  <2>1. \A d : Young(d) => d \notin Entries(fconn') /\ \A k \in Name : workconn'[k] # d
    BY <1>2 DEF Young
  <2> QED
    BY <1>1, <1>2, <1>4, <1>5, <2>1, PopFrames
<1>7. Distinct' /\ FreeIdle'
  <2>1. \A d \in Entries(fconn) : d \in Conn
    BY SMTT(20) DEF Typed, TypeOK, Entries
  <2>2. \A d \in Entries(fconn) : ~ conn'[d].fd /\ ~ Released(d)'
    BY <1>3, <1>6, <2>1 DEF Good, FreeIdle
  <2> QED
    BY <1>2, <2>2 DEF Good, Distinct, FreeIdle
<1>8. \A u \in Thread : \A f \in Frames(u) :
        f.op \in YoungOp => f.c \in Conn /\ f.c # c
  <2>1. Top(t) \in Frames(t)
    BY <1>1 DEF Frames, Entries
  <2> QED
    BY <1>1, <2>1, YoungFrames, FrameOf, FrameFields DEF Young, Releasing, YoungOp
<1>9. NewUser'
  BY <1>3, <1>6, <1>8 DEF Good, NewUser, Thread, YoungOp
<1>10. NewListener'
  <2>1. \A p : Erase(p) \in Frames("main") => Erase(p) \in Frames("main")'
    BY <1>1, <1>6 DEF Erase, Thread
  <2> QED
    BY <1>2, <1>3, <1>6, <1>8, <2>1 DEF Good, NewListener, Thread, YoungOp
<1>11. FieldsAgree'
  BY <1>3 DEF Good, FieldsAgree
<1>12. WorkTable'
  <2>1. \A k \in Name : workconn[k] # Absent => workconn[k] \in Conn
    BY DEF Typed, TypeOK
  <2> QED
    BY <1>2, <1>3, <2>1 DEF Good, WorkTable
<1>13. PortTable'
  <2>1. SUFFICES ASSUME NEW p \in UserPort, adm[p] # NULL
                 PROVE  /\ member[adm[p]].used
                        /\ Listens(member[adm[p]].adcptr, p)' \/ ErasePending(p)'
    BY <1>2 DEF PortTable, Listens
  <2> DEFINE l == member[adm[p]].adcptr
  <2>2. l \in Conn
    BY <2>1 DEF Typed, TypeOK
  <2>3. member[adm[p]].used /\ (Listens(l, p) \/ ErasePending(p))
    BY <2>1 DEF Good, PortTable
  <2>4. ErasePending(p) => ErasePending(p)'
    BY <1>1, <1>6 DEF ErasePending, Erase
  <2>5. Listens(l, p) /\ l = c => ErasePending(p)
    <3>1. SUFFICES ASSUME Listens(l, p), l = c
                   PROVE  ErasePending(p)
      OBVIOUS
    <3>2. \E j \in 1 .. Len(stack[t]) : stack[t][j] = Erase(p)
      BY <1>1, <3>1 DEF Ordered, Doomed, Listens
    <3> QED
      BY <3>2 DEF ErasePending, Frames, Entries
  <2>6. Listens(l, p) /\ l # c => Listens(l, p)'
    BY <1>2, <1>3, <2>2 DEF Listens
  <2> QED
    BY <1>2, <2>3, <2>4, <2>5, <2>6
<1> QED
  BY <1>6, <1>7, <1>9, <1>10, <1>11, <1>12, <1>13 DEF Good

LEMMA FreeConnectionGood ==
  ASSUME Typed, Typed', Good, NEW t \in Thread, FreeConnection(t)
  PROVE  Good'
<1>0. PICK c : c = Top(t).c
  OBVIOUS
<1>1. /\ stack[t] # <<>> /\ Top(t).op = "free" /\ c \in Conn /\ Top(t) = Call("free", c)
      /\ stack[t] \in Seq(Frame) /\ Ordered(t, stack[t], conn) /\ Top(t) = stack[t][1]
      /\ 1 \in 1 .. Len(stack[t]) /\ Top(t) \in Frames(t)
  <2>1. stack[t] # <<>> /\ Top(t).op = "free" /\ Top(t) \in Frame
    BY TopLegal DEF FreeConnection, Calls, Top
  <2>2. c \in Conn /\ Top(t) = Call("free", c)
    BY <1>0, <2>1 DEF Frame, Call
  <2>3. stack[t] \in Seq(Frame)
    BY DEF Typed, TypeOK
  <2>4. Top(t) = stack[t][1] /\ 1 \in 1 .. Len(stack[t])
    BY <2>1, <2>3 DEF Top
  <2> QED
    BY <2>1, <2>2, <2>3, <2>4 DEF Good, Stacked, Frames, Entries
<1>2. /\ Return(t, <<>>) /\ UNCHANGED <<conn, adm, member>>
      /\ fconn' = Append(fconn, c)
      /\ workconn' = IF conn[c].port # "forward" /\ conn[c].id # NoName
                     THEN [workconn EXCEPT ![conn[c].id] = Absent]
                     ELSE workconn
  BY <1>0 DEF FreeConnection
<1>3. \A u \in Thread : Keeps(stack[u], conn, conn')
  BY <1>2 DEF Keeps
<1>4. Fits(t, <<>>, stack[t], conn')
  BY <1>1, <1>2, FitsNothing
<1>5. c \notin Entries(fconn) /\ ~ conn[c].fd
  <2>1. Released(c)
    BY <1>1 DEF Released
  <2> QED
    BY <1>0, <1>1, <2>1 DEF Good, FreeIdle, Ordered, ClosedFirst
<1>6. Entries(fconn') = Entries(fconn) \cup {c} /\ Distinct'
  <2>1. fconn \in Seq(Conn)
    BY DEF Typed, TypeOK
  <2>2. /\ Len(fconn') = Len(fconn) + 1 /\ fconn'[Len(fconn) + 1] = c
        /\ \A i \in 1 .. Len(fconn) : fconn'[i] = fconn[i]
        /\ \A i \in 1 .. Len(fconn') : i \in 1 .. Len(fconn) \/ i = Len(fconn) + 1
        /\ \A i \in 1 .. Len(fconn) : i \in 1 .. Len(fconn')
        /\ Len(fconn) + 1 \in 1 .. Len(fconn')
    BY <1>1, <1>2, <2>1
  <2>3. \A i \in 1 .. Len(fconn) : fconn[i] # c
    BY <1>5 DEF Entries
  <2>4. Distinct'
    BY <2>2, <2>3 DEF Good, Distinct
  <2> QED
    BY <2>2, <2>4 DEF Entries
<1>7. \A k \in Name : workconn'[k] # Absent => workconn'[k] = workconn[k] /\ workconn[k] # c
  <2>1. SUFFICES ASSUME NEW k \in Name, workconn'[k] # Absent
                 PROVE  workconn'[k] = workconn[k] /\ workconn[k] # c
    OBVIOUS
  <2>2. workconn \in [Name -> Conn \cup {Absent}]
    BY DEF Typed, TypeOK
  <2>3. conn[c].id \in Name \cup {NoName}
    BY <1>1 DEF Typed, TypeOK, Connection
  <2>4. workconn'[k] = workconn[k]
    BY <1>2, <2>1, <2>2, <2>3
  <2>5. workconn[k] = c => conn[c].id = k /\ conn[c].port # "forward" /\ k # NoName
    BY <2>1, <2>4, NameAssumption DEF Good, WorkTable, Name
  <2>6. workconn[k] = c => workconn'[k] = Absent
    BY <1>2, <2>2, <2>5
  <2> QED
    BY <2>1, <2>4, <2>6
<1>8. \A d : Young(d) /\ d \in Conn => d # c /\ d \notin Entries(fconn') /\ \A k \in Name : workconn'[k] # d
  <2>1. \A d : Young(d) => d # c
    BY <1>0, <1>1 DEF Young, Releasing
  <2>2. \A d \in Conn : d # Absent
    BY DEF Conn, Absent
  <2> QED
    BY <1>6, <1>7, <2>1, <2>2 DEF Young
<1>9. /\ Stacked' /\ FreedOnce'
      /\ \A u \in Thread : \A f \in Frames(u)' : f \in Frames(u)
      /\ \A u \in Thread : \A f \in Frames(u) : f \in Frames(u)' \/ (u = t /\ f = Top(t))
      /\ \A d \in Conn : ~ Released(d) => ~ Released(d)'
      /\ \A d \in Conn : Young(d) => Young(d)'
  <2>1. \A d \in Conn : Young(d) => d \notin Entries(fconn') /\ \A k \in Name : workconn'[k] # d
    BY <1>8
  <2>2. /\ Stacked' /\ FreedOnce'
        /\ \A u \in Thread : \A f \in Frames(u)' : f \in Frames(u)
        /\ \A u \in Thread : \A f \in Frames(u) : f \in Frames(u)' \/ (u = t /\ f = Top(t))
        /\ \A d \in Conn : ~ Released(d) => ~ Released(d)'
        /\ \A d : (Young(d) /\ d \notin Entries(fconn') /\ (\A k \in Name : workconn'[k] # d)) =>
                  Young(d)'
    BY <1>1, <1>2, <1>3, <1>4, PopFrames
  <2> QED
    BY <2>1, <2>2
<1>10. ~ Released(c)'
  <2>1. SUFFICES ASSUME NEW u \in Thread, Call("free", c) \in Frames(u)'
                 PROVE  FALSE
    BY DEF Released
  <2>2. PICK i \in 1 .. Len(stack'[u]) : stack'[u][i] = stack[t][1]
    BY <1>1, <2>1 DEF Frames, Entries
  <2> DEFINE fs == <<>>
  <2>3. fs \in Seq(Frame) /\ Pushes(t, fs) /\ Len(fs) = 0
    BY <1>1, <1>2, ReturnPushes
  <2> HIDE DEF fs
  <2>4. CASE u = t
    <3>1. Placed(stack'[t], fs, stack[t], 0)
      BY <2>3, StackPushed
    <3>2. PICK k \in 2 .. Len(stack[t]) : stack'[t][i] = stack[t][k]
      BY <2>2, <2>4, <3>1 DEF Placed
    <3>3. k \in 1 .. Len(stack[t]) /\ k # 1
      BY <1>1
    <3> QED
      BY <1>1, <2>2, <2>4, <3>2, <3>3 DEF Good, FreedOnce
  <2>5. CASE u # t
    <3>1. stack'[u] = stack[u]
      BY <2>3, <2>5, StackPushed
    <3> QED
      BY <1>1, <2>2, <2>5, <3>1 DEF Good, FreedOnce
  <2> QED
    BY <2>4, <2>5
<1>11. FreeIdle'
  <2>1. \A d \in Entries(fconn) : d \in Conn
    BY SMTT(20) DEF Typed, TypeOK, Entries
  <2>2. \A d \in Entries(fconn') : ~ conn[d].fd /\ ~ Released(d)'
    BY <1>5, <1>6, <1>9, <1>10, <2>1 DEF Good, FreeIdle
  <2> QED
    BY <1>2, <2>2 DEF FreeIdle
<1>12. \A u \in Thread : \A f \in Frames(u) : f.op \in YoungOp => f.c \in Conn
  BY FrameOf, FrameFields DEF YoungOp
<1>13. NewUser'
  BY <1>2, <1>9, <1>12 DEF Good, NewUser, Thread, YoungOp
<1>14. NewListener'
  <2>1. \A p : Erase(p) \in Frames("main") => Erase(p) \in Frames("main")'
    BY <1>1, <1>9 DEF Erase, Thread
  <2> QED
    BY <1>2, <1>9, <1>12, <2>1 DEF Good, NewListener, Thread, YoungOp
<1>15. FieldsAgree'
  BY <1>2 DEF Good, FieldsAgree
<1>16. WorkTable'
  BY <1>2, <1>6, <1>7 DEF Good, WorkTable
<1>17. PortTable'
  <2>1. \A p : ErasePending(p) => ErasePending(p)'
    BY <1>1, <1>9 DEF ErasePending, Erase
  <2> QED
    BY <1>2, <2>1 DEF Good, PortTable, Listens
<1> QED
  BY <1>6, <1>9, <1>11, <1>13, <1>14, <1>15, <1>16, <1>17 DEF Good

LEMMA ErasePortGood ==
  ASSUME Typed, Typed', Good, NEW t \in Thread, ErasePort(t)
  PROVE  Good'
<1> DEFINE p == Top(t).port
<1>1. /\ stack[t] # <<>> /\ Top(t).op = "erase" /\ p \in UserPort /\ Top(t) = Erase(p)
      /\ stack[t] \in Seq(Frame) /\ Ordered(t, stack[t], conn) /\ Top(t) = stack[t][1]
  <2>1. stack[t] # <<>> /\ Top(t).op = "erase" /\ Top(t) \in Frame
    BY TopLegal DEF ErasePort, Calls, Top
  <2>2. p \in UserPort /\ Top(t) = Erase(p)
    BY <2>1 DEF Frame, Erase
  <2>3. stack[t] \in Seq(Frame)
    BY DEF Typed, TypeOK
  <2> QED
    BY <2>1, <2>2, <2>3 DEF Good, Stacked, Top
<1>2. /\ Return(t, <<>>) /\ UNCHANGED <<conn, fconn, workconn, member>>
      /\ adm' = [adm EXCEPT ![p] = NULL]
  BY DEF ErasePort, NULL, pool
<1>3. \A u \in Thread : Keeps(stack[u], conn, conn')
  BY <1>2 DEF Keeps
<1>4. Fits(t, <<>>, stack[t], conn')
  BY <1>1, <1>2, FitsNothing
<1>5. /\ Stacked' /\ FreedOnce'
      /\ \A u \in Thread : \A f \in Frames(u)' : f \in Frames(u)
      /\ \A u \in Thread : \A f \in Frames(u) : f \in Frames(u)' \/ (u = t /\ f = Top(t))
      /\ \A d \in Conn : ~ Released(d) => ~ Released(d)'
      /\ \A d : Young(d) => Young(d)'
  <2>1. \A d : Young(d) => d \notin Entries(fconn') /\ \A k \in Name : workconn'[k] # d
    BY <1>2 DEF Young
  <2> QED
    BY <1>1, <1>2, <1>3, <1>4, <2>1, PopFrames
<1>6. Distinct' /\ FreeIdle'
  <2>1. \A d \in Entries(fconn) : d \in Conn
    BY SMTT(20) DEF Typed, TypeOK, Entries
  <2> QED
    BY <1>2, <1>5, <2>1 DEF Good, Distinct, FreeIdle
<1>7. /\ \A q \in UserPort : adm'[q] # NULL => q # p /\ adm'[q] = adm[q]
      /\ \A q : q # p => Erase(q) # Top(t)
  <2>1. adm \in [UserPort -> Member \cup {NULL}]
    BY DEF Typed, TypeOK
  <2> QED
    BY <1>1, <1>2, <2>1 DEF Erase
<1>8. NewUser'
  BY <1>2, <1>5 DEF Good, NewUser, Thread
<1>9. NewListener'
  <2>1. \A f \in Frames("pool") : f.op = "publish" => f.port \in UserPort
    BY FrameOf, FrameFields DEF Thread
  <2>2. \A q : q # p /\ Erase(q) \in Frames("main") => Erase(q) \in Frames("main")'
    BY <1>5, <1>7 DEF Thread
  <2> QED
    BY <1>2, <1>5, <1>7, <2>1, <2>2 DEF Good, NewListener, Thread
<1>10. FieldsAgree' /\ WorkTable'
  BY <1>2 DEF Good, FieldsAgree, WorkTable
<1>11. PortTable'
  <2>1. \A q : q # p /\ ErasePending(q) => ErasePending(q)'
    BY <1>5, <1>7 DEF ErasePending
  <2> QED
    BY <1>2, <1>7, <2>1 DEF Good, PortTable, Listens
<1> QED
  BY <1>5, <1>6, <1>8, <1>9, <1>10, <1>11 DEF Good

-----------------------------------------------------------------------------
(* Steps that take an object from the pool. *)

LEMMA HoldsPointer ==
  ASSUME NEW f \in Frame, f.op \in Releasing \cup YoungOp
  PROVE  "c" \in DOMAIN f /\ f.c \in Conn
  BY DEF Frame, Releasing, YoungOp

\* The object taken is closed, and nothing leads to it.
LEMMA TakenUnknown ==
  ASSUME Typed, Good, fconn # <<>>, NEW c \in Conn, NEW p, NEW a, NEW h,
         GetConnection(c, p, a, h), sound'
  PROVE  /\ conn'[c] = Fresh(p, a, h) /\ \A d \in Conn : d # c => conn'[d] = conn[d]
         /\ ~ conn[c].fd /\ ~ Released(c) /\ \A k \in Name : workconn[k] # c
         /\ \A u \in Thread : \A f \in Frames(u) :
              f.op \in Releasing \cup YoungOp => f.c \in Conn /\ f.c # c
         /\ c \notin Entries(fconn') /\ Entries(fconn') \subseteq Entries(fconn)
         /\ Entries(fconn) \subseteq Conn /\ Distinct'
<1>1. /\ fconn \in Seq(Conn) /\ c = Head(fconn) /\ fconn' = Tail(fconn)
      /\ conn' = [conn EXCEPT ![c] = Fresh(p, a, h)] /\ conn \in [Conn -> Connection]
  BY DEF GetConnection, Typed, TypeOK
<1>2. ~ Held(c)
  BY DEF GetConnection
<1>3. /\ 1 \in 1 .. Len(fconn) /\ fconn[1] = c
      /\ \A i \in 1 .. Len(fconn') : fconn'[i] = fconn[i + 1] /\ i + 1 \in 1 .. Len(fconn) /\ i + 1 # 1
  BY <1>1
<1>4. c \in Entries(fconn) /\ Entries(fconn') \subseteq Entries(fconn) /\ Entries(fconn) \subseteq Conn
  BY <1>1, <1>3 DEF Entries
<1>5. c \notin Entries(fconn') /\ Distinct'
  <2>1. \A i \in 1 .. Len(fconn') : fconn'[i] # c
    BY <1>3 DEF Good, Distinct
  <2>2. \A i, j \in 1 .. Len(fconn') : fconn'[i] = fconn'[j] => i + 1 = j + 1
    BY <1>3 DEF Good, Distinct
  <2>3. \A i, j \in 1 .. Len(fconn') : i + 1 = j + 1 => i = j
    OBVIOUS
  <2> QED
    BY <2>1, <2>2, <2>3 DEF Entries, Distinct
<1>6. ~ conn[c].fd /\ ~ Released(c)
  BY <1>4 DEF Good, FreeIdle
<1>7. \A k \in Name : workconn[k] # c
  <2>1. c # Absent
    BY DEF Conn, Absent
  <2> QED
    BY <1>4, <2>1 DEF Good, WorkTable
<1>8. \A u \in Thread : \A f \in Frames(u) :
        f.op \in Releasing \cup YoungOp => f.c \in Conn /\ f.c # c
  BY <1>2, FrameOf, HoldsPointer DEF Held
<1>9. conn'[c] = Fresh(p, a, h) /\ \A d \in Conn : d # c => conn'[d] = conn[d]
  BY <1>1
<1> QED
  BY <1>4, <1>5, <1>6, <1>7, <1>8, <1>9

LEMMA TakenGood ==
  ASSUME Typed, Typed', Good, fconn # <<>>, NEW c \in Conn, NEW p, NEW a, NEW h,
         GetConnection(c, p, a, h), sound', UNCHANGED <<workconn, adm, member>>,
         NEW t \in Thread, stack[t] = <<>> \/ Top(t).op = "establish",
         NEW f \in Frame, f.c = c, Pushes(t, <<f>>),
         \/ t = "pool" /\ f.op = "publish" /\ f.port = p /\ p \in UserPort /\ h = "accept"
         \/ t = "main" /\ f.op \in {"distribute", "shutdown"} /\ h # "accept"
  PROVE  Good'
<1>1. /\ conn'[c] = Fresh(p, a, h) /\ \A d \in Conn : d # c => conn'[d] = conn[d]
      /\ ~ conn[c].fd /\ ~ Released(c) /\ \A k \in Name : workconn[k] # c
      /\ \A u \in Thread : \A g \in Frames(u) :
           g.op \in Releasing \cup YoungOp => g.c \in Conn /\ g.c # c
      /\ c \notin Entries(fconn') /\ Entries(fconn') \subseteq Entries(fconn)
      /\ Entries(fconn) \subseteq Conn /\ Distinct'
  BY TakenUnknown
<1>2. /\ conn'[c].fd /\ conn'[c].port = p /\ conn'[c].admin = a /\ conn'[c].id = NoName
      /\ conn'[c].fwd = NULL /\ conn'[c].handle = h
  BY <1>1 DEF Fresh
<1>3. \A u \in Thread : Keeps(stack[u], conn, conn')
  BY <1>1, KeepsIf
<1> DEFINE fs == <<f>>
<1>4. fs \in Seq(Frame) /\ Len(fs) = 1 /\ Entries(fs) = {f} /\ \A i \in 1 .. Len(fs) : fs[i] = f /\ i = 1
  BY DEF Entries
<1>5. Pushes(t, fs)
  OBVIOUS
<1> HIDE DEF fs
<1>6. stack[t] \in Seq(Frame) /\ Ordered(t, stack[t], conn) /\ Ordered(t, stack[t], conn')
  <2>1. stack[t] \in Seq(Frame) /\ Ordered(t, stack[t], conn)
    BY <1>4, <1>5, StackPushed DEF Good, Stacked
  <2> QED
    BY <1>3, <2>1, OrderedKept
<1>7. stack[t] = <<>> \/ ~ Quick(stack[t][1], conn')
  BY <1>6 DEF Quick, Top
<1>8. Fits(t, fs, stack[t], conn')
  <2>1. YoungOnTop(t, fs)
    BY <1>4 DEF YoungOnTop
  <2>2. \A i \in 1 .. Len(fs) : /\ fs[i].op \notin {"close", "free", "erase"}
                                /\ fs[i].op = "shutdown" => conn'[fs[i].c].handle # "accept"
    BY <1>2, <1>4
  <2> QED
    BY <1>6, <1>7, <2>1, <2>2, FitsPlain
<1>9. /\ Stacked' /\ FreedOnce'
      /\ \A u \in Thread : \A g \in Frames(u)' : g \in Frames(u) \/ (u = t /\ g = f)
      /\ \A u \in Thread : \A g \in Frames(u) :
           g \in Frames(u)' \/ (u = t /\ stack[t] # <<>> /\ g = Top(t))
      /\ \A d \in Conn : ~ Released(d) => ~ Released(d)'
  <2>1. \A i \in 1 .. Len(fs) : fs[i].op # "free"
    BY <1>4
  <2> QED
    BY <1>3, <1>4, <1>5, <1>8, <2>1, StepFrames
<1>10. FreeIdle'
  BY <1>1, <1>9 DEF Good, FreeIdle
<1>11. \A d : Young(d) /\ d # c => Young(d)'
  <2>1. \A g \in Entries(fs) : g.c = c
    BY <1>4
  <2> QED
    BY <1>1, <1>4, <1>5, <2>1, StaysYoung DEF Young
<1>12. f.op # "shutdown" => Young(c)'
  <2>1. f.op # "shutdown" => \A u \in Thread : \A g \in Frames(u)' : g.op \in Releasing => g.c # c
    BY <1>1, <1>9 DEF Releasing
  <2> QED
    BY <1>1, <2>1 DEF Young
<1>13. \A u \in Thread : \A q : Erase(q) \in Frames(u) => Erase(q) \in Frames(u)'
  BY <1>9 DEF Erase
<1>14. NewUser'
  BY <1>1, <1>2, <1>9, <1>11, <1>12 DEF Good, NewUser, Thread, YoungOp
<1>15. NewListener'
  <2>1. SUFFICES ASSUME NEW g \in Frames("pool")', g.op = "publish"
                 PROVE  /\ Young(g.c)' /\ conn'[g.c].fd /\ conn'[g.c].handle = "accept"
                        /\ conn'[g.c].port = g.port
                        /\ adm[g.port] # NULL /\ member[adm[g.port]].adcptr = g.c =>
                             Erase(g.port) \in Frames("main")'
    BY DEF NewListener
  <2>2. CASE g \in Frames("pool")
    BY <1>1, <1>11, <1>13, <2>1, <2>2 DEF Good, NewListener, Thread, YoungOp
  <2>3. CASE g = f /\ t = "pool"
    <3>1. /\ p \in UserPort /\ g.port = p /\ h = "accept"
      BY <2>1, <2>3
    <3>2. Erase(p) \notin Frames("pool")
      <4>1. \A k \in 1 .. Len(stack[t]) : k = 1 \/ k \in 2 .. Len(stack[t])
        BY <1>6
      <4>2. \A k \in 2 .. Len(stack[t]) : stack[t][k].op # "erase"
        BY <1>6, <1>7, NothingBelow
      <4>3. stack[t] # <<>> => stack[t][1].op # "erase"
        BY <1>6 DEF Top
      <4>4. \A k \in 1 .. Len(stack[t]) : stack[t] # <<>>
        BY <1>6
      <4> QED
        BY <2>3, <4>1, <4>2, <4>3, <4>4 DEF Frames, Entries, Erase
    <3>3. adm[p] # NULL /\ member[adm[p]].adcptr = c => Erase(p) \in Frames("main")
      BY <1>1, <3>1, <3>2 DEF Good, PortTable, Listens, ErasePending, Thread
    <3> QED
      BY <1>2, <1>12, <1>13, <2>1, <2>3, <3>1, <3>3 DEF Thread
  <2> QED
    BY <1>9, <2>1, <2>2, <2>3 DEF Thread
<1>16. FieldsAgree'
  BY <1>1, <1>2 DEF Good, FieldsAgree
<1>17. WorkTable'
  <2>1. \A k \in Name : workconn[k] # Absent => workconn[k] \in Conn
    BY DEF Typed, TypeOK
  <2> QED
    BY <1>1, <2>1 DEF Good, WorkTable
<1>18. PortTable'
  <2>1. \A q \in UserPort : adm[q] # NULL => member[adm[q]].adcptr \in Conn
    BY DEF Typed, TypeOK
  <2>2. \A q : ErasePending(q) => ErasePending(q)'
    BY <1>13 DEF ErasePending
  <2> QED
    BY <1>1, <2>1, <2>2 DEF Good, PortTable, Listens
<1> QED
  BY <1>1, <1>9, <1>10, <1>14, <1>15, <1>16, <1>17, <1>18 DEF Good

LEMMA EstablishGood ==
  ASSUME Typed, Typed', Good, NEW t \in Thread, t = "pool", Establish(t), sound'
  PROVE  Good'
<1> DEFINE p == Top(t).port
           a == Top(t).admin
<1>1. stack[t] # <<>> /\ p \in UserPort /\ Top(t).op = "establish"
  BY TopLegal, FrameFields DEF Establish, Calls, Top
<1>2. CASE Return(t, <<>>) /\ UNCHANGED <<links, pool>>
  BY <1>1, <1>2, LinksUndisturbed, NothingGood
<1>3. CASE Crash("pool empty") \/ Crash("exit(2)")
  BY <1>3, SameGood DEF Crash
<1>4. ASSUME fconn # <<>>, NEW c \in Conn, GetConnection(c, p, a, "accept"),
             Return(t, <<[op |-> "publish", port |-> p, c |-> c]>>),
             UNCHANGED <<workconn, adm, member>>
      PROVE  Good'
  <2> DEFINE f == [op |-> "publish", port |-> p, c |-> c]
  <2>1. f \in Frame /\ f.c = c /\ f.op = "publish" /\ f.port = p
    BY <1>1 DEF Frame
  <2>2. Pushes(t, <<f>>)
    BY <1>1, <1>4, ReturnPushes
  <2> HIDE DEF f, p, a
  <2> QED
    BY <1>1, <1>4, <2>1, <2>2, TakenGood
<1> QED
  <2>1. \/ Return(t, <<>>) /\ UNCHANGED <<links, pool>>
        \/ Crash("pool empty") \/ Crash("exit(2)")
        \/ /\ fconn # <<>>
           /\ \E c \in Conn : /\ GetConnection(c, p, a, "accept")
                              /\ Return(t, <<[op |-> "publish", port |-> p, c |-> c]>>)
                              /\ UNCHANGED <<workconn, adm, member>>
    BY DEF Establish
  <2> QED
    BY <1>2, <1>3, <1>4, <2>1

LEMMA HandleNotAccept ==
  ASSUME NEW p
  PROVE  HandleOf(p) # "accept"
  BY DEF HandleOf

LEMMA AcceptGood ==
  ASSUME Typed, Typed', Good, Accept, sound'
  PROVE  Good'
<1> DEFINE l == conn[Head(batch)]
<1>1. l \in Connection /\ stack["main"] = <<>>
  BY NextEventObject DEF Accept
<1>2. CASE Handles(<<>>) /\ UNCHANGED <<links, pool>>
  <2>1. <<>> \in Seq(Frame) /\ \A i \in 1 .. Len(<<>>) : FALSE
    OBVIOUS
  <2> DEFINE fs == <<>>
  <2>2. fs \in Seq(Frame) /\ Pushes("main", fs) /\ \A i \in 1 .. Len(fs) : FALSE
    BY <1>1, <1>2, <2>1, HandlesPushes
  <2> HIDE DEF fs
  <2> QED
    BY <1>1, <1>2, <2>2, LinksUndisturbed, CallGood DEF Thread
<1>3. CASE Crash("pool empty")
  BY <1>3, SameGood DEF Crash
<1>4. ASSUME NEW peer \in Client(l.port), fconn # <<>>, NEW c \in Conn,
             GetConnection(c, l.port, NoName, HandleOf(l.port)),
             Handles(<<[op |-> "distribute", c |-> c, peer |-> peer]>>),
             UNCHANGED <<workconn, adm, member>>
      PROVE  Good'
  <2> DEFINE f == [op |-> "distribute", c |-> c, peer |-> peer]
  <2>1. peer \in Name
    BY <1>4 DEF Client, Name
  <2>2. f \in Frame /\ f.c = c /\ f.op = "distribute"
    BY <2>1 DEF Frame
  <2> HIDE DEF f
  <2>3. <<f>> \in Seq(Frame)
    BY <2>2
  <2>4. Pushes("main", <<f>>)
    BY <1>1, <1>4, <2>3, HandlesPushes DEF f
  <2>5. HandleOf(l.port) # "accept"
    BY HandleNotAccept
  <2> QED
    BY <1>1, <1>4, <2>2, <2>4, <2>5, TakenGood DEF Thread
<1> QED
  <2>1. \/ Handles(<<>>) /\ UNCHANGED <<links, pool>>
        \/ \E peer \in Client(l.port) :
             \/ Crash("pool empty")
             \/ /\ fconn # <<>>
                /\ \E c \in Conn :
                     /\ GetConnection(c, l.port, NoName, HandleOf(l.port))
                     /\ Handles(<<[op |-> "distribute", c |-> c, peer |-> peer]>>)
                     /\ UNCHANGED <<workconn, adm, member>>
    BY DEF Accept, HandleOf
  <2> QED
    BY <1>2, <1>3, <1>4, <2>1

LEMMA AcceptFailsGood ==
  ASSUME Typed, Typed', Good, AcceptFails, sound'
  PROVE  Good'
<1> DEFINE l == conn[Head(batch)]
<1>1. stack["main"] = <<>> /\ fconn # <<>>
  BY NextEventObject DEF AcceptFails
<1>2. PICK c \in Conn : /\ GetConnection(c, l.port, NoName, HandleOf(l.port))
                        /\ Handles(<<Call("shutdown", c)>>)
                        /\ UNCHANGED <<workconn, adm, member>>
  BY DEF AcceptFails, HandleOf
<1> DEFINE f == Call("shutdown", c)
<1>3. f \in Frame /\ f.c = c /\ f.op = "shutdown"
  BY CallFrame DEF Call
<1> HIDE DEF f
<1>4. <<f>> \in Seq(Frame)
  BY <1>3
<1>5. Pushes("main", <<f>>)
  BY <1>1, <1>2, <1>4, HandlesPushes DEF f
<1>6. HandleOf(l.port) # "accept"
  BY HandleNotAccept
<1> QED
  BY <1>1, <1>2, <1>3, <1>5, <1>6, TakenGood DEF Thread

-----------------------------------------------------------------------------
(* Id_Distribute: the young object gets its id. *)

\* What Id_Distribute does to the object c it has in hands: only c changes,
\* only c enters m_workconn, under its id, and c is shut down or linked next.
Names(c, fs) ==
  /\ \A d \in Conn : d # c => conn'[d] = conn[d]
  /\ conn'[c].fd = conn[c].fd /\ conn'[c].port = conn[c].port /\ conn'[c].handle = conn[c].handle
  /\ conn'[c].fwd # NULL =>
       conn[c].port = "logic" \/ (conn[c].port \in UserPort /\ conn'[c].id # NoName)
  /\ UNCHANGED <<fconn, adm, member>>
  /\ \A k \in Name : workconn'[k] # Absent =>
       \/ workconn'[k] = workconn[k]
       \/ workconn'[k] = c /\ conn'[c].id = k /\ conn[c].port # "forward"
  /\ \A i \in 1 .. Len(fs) :
       \/ fs[i].op = "notify"
       \/ fs[i].op = "shutdown" /\ fs[i].c = c
       \/ /\ fs[i].op = "link" /\ i = 1 /\ fs[i].c = c
          /\ conn'[c].id = fs[i].peer /\ conn'[c].admin # NoName
          /\ workconn' = workconn
          /\ \A j \in 1 .. Len(fs) : fs[j].op # "shutdown"

LEMMA NamedGood ==
  ASSUME Typed, Typed', Good, stack["main"] # <<>>, Top("main").op = "distribute",
         NEW c, c = Top("main").c, NEW fs \in Seq(Frame), Return("main", fs), Names(c, fs)
  PROVE  Good'
<1> DEFINE t == "main"
<1>1. /\ t \in Thread /\ stack[t] # <<>> /\ Top(t).op = "distribute" /\ Pushes(t, fs)
      /\ c \in Conn /\ Top(t) \in Frames(t)
      /\ stack[t] \in Seq(Frame) /\ Ordered(t, stack[t], conn) /\ Top(t) = stack[t][1]
  <2>1. t \in Thread
    BY DEF Thread
  <2>2. stack[t] \in Seq(Frame) /\ Ordered(t, stack[t], conn)
    BY <2>1 DEF Typed, TypeOK, Good, Stacked
  <2>3. Top(t) = stack[t][1] /\ 1 \in 1 .. Len(stack[t])
    BY <2>2 DEF Top
  <2>4. Top(t) \in Frames(t) /\ Top(t) \in Frame
    BY <2>1, <2>3, TopLegal DEF Frames, Entries
  <2> QED
    BY <2>1, <2>2, <2>3, <2>4, ReturnPushes, FrameFields
<1> HIDE DEF t
<1>2. Young(c) /\ conn[c].handle # "accept"
  BY <1>1 DEF Good, NewUser, t
<1>3. \A d \in Conn : /\ conn'[d].fd = conn[d].fd /\ conn'[d].port = conn[d].port
                      /\ conn'[d].handle = conn[d].handle /\ (d # c => conn'[d] = conn[d])
  BY <1>1 DEF Names
<1>4. \A u \in Thread : Keeps(stack[u], conn, conn')
  <2>1. \A u \in Thread : \A g \in Frames(u) : g.op \in Releasing => g.c # c
    BY <1>2 DEF Young
  <2> QED
    BY <1>3, <2>1, KeepsIf
<1>5. \A i \in 1 .. Len(fs) :
        /\ fs[i].op \in {"notify", "shutdown", "link"}
        /\ fs[i].op \in {"shutdown", "link"} => fs[i].c = c
        /\ fs[i].op = "link" => i = 1
  BY DEF Names
<1>6. Fits(t, fs, stack[t], conn')
  <2>1. Ordered(t, stack[t], conn')
    BY <1>1, <1>4, OrderedKept
  <2>2. ~ Quick(stack[t][1], conn')
    BY <1>1 DEF Quick
  <2>3. YoungOnTop(t, fs)
    BY <1>5 DEF YoungOnTop, YoungOp
  <2>4. \A i \in 1 .. Len(fs) : /\ fs[i].op \notin {"close", "free", "erase"}
                                /\ fs[i].op = "shutdown" => conn'[fs[i].c].handle # "accept"
    BY <1>1, <1>2, <1>3, <1>5
  <2> QED
    BY <1>1, <2>1, <2>2, <2>3, <2>4, FitsPlain
<1>7. /\ Stacked' /\ FreedOnce'
      /\ \A u \in Thread : \A g \in Frames(u)' : g \in Frames(u) \/ (u = t /\ g \in Entries(fs))
      /\ \A u \in Thread : \A g \in Frames(u) :
           g \in Frames(u)' \/ (u = t /\ stack[t] # <<>> /\ g = Top(t))
      /\ \A g \in Frames(t)' : g.op \in YoungOp => g \in Entries(fs)
      /\ \A d \in Conn : ~ Released(d) => ~ Released(d)'
  <2>1. \A i \in 1 .. Len(fs) : fs[i].op # "free"
    BY <1>5
  <2> QED
    BY <1>1, <1>4, <1>6, <2>1, StepFrames
<1>8. fconn' = fconn /\ adm' = adm /\ member' = member /\ \A d \in Entries(fconn) : d \in Conn
  BY DEF Names, Typed, TypeOK, Entries
<1>9. Distinct' /\ FreeIdle'
  BY <1>3, <1>7, <1>8 DEF Good, Distinct, FreeIdle
<1>10. \A d \in Conn : Young(d) /\ d # c => Young(d)'
  <2>1. \A d \in Conn : Young(d) /\ d # c =>
          d \notin Entries(fconn') /\ \A k \in Name : workconn'[k] # d
    <3>1. SUFFICES ASSUME NEW d \in Conn, Young(d), d # c, NEW k \in Name, workconn'[k] = d
                   PROVE  FALSE
      BY <1>8 DEF Young
    <3>2. workconn'[k] # Absent
      BY <3>1 DEF Conn, Absent
    <3> QED
      BY <3>1, <3>2 DEF Names, Young
  <2>2. \A g \in Entries(fs) : g.op \in Releasing => g.c = c
    BY <1>5 DEF Entries, Releasing
  <2> QED
    BY <1>1, <2>1, <2>2, StaysYoung
<1>11. \A u \in Thread : \A q : Erase(q) \in Frames(u) => Erase(q) \in Frames(u)'
  BY <1>1, <1>7 DEF Erase
<1>12. NewUser'
  <2>1. SUFFICES ASSUME NEW g \in Frames("main")', g.op \in {"distribute", "link"}
                 PROVE  /\ g.op = "link" /\ Young(g.c)' /\ conn'[g.c].handle # "accept"
                        /\ conn'[g.c].id = g.peer /\ conn'[g.c].admin # NoName
    BY DEF NewUser
  <2>2. PICK i \in 1 .. Len(fs) : g = fs[i]
    BY <1>7, <2>1 DEF YoungOp, t, Entries
  <2>3. /\ g.op = "link" /\ g.c = c /\ conn'[c].id = g.peer /\ conn'[c].admin # NoName
        /\ workconn' = workconn /\ \A j \in 1 .. Len(fs) : fs[j].op # "shutdown"
    BY <2>1, <2>2 DEF Names
  <2>4. Young(c)'
    <3>1. \A f \in Entries(fs) : f.op \notin Releasing
      BY <1>5, <2>3 DEF Entries, Releasing
    <3>2. c \notin Entries(fconn') /\ \A k \in Name : workconn'[k] # c
      BY <1>2, <1>8, <2>3 DEF Young
    <3> QED
      BY <1>1, <1>2, <3>1, <3>2, StaysYoung
  <2> QED
    BY <1>1, <1>2, <1>3, <2>3, <2>4
<1>13. NewListener'
  <2>1. SUFFICES ASSUME NEW g \in Frames("pool")', g.op = "publish"
                 PROVE  /\ Young(g.c)' /\ conn'[g.c].fd /\ conn'[g.c].handle = "accept"
                        /\ conn'[g.c].port = g.port
                        /\ adm[g.port] # NULL /\ member[adm[g.port]].adcptr = g.c =>
                             Erase(g.port) \in Frames("main")'
    BY <1>8 DEF NewListener
  <2>2. g \in Frames("pool")
    BY <1>7, <2>1 DEF t, Thread
  <2>3. g.c \in Conn /\ g.c # c
    <3>1. g.c \in Conn
      BY <2>1, <2>2, FrameOf, FrameFields DEF Thread
    <3> QED
      BY <1>2, <2>1, <2>2, <3>1 DEF Good, NewListener
  <2> QED
    BY <1>3, <1>10, <1>11, <2>1, <2>2, <2>3 DEF Good, NewListener, Thread
<1>14. FieldsAgree'
  BY <1>1, <1>2, <1>3 DEF Good, FieldsAgree, Names
<1>15. WorkTable'
  <2>1. \A k \in Name : workconn[k] # Absent => workconn[k] \in Conn /\ workconn[k] # c
    BY <1>2 DEF Typed, TypeOK, Young
  <2>2. c \notin Entries(fconn')
    BY <1>2, <1>8 DEF Young
  <2>3. SUFFICES ASSUME NEW k \in Name, workconn'[k] # Absent
                 PROVE  /\ conn'[workconn'[k]].id = k /\ conn'[workconn'[k]].port # "forward"
                        /\ workconn'[k] \notin Entries(fconn')
    BY DEF WorkTable
  <2>4. CASE workconn'[k] = workconn[k]
    BY <1>3, <1>8, <2>1, <2>3, <2>4 DEF Good, WorkTable
  <2>5. CASE workconn'[k] = c /\ conn'[c].id = k /\ conn[c].port # "forward"
    BY <1>1, <1>3, <2>2, <2>5
  <2> QED
    BY <2>3, <2>4, <2>5 DEF Names
<1>16. PortTable'
  <2>1. \A q \in UserPort : adm[q] # NULL => member[adm[q]].adcptr \in Conn
    BY DEF Typed, TypeOK
  <2>2. \A q : ErasePending(q) => ErasePending(q)'
    BY <1>11 DEF ErasePending
  <2>3. \A d \in Conn : \A q : Listens(d, q) => d # c
    BY <1>2 DEF Listens
  <2> QED
    BY <1>3, <1>8, <2>1, <2>2, <2>3 DEF Good, PortTable, Listens
<1> QED
  BY <1>7, <1>9, <1>12, <1>13, <1>14, <1>15, <1>16 DEF Good

\* Id_Distribute shuts the object down or lets it be.
LEMMA OneOrNone ==
  ASSUME NEW c \in Conn, NEW fs \in {<<>>, <<Call("shutdown", c)>>}
  PROVE  /\ fs \in Seq(Frame)
         /\ \A i \in 1 .. Len(fs) : fs[i].op = "shutdown" /\ fs[i].c = c
<1> DEFINE f == Call("shutdown", c)
<1>1. f \in Frame /\ f.op = "shutdown" /\ f.c = c
  BY CallFrame DEF Call
<1> HIDE DEF f
<1>2. CASE fs = <<>>
  BY <1>2
<1>3. CASE fs = <<f>>
  BY <1>1, <1>3
<1> QED
  BY <1>2, <1>3 DEF f

LEMMA DistributeAdminGood ==
  ASSUME Typed, Typed', Good, DistributeAdmin("main")
  PROVE  Good'
<1>0. PICK c : c = Top("main").c
  OBVIOUS
<1> DEFINE a == Top("main").peer
           r == [conn[c] EXCEPT !.admin = a, !.id = a,
                                !.fwd = IF workconn[a] = Absent THEN c ELSE conn[c].fwd]
<1>1. /\ stack["main"] # <<>> /\ Top("main").op = "distribute" /\ conn[c].port = "logic"
      /\ c \in Conn /\ a \in Admin /\ a \in Name
  <2>1. stack["main"] # <<>> /\ Top("main").op = "distribute" /\ conn[c].port = "logic"
    BY <1>0 DEF DistributeAdmin, Calls, Top
  <2>2. c \in Conn /\ Top("main") \in Legal("main")
    BY <1>0, <2>1, TopLegal, FrameFields DEF Thread
  <2>3. "logic" \notin UserPort
    BY PortAssumption
  <2> QED
    BY <1>0, <2>1, <2>2, <2>3 DEF Legal, Name
<1>2. PICK fs \in {<<>>, <<Call("shutdown", c)>>} :
        Return("main", fs) /\ workconn' \in {workconn, [workconn EXCEPT ![a] = c]}
  BY <1>0 DEF DistributeAdmin
<1>3. fs \in Seq(Frame) /\ \A i \in 1 .. Len(fs) : fs[i].op = "shutdown" /\ fs[i].c = c
  BY <1>1, <1>2, OneOrNone
<1>4. Names(c, fs)
  <2>1. conn \in [Conn -> Connection] /\ workconn \in [Name -> Conn \cup {Absent}]
    BY DEF Typed, TypeOK
  <2>2. /\ r.fd = conn[c].fd /\ r.port = conn[c].port /\ r.handle = conn[c].handle /\ r.id = a
    BY <1>1, <2>1 DEF Connection
  <2>3. conn' = [conn EXCEPT ![c] = r]
    BY <1>0 DEF DistributeAdmin
  <2> HIDE DEF r
  <2>4. conn'[c] = r /\ \A d \in Conn : d # c => conn'[d] = conn[d]
    BY <1>1, <2>1, <2>3
  <2>5. \A k \in Name : workconn'[k] = workconn[k] \/ (k = a /\ workconn'[k] = c)
    BY <1>1, <1>2, <2>1
  <2>6. UNCHANGED <<fconn, adm, member>>
    BY DEF DistributeAdmin, pool
  <2> QED
    BY <1>1, <1>3, <2>2, <2>4, <2>5, <2>6 DEF Names
<1> QED
  BY <1>0, <1>1, <1>2, <1>3, <1>4, NamedGood

LEMMA DistributeForwardGood ==
  ASSUME Typed, Typed', Good, DistributeForward("main")
  PROVE  Good'
<1>0. PICK c : c = Top("main").c
  OBVIOUS
<1> DEFINE a == Top("main").peer
           r == [conn[c] EXCEPT !.admin = a]
<1>1. /\ stack["main"] # <<>> /\ Top("main") \in Frames("main")
      /\ Top("main").op = "distribute" /\ c \in Conn /\ conn[c].port = "forward"
  <2>1. stack["main"] # <<>> /\ Top("main").op = "distribute" /\ conn[c].port = "forward"
    BY <1>0 DEF DistributeForward, Calls, Top
  <2> QED
    BY <1>0, <2>1, TopLegal, FrameFields, TopPending DEF Thread
<1>2. PICK fs \in {<<>>, <<Call("shutdown", c)>>} : Return("main", fs)
  BY <1>0 DEF DistributeForward
<1>3. fs \in Seq(Frame) /\ \A i \in 1 .. Len(fs) : fs[i].op = "shutdown" /\ fs[i].c = c
  BY <1>1, <1>2, OneOrNone
<1>4. conn[c].fwd = NULL
  <2>1. conn[c].id = NoName
    BY <1>0, <1>1 DEF Good, NewUser
  <2> QED
    BY <1>1, <2>1 DEF Good, FieldsAgree
<1>5. Names(c, fs)
  <2>1. conn \in [Conn -> Connection]
    BY DEF Typed, TypeOK
  <2>2. /\ r.fd = conn[c].fd /\ r.port = conn[c].port /\ r.handle = conn[c].handle
        /\ r.fwd = NULL
    BY <1>1, <1>4, <2>1 DEF Connection
  <2>3. conn' = [conn EXCEPT ![c] = r]
    BY <1>0 DEF DistributeForward
  <2> HIDE DEF r
  <2>4. conn'[c] = r /\ \A d \in Conn : d # c => conn'[d] = conn[d]
    BY <1>1, <2>1, <2>3
  <2>5. UNCHANGED <<fconn, adm, member, workconn>>
    BY DEF DistributeForward, pool
  <2> QED
    BY <1>1, <1>3, <2>2, <2>4, <2>5 DEF Names
<1> QED
  BY <1>0, <1>1, <1>2, <1>3, <1>5, NamedGood

LEMMA DistributeUserGood ==
  ASSUME Typed, Typed', Good, DistributeUser("main")
  PROVE  Good'
<1>0. PICK c : c = Top("main").c
  OBVIOUS
<1> DEFINE u == Top("main").peer
           m == adm[conn[c].port]
           a == conn[member[m].adcptr].admin
           f == unfully[a]
           r == [conn[c] EXCEPT !.admin = a, !.id = u]
<1>1. /\ stack["main"] # <<>> /\ Top("main") \in Frames("main") /\ u \in Name
      /\ Top("main").op = "distribute" /\ c \in Conn /\ conn[c].port \in UserPort
  <2>1. stack["main"] # <<>> /\ Top("main").op = "distribute" /\ conn[c].port \in UserPort
    BY <1>0 DEF DistributeUser, Calls, Top
  <2> QED
    BY <1>0, <2>1, TopLegal, FrameFields, TopPending DEF Thread
<1>2. CASE m = NULL
  BY <1>0, <1>2, SameGood DEF DistributeUser, Crash
<1>3. CASE m # NULL
  <2>1. /\ conn' = [conn EXCEPT ![c] = r]
        /\ UNCHANGED <<fconn, adm, member, workconn>>
        /\ \/ Return("main", <<Call("shutdown", c)>>)
           \/ /\ ~ (a = NoName \/ f \in {Absent, NULL})
              /\ Return("main", <<[op |-> "link", c |-> c, peer |-> u, fwd |-> f],
                                  Call("notify", c)>>)
    BY <1>0, <1>3 DEF DistributeUser, pool
  <2>2. conn[c].fwd = NULL /\ u # NoName
    <3>1. conn[c].id = NoName
      BY <1>0, <1>1 DEF Good, NewUser
    <3>2. "logic" \notin UserPort /\ u # NoName
      BY <1>1, PortAssumption, NameAssumption DEF Name
    <3> QED
      BY <1>1, <3>1, <3>2 DEF Good, FieldsAgree
  <2>3. m \in Member /\ member[m].adcptr \in Conn /\ a \in Admin \cup {NoName}
    <3>1. m \in Member
      BY <1>1, <1>3 DEF Typed, TypeOK
    <3>2. member[m].adcptr \in Conn
      BY <3>1 DEF Typed, TypeOK
    <3> QED
      BY <3>1, <3>2 DEF Typed, TypeOK, Connection
  <2>4. PICK fs \in Seq(Frame) :
          /\ Return("main", fs)
          /\ \A i \in 1 .. Len(fs) :
               \/ fs[i].op = "notify"
               \/ fs[i].op = "shutdown" /\ fs[i].c = c
               \/ /\ fs[i].op = "link" /\ i = 1 /\ fs[i].c = c /\ fs[i].peer = u /\ a # NoName
                  /\ \A j \in 1 .. Len(fs) : fs[j].op # "shutdown"
    <3>1. ASSUME Return("main", <<Call("shutdown", c)>>)
          PROVE  /\ <<Call("shutdown", c)>> \in Seq(Frame)
                 /\ \A i \in 1 .. Len(<<Call("shutdown", c)>>) :
                      /\ <<Call("shutdown", c)>>[i].op = "shutdown"
                      /\ <<Call("shutdown", c)>>[i].c = c
      BY <1>1, OneOrNone
    <3>2. ASSUME ~ (a = NoName \/ f \in {Absent, NULL}),
                 Return("main", <<[op |-> "link", c |-> c, peer |-> u, fwd |-> f],
                                  Call("notify", c)>>)
          PROVE  \E fs \in Seq(Frame) :
                   /\ Return("main", fs)
                   /\ fs[1].op = "link" /\ fs[1].c = c /\ fs[1].peer = u
                   /\ Len(fs) = 2 /\ fs[2].op = "notify"
      <4> DEFINE x == [op |-> "link", c |-> c, peer |-> u, fwd |-> f]
                 y == Call("notify", c)
      <4>1. f \in Conn
        BY <2>3, <3>2 DEF Typed, TypeOK
      <4>2. /\ x \in Frame /\ x.op = "link" /\ x.c = c /\ x.peer = u
            /\ y \in Frame /\ y.op = "notify"
        BY <1>1, <4>1, CallFrame DEF Frame, Call
      <4>3. Return("main", <<x, y>>)
        BY <3>2
      <4> DEFINE fs == <<x, y>>
      <4>4. fs \in Seq(Frame) /\ Len(fs) = 2 /\ fs[1] = x /\ fs[2] = y
        <5> HIDE DEF x, y
        <5> QED
          BY <4>2
      <4> HIDE DEF x, y, u, f, fs
      <4>5. Return("main", fs)
        BY <4>3 DEF fs
      <4>6. fs[1].op = "link" /\ fs[1].c = c /\ fs[1].peer = u /\ fs[2].op = "notify"
        BY <4>2, <4>4
      <4> QED
        BY <4>4, <4>5, <4>6
    <3> HIDE DEF u, a, f
    <3>3. CASE Return("main", <<Call("shutdown", c)>>)
      BY <3>1, <3>3
    <3>4. ASSUME a # NoName,
                 \E fs \in Seq(Frame) :
                   /\ Return("main", fs)
                   /\ fs[1].op = "link" /\ fs[1].c = c /\ fs[1].peer = u
                   /\ Len(fs) = 2 /\ fs[2].op = "notify"
          PROVE  \E fs \in Seq(Frame) :
                   /\ Return("main", fs)
                   /\ \A i \in 1 .. Len(fs) :
                        \/ fs[i].op = "notify"
                        \/ /\ fs[i].op = "link" /\ i = 1 /\ fs[i].c = c
                           /\ fs[i].peer = u /\ a # NoName
                           /\ \A j \in 1 .. Len(fs) : fs[j].op # "shutdown"
      <4>1. PICK fs \in Seq(Frame) :
              /\ Return("main", fs)
              /\ fs[1].op = "link" /\ fs[1].c = c /\ fs[1].peer = u
              /\ Len(fs) = 2 /\ fs[2].op = "notify"
        BY <3>4
      <4>2. \A i \in 1 .. Len(fs) : i = 1 \/ i = 2
        BY <4>1
      <4>3. \A j \in 1 .. Len(fs) : fs[j].op # "shutdown"
        BY <4>1, <4>2
      <4>4. \A i \in 1 .. Len(fs) :
              \/ fs[i].op = "notify"
              \/ fs[i].op = "link" /\ i = 1 /\ fs[i].c = c /\ fs[i].peer = u
        BY <4>1, <4>2
      <4> QED
        BY <3>4, <4>1, <4>3, <4>4
    <3> QED
      BY <2>1, <3>2, <3>3, <3>4
  <2>5. Names(c, fs)
    <3>1. conn \in [Conn -> Connection]
      BY DEF Typed, TypeOK
    <3>2. /\ r.fd = conn[c].fd /\ r.port = conn[c].port /\ r.handle = conn[c].handle
          /\ r.fwd = NULL /\ r.id = u /\ r.admin = a
      BY <1>1, <2>2, <2>3, <3>1 DEF Connection
    <3> HIDE DEF r, u, a
    <3>3. conn'[c] = r /\ \A d \in Conn : d # c => conn'[d] = conn[d]
      BY <1>1, <2>1, <3>1
    <3> QED
      BY <1>1, <2>1, <2>2, <2>4, <3>2, <3>3 DEF Names
  <2> QED
    BY <1>0, <1>1, <2>4, <2>5, NamedGood
<1> QED
  BY <1>2, <1>3

\* The call on top of a stack, unless it is close, may return.
LEMMA FitsReturn ==
  ASSUME Typed, Good, NEW t \in Thread, stack[t] # <<>>, Top(t).op # "close",
         \A u \in Thread : Keeps(stack[u], conn, conn')
  PROVE  Fits(t, <<>>, stack[t], conn')
<1>1. stack[t] \in Seq(Frame) /\ Top(t) = stack[t][1] /\ Ordered(t, stack[t], conn)
  BY TopPending DEF Good, Stacked
<1>2. Ordered(t, stack[t], conn')
  BY <1>1, OrderedKept
<1> QED
  BY <1>1, <1>2, FitsNothing

LEMMA LinkGood ==
  ASSUME Typed, Typed', Good, Link("main"), sound'
  PROVE  Good'
<1>0. PICK c, f : c = Top("main").c /\ f = Top("main").fwd
  OBVIOUS
<1> DEFINE t == "main"
           u == Top("main").peer
           m == adm[conn[c].port]
<1>1. /\ t \in Thread /\ stack[t] # <<>> /\ Top(t).op = "link" /\ Top(t) \in Frames(t)
      /\ c \in Conn /\ f \in Conn /\ u \in Name /\ conn[c].port \in UserPort
  <2>1. t \in Thread /\ stack[t] # <<>> /\ Top(t).op = "link"
    BY DEF Link, Calls, Top, Thread
  <2>2. c \in Conn /\ f \in Conn /\ u \in Name
    BY <1>0, <2>1, TopLegal, FrameFields
  <2>3. conn[c].port \in UserPort
    BY <1>0, <2>1, TopLegal DEF Legal
  <2> QED
    BY <2>1, <2>2, <2>3, TopPending
<1>2. /\ Young(c) /\ conn[c].handle # "accept" /\ conn[c].id = u /\ conn[c].admin # NoName
  BY <1>0, <1>1 DEF Good, NewUser
<1>3. CASE m = NULL
  BY <1>0, <1>3, SameGood DEF Link, Crash
<1>4. CASE m # NULL
  <2>1. /\ conn' = [conn EXCEPT ![f].id = u, ![c].fwd = f]
        /\ workconn' = [workconn EXCEPT ![u] = c]
        /\ member' = [member EXCEPT ![m].opened = Append(@, c)]
        /\ Return(t, <<>>)
        /\ UNCHANGED <<adm, fconn>>
        /\ InUse(f) /\ conn[f].port = "forward"
        /\ conn[f].id = NoName /\ conn[f].admin = conn[c].admin
    BY <1>0, <1>4 DEF Link, pool
  <2>2. f # c /\ conn[f].handle # "accept" /\ conn[f].fwd = NULL /\ "forward" \notin UserPort
    <3>1. "forward" \notin UserPort
      BY PortAssumption
    <3> QED
      BY <1>1, <1>2, <2>1, <3>1 DEF Good, FieldsAgree
  <2>3. conn \in [Conn -> Connection] /\ workconn \in [Name -> Conn \cup {Absent}] /\ m \in Member
    BY <1>1, <1>4 DEF Typed, TypeOK
  <2>4. /\ \A d \in Conn : /\ conn'[d].fd = conn[d].fd /\ conn'[d].port = conn[d].port
                           /\ conn'[d].handle = conn[d].handle /\ conn'[d].admin = conn[d].admin
                           /\ (d \notin {c, f} => conn'[d] = conn[d])
        /\ conn'[c].id = u /\ conn'[c].fwd = f /\ conn'[f].id = u /\ conn'[f].fwd = NULL
    <3> DEFINE r1 == [conn[f] EXCEPT !.id = u]
               k1 == [conn EXCEPT ![f] = r1]
               r2 == [k1[c] EXCEPT !.fwd = f]
               k2 == [k1 EXCEPT ![c] = r2]
    <3>1. conn' = k2
      BY <1>1, <2>1, <2>3
    <3>2. /\ r1 \in Connection /\ r1.port = conn[f].port /\ r1.fd = conn[f].fd
          /\ r1.handle = conn[f].handle /\ r1.admin = conn[f].admin /\ r1.fwd = NULL /\ r1.id = u
      BY <1>1, <2>2, <2>3 DEF Connection
    <3>3. k1[c] = conn[c]
      BY <1>1, <2>2, <2>3
    <3>4. /\ r2.port = conn[c].port /\ r2.fd = conn[c].fd /\ r2.handle = conn[c].handle
          /\ r2.admin = conn[c].admin /\ r2.id = conn[c].id /\ r2.fwd = f
      BY <1>1, <2>3, <3>3 DEF Connection
    <3> HIDE DEF r1, r2
    <3>5. k2[c] = r2 /\ k2[f] = r1 /\ \A d \in Conn : d \notin {c, f} => k2[d] = conn[d]
      BY <1>1, <2>2, <2>3
    <3> HIDE DEF k1, k2
    <3>6. \A d \in Conn : /\ k2[d].fd = conn[d].fd /\ k2[d].port = conn[d].port
                          /\ k2[d].handle = conn[d].handle /\ k2[d].admin = conn[d].admin
      <4>1. SUFFICES ASSUME NEW d \in Conn
                     PROVE  /\ k2[d].fd = conn[d].fd /\ k2[d].port = conn[d].port
                            /\ k2[d].handle = conn[d].handle /\ k2[d].admin = conn[d].admin
        OBVIOUS
      <4>2. CASE d = c
        BY <3>4, <3>5, <4>2
      <4>3. CASE d = f
        BY <3>2, <3>5, <4>3
      <4>4. CASE d \notin {c, f}
        BY <3>5, <4>4
      <4> QED
        BY <4>2, <4>3, <4>4
    <3> QED
      BY <1>2, <3>1, <3>2, <3>4, <3>5, <3>6
  <2>5. \A k \in Name : workconn'[k] = IF k = u THEN c ELSE workconn[k]
    BY <1>1, <2>1, <2>3
  <2>6. \A k \in Member : member'[k].used = member[k].used /\ member'[k].adcptr = member[k].adcptr
    <3> DEFINE o == Append(member[m].opened, c)
               n == [member[m] EXCEPT !.opened = o]
               R == [used : BOOLEAN, adcptr : Conn, opened : Seq(Conn)]
    <3>1. member \in [Member -> R] /\ member[m] \in R
      BY <2>3 DEF Typed, TypeOK
    <3>2. member' = [member EXCEPT ![m] = n]
      BY <2>1
    <3> HIDE DEF o
    <3>3. n.used = member[m].used /\ n.adcptr = member[m].adcptr
      BY <3>1
    <3> HIDE DEF n, R
    <3> QED
      BY <2>3, <3>1, <3>2, <3>3
  <2> HIDE DEF m, u, t
  <2>7. \A v \in Thread : Keeps(stack[v], conn, conn')
    BY <2>4, KeepsIf
  <2>8. Fits(t, <<>>, stack[t], conn')
    BY <1>1, <2>7, FitsReturn
  <2>9. /\ Stacked' /\ FreedOnce'
        /\ \A v \in Thread : \A g \in Frames(v)' : g \in Frames(v)
        /\ \A v \in Thread : \A g \in Frames(v) : g \in Frames(v)' \/ (v = t /\ g = Top(t))
        /\ \A g \in Frames(t)' : g.op \notin YoungOp
        /\ \A d \in Conn : ~ Released(d) => ~ Released(d)'
        /\ \A d : (Young(d) /\ d \notin Entries(fconn') /\ (\A k \in Name : workconn'[k] # d)) =>
                   Young(d)'
    BY <1>1, <2>1, <2>7, <2>8, PopFrames
  <2>10. Distinct' /\ FreeIdle'
    <3>1. \A d \in Entries(fconn) : d \in Conn
      BY SMTT(20) DEF Typed, TypeOK, Entries
    <3> QED
      BY <2>1, <2>4, <2>9, <3>1 DEF Good, Distinct, FreeIdle
  <2>11. \A v \in Thread : \A q : Erase(q) \in Frames(v) => Erase(q) \in Frames(v)'
    BY <1>1, <2>9 DEF Erase
  <2>12. NewUser'
    BY <2>9 DEF NewUser, YoungOp, t
  <2>13. NewListener'
    <3>1. SUFFICES ASSUME NEW g \in Frames("pool")', g.op = "publish"
                   PROVE  /\ Young(g.c)' /\ conn'[g.c].fd /\ conn'[g.c].handle = "accept"
                          /\ conn'[g.c].port = g.port
                          /\ adm[g.port] # NULL /\ member'[adm[g.port]].adcptr = g.c =>
                               Erase(g.port) \in Frames("main")'
      BY <2>1 DEF NewListener
    <3>2. g \in Frames("pool") /\ g.c \in Conn /\ g.port \in UserPort
      BY <2>9, <3>1, FrameOf, FrameFields DEF Thread
    <3>3. /\ Young(g.c) /\ conn[g.c].fd /\ conn[g.c].handle = "accept" /\ conn[g.c].port = g.port
          /\ adm[g.port] # NULL /\ member[adm[g.port]].adcptr = g.c =>
               Erase(g.port) \in Frames("main")
      BY <3>1, <3>2 DEF Good, NewListener
    <3>4. g.c \notin {c, f}
      BY <1>2, <2>2, <3>3
    <3>5. Young(g.c)'
      <4>1. g.c \notin Entries(fconn') /\ \A k \in Name : workconn'[k] # g.c
        BY <2>1, <2>5, <3>3, <3>4 DEF Young
      <4> QED
        BY <2>9, <3>3, <4>1
    <3>6. adm[g.port] # NULL => member'[adm[g.port]].adcptr = member[adm[g.port]].adcptr
      BY <2>6, <3>2 DEF Typed, TypeOK
    <3> QED
      BY <2>4, <2>11, <3>2, <3>3, <3>4, <3>5, <3>6 DEF Thread
  <2>14. FieldsAgree'
    <3>1. u # NoName
      BY <1>1, NameAssumption DEF Name
    <3>2. SUFFICES ASSUME NEW d \in Conn
                   PROVE  /\ conn'[d].handle = "accept" =>
                               conn'[d].id = NoName /\ (conn'[d].port \notin UserPort =>
                                                          conn'[d].admin = NoName)
                          /\ conn'[d].fwd # NULL =>
                               \/ conn'[d].port = "logic"
                               \/ conn'[d].port \in UserPort /\ conn'[d].id # NoName
      BY DEF FieldsAgree
    <3>3. CASE d = c
      BY <1>1, <1>2, <2>4, <3>1, <3>3
    <3>4. CASE d = f
      BY <1>1, <2>2, <2>4, <3>4
    <3>5. CASE d \notin {c, f}
      BY <2>4, <3>5 DEF Good, FieldsAgree
    <3> QED
      BY <3>3, <3>4, <3>5
  <2>15. WorkTable'
    <3>1. SUFFICES ASSUME NEW k \in Name, workconn'[k] # Absent
                   PROVE  /\ conn'[workconn'[k]].id = k /\ conn'[workconn'[k]].port # "forward"
                          /\ workconn'[k] \notin Entries(fconn')
      BY DEF WorkTable
    <3>2. CASE k = u
      <4>1. workconn'[k] = c /\ fconn' = fconn /\ c \notin Entries(fconn)
        BY <1>2, <2>1, <2>5, <3>2 DEF Young
      <4>2. conn'[c].id = k /\ conn'[c].port # "forward"
        BY <1>1, <2>2, <2>4, <3>2
      <4> QED
        BY <4>1, <4>2
    <3>3. CASE k # u
      <4>1. workconn'[k] = workconn[k] /\ workconn[k] \in Conn
        BY <2>3, <2>5, <3>1, <3>3
      <4>2. workconn[k] \notin {c, f}
        BY <1>2, <2>1, <3>1, <4>1 DEF Young, Good, WorkTable
      <4>3. /\ conn[workconn[k]].id = k /\ conn[workconn[k]].port # "forward"
            /\ workconn[k] \notin Entries(fconn) /\ fconn' = fconn
        BY <2>1, <3>1, <4>1 DEF Good, WorkTable
      <4>4. conn'[workconn[k]] = conn[workconn[k]]
        BY <2>4, <4>1, <4>2
      <4> QED
        BY <4>1, <4>3, <4>4
    <3> QED
      BY <3>2, <3>3
  <2>16. PortTable'
    <3>1. SUFFICES ASSUME NEW q \in UserPort, adm[q] # NULL, NEW l, l = member'[adm[q]].adcptr
                   PROVE  member'[adm[q]].used /\ (Listens(l, q)' \/ ErasePending(q)')
      BY <2>1 DEF PortTable, Listens
    <3>2. adm[q] \in Member /\ member[adm[q]].adcptr \in Conn
      BY <3>1 DEF Typed, TypeOK
    <3>3. member[adm[q]].used /\ (Listens(member[adm[q]].adcptr, q) \/ ErasePending(q))
      BY <3>1 DEF Good, PortTable
    <3> QED
      BY <2>4, <2>6, <2>11, <3>1, <3>2, <3>3 DEF Listens, ErasePending
  <2> QED
    BY <2>9, <2>10, <2>12, <2>13, <2>14, <2>15, <2>16 DEF Good
<1> QED
  BY <1>3, <1>4

LEMMA PublishGood ==
  ASSUME Typed, Typed', Good, Publish("pool")
  PROVE  Good'
<1>0. PICK c, p : c = Top("pool").c /\ p = Top("pool").port
  OBVIOUS
<1> DEFINE t == "pool"
<1>1. /\ t \in Thread /\ stack[t] # <<>> /\ Top(t).op = "publish" /\ Top(t) \in Frames(t)
      /\ c \in Conn /\ p \in UserPort
  <2>1. t \in Thread /\ stack[t] # <<>> /\ Top(t).op = "publish"
    BY DEF Publish, Calls, Top, Thread
  <2> QED
    BY <1>0, <2>1, TopLegal, FrameFields, TopPending
<1>2. Listens(c, p)
  BY <1>0, <1>1 DEF Good, NewListener, Listens
<1>3. PICK m \in Member :
        /\ \A k \in Member : member[k].used <=> k < m
        /\ member' = [member EXCEPT ![m] = [used |-> TRUE, adcptr |-> c, opened |-> <<>>]]
        /\ adm' = [adm EXCEPT ![p] = m]
  BY <1>0 DEF Publish
<1>4. Return(t, <<>>) /\ UNCHANGED <<conn, fconn, workconn>>
  BY DEF Publish, pool
<1> HIDE DEF t
<1>5. \A u \in Thread : Keeps(stack[u], conn, conn')
  BY <1>4 DEF Keeps
<1>6. Fits(t, <<>>, stack[t], conn')
  BY <1>1, <1>5, FitsReturn
<1>7. /\ Stacked' /\ FreedOnce'
      /\ \A u \in Thread : \A g \in Frames(u)' : g \in Frames(u)
      /\ \A u \in Thread : \A g \in Frames(u) : g \in Frames(u)' \/ (u = t /\ g = Top(t))
      /\ \A g \in Frames(t)' : g.op \notin YoungOp
      /\ \A d \in Conn : ~ Released(d) => ~ Released(d)'
      /\ \A d : Young(d) => Young(d)'
  <2>1. \A d : Young(d) => d \notin Entries(fconn') /\ \A k \in Name : workconn'[k] # d
    BY <1>4 DEF Young
  <2> QED
    BY <1>1, <1>4, <1>5, <1>6, <2>1, PopFrames
<1>8. Distinct' /\ FreeIdle'
  <2>1. \A d \in Entries(fconn) : d \in Conn
    BY SMTT(20) DEF Typed, TypeOK, Entries
  <2> QED
    BY <1>4, <1>7, <2>1 DEF Good, Distinct, FreeIdle
<1>9. NewUser'
  BY <1>4, <1>7 DEF Good, NewUser, Thread
<1>10. NewListener'
  BY <1>7 DEF NewListener, YoungOp, t
<1>11. FieldsAgree' /\ WorkTable'
  BY <1>4 DEF Good, FieldsAgree, WorkTable
<1>12. PortTable'
  <2>1. SUFFICES ASSUME NEW q \in UserPort, adm'[q] # NULL, NEW l, l = member'[adm'[q]].adcptr
                 PROVE  member'[adm'[q]].used /\ (Listens(l, q)' \/ ErasePending(q)')
    BY DEF PortTable, Listens
  <2>2. \A d : Listens(d, q) => Listens(d, q)'
    BY <1>4 DEF Listens
  <2>3. ErasePending(q) => ErasePending(q)'
    BY <1>1, <1>7 DEF ErasePending, Erase
  <2>4. CASE q = p
    <3>1. adm'[q] = m
      BY <1>1, <1>3, <2>4 DEF Typed, TypeOK
    <3>2. member'[m].used /\ member'[m].adcptr = c
      BY <1>3 DEF Typed, TypeOK
    <3>3. Listens(c, q)
      BY <1>2, <2>4
    <3> QED
      BY <2>1, <2>2, <3>1, <3>2, <3>3
  <2>5. CASE q # p
    <3>1. adm'[q] = adm[q] /\ adm[q] \in Member
      BY <1>1, <1>3, <2>1, <2>5 DEF Typed, TypeOK
    <3>2. member[adm[q]].used /\ (Listens(member[adm[q]].adcptr, q) \/ ErasePending(q))
      BY <2>1, <3>1 DEF Good, PortTable
    <3>3. adm[q] # m
      BY <1>3, <3>1, <3>2 DEF Member
    <3>4. member'[adm[q]] = member[adm[q]]
      BY <1>3, <3>1, <3>3 DEF Typed, TypeOK
    <3> QED
      BY <2>1, <2>2, <2>3, <3>1, <3>2, <3>4
  <2> QED
    BY <2>4, <2>5
<1> QED
  BY <1>7, <1>8, <1>9, <1>10, <1>11, <1>12 DEF Good

-----------------------------------------------------------------------------
(* Every step, and the theorems. *)

\* What once went wrong stays recorded.
LEMMA ReleaseStepSound ==
  ASSUME NEW t \in Thread, ReleaseStep(t), sound'
  PROVE  sound
  BY Zenon DEF ReleaseStep, Shutdown, CloseFd, FreeConnection, FindEntry, IndexEntry, ClosePorts,
     CloseEach, ClosePort, Drain, PopUser, ErasePort, Crash

LEMMA SoundBefore ==
  ASSUME [Next]_vars, sound'
  PROVE  sound
<1>1. CASE UNCHANGED vars
  BY <1>1, Zenon DEF vars
<1>2. CASE EpollWait
  BY <1>2, Zenon DEF EpollWait
<1>3. CASE Accept
  BY <1>3, Zenon DEF Accept, GetConnection, Crash
<1>4. CASE AcceptFails
  BY <1>4, Zenon DEF AcceptFails, GetConnection
<1>5. CASE ReadFails \/ ReadCommand \/ ReadMessage
  BY <1>5, Zenon DEF ReadFails, ReadCommand, ReadMessage
<1>6. CASE LoopStep
  <2>1. "main" \in Thread
    BY DEF Thread
  <2> QED
    BY <1>6, <2>1, ReleaseStepSound, Zenon DEF LoopStep, DistributeAdmin, DistributeForward,
       DistributeUser, Link, NotifyAdmin, Crash
<1>7. CASE TakeCommand
  BY <1>7, Zenon DEF TakeCommand
<1>8. CASE CommandStep
  <2>1. "pool" \in Thread
    BY DEF Thread
  <2> QED
    BY <1>8, <2>1, ReleaseStepSound, Zenon DEF CommandStep, Dispatch, Reply, Establish, Publish,
       GetConnection, Crash
<1> QED
  BY <1>1, <1>2, <1>3, <1>4, <1>5, <1>6, <1>7, <1>8 DEF Next, Event

LEMMA ReleaseStepGood ==
  ASSUME Typed, Typed', Good, NEW t \in Thread, ReleaseStep(t), sound'
  PROVE  Good'
  BY ShutdownGood, CloseFdGood, FreeConnectionGood, FindEntryGood, IndexEntryGood,
     ClosePortsGood, CloseEachGood, ClosePortGood, DrainGood, PopUserGood, ErasePortGood
     DEF ReleaseStep

\* The inductive invariant: while sound, the pool and its tables are in order.
SoundInv == sound => Good

LEMMA StepGood ==
  ASSUME Typed, Typed', [Next]_vars, Good, sound'
  PROVE  Good'
<1>1. CASE UNCHANGED vars \/ EpollWait
  BY <1>1, SameGood DEF vars, EpollWait
<1>2. CASE Event
  BY <1>2, AcceptGood, AcceptFailsGood, ReadFailsGood, ReadCommandGood, ReadMessageGood DEF Event
<1>3. CASE LoopStep
  BY <1>3, DistributeAdminGood, DistributeForwardGood, DistributeUserGood, LinkGood,
     NotifyAdminGood, ReleaseStepGood DEF LoopStep, Thread
<1>4. CASE TakeCommand
  BY <1>4, TakeCommandGood
<1>5. CASE CommandStep
  BY <1>5, DispatchGood, ReplyGood, EstablishGood, PublishGood, ReleaseStepGood
     DEF CommandStep, Thread
<1> QED
  BY <1>1, <1>2, <1>3, <1>4, <1>5 DEF Next

LEMMA InitGood ==
  ASSUME Init
  PROVE  Good
<1>1. \A t \in Thread : stack[t] = <<>> /\ Frames(t) = {}
  BY DEF Init, Frames, Entries
<1>2. /\ \A i \in 1 .. Len(fconn) : fconn[i] = i + 2 /\ fconn[i] \in Conn
      /\ \A i \in 1 .. Len(fconn) : i \in Nat
  <2>1. fconn = [i \in 1 .. WorkConnections - 2 |-> i + 2] /\ WorkConnections - 2 \in Nat
    BY PoolAssumption DEF Init
  <2>2. Len(fconn) = WorkConnections - 2
    BY <2>1
  <2> QED
    BY <2>1, <2>2, PoolAssumption DEF Conn
<1>3. \A c \in Conn :
        /\ conn[c].id = NoName /\ conn[c].admin = NoName /\ conn[c].fwd = NULL
        /\ c > 2 => ~ conn[c].fd
  <2>1. SUFFICES ASSUME NEW c \in Conn
                 PROVE  /\ conn[c].id = NoName /\ conn[c].admin = NoName /\ conn[c].fwd = NULL
                        /\ c > 2 => ~ conn[c].fd
    OBVIOUS
  <2>2. \/ c \in {1, 2} /\ conn[c] \in {Fresh("logic", NoName, "accept"),
                                        Fresh("forward", NoName, "accept")}
        \/ conn[c] = [Fresh("none", NoName, "none") EXCEPT !.fd = FALSE]
    BY DEF Init
  <2> QED
    BY <2>2 DEF Fresh
<1>4. Distinct
  BY <1>2 DEF Distinct
<1>5. FreeIdle
  BY <1>1, <1>2, <1>3 DEF FreeIdle, Entries, Released
<1>6. FreedOnce /\ Stacked
  <2>1. 1 .. Len(<<>>) = {}
    OBVIOUS
  <2> QED
    BY <1>1, <2>1 DEF FreedOnce, Stacked, Ordered, ClosedFirst, YoungOnTop, UnderErase, Doomed
<1>7. NewUser /\ NewListener
  BY <1>1 DEF NewUser, NewListener, Thread
<1>8. FieldsAgree
  BY <1>3 DEF FieldsAgree
<1>9. WorkTable /\ PortTable
  BY DEF Init, WorkTable, PortTable
<1> QED
  BY <1>4, <1>5, <1>6, <1>7, <1>8, <1>9 DEF Good

LEMMA AlwaysSound == Spec => []SoundInv
<1>1. Init => SoundInv
  BY InitGood DEF SoundInv
<1>2. Typed /\ Typed' /\ SoundInv /\ [Next]_vars => SoundInv'
  <2>1. SUFFICES ASSUME Typed, Typed', SoundInv, [Next]_vars, sound'
                 PROVE  Good'
    BY DEF SoundInv
  <2>2. sound
    BY <2>1, SoundBefore
  <2> QED
    BY <2>1, <2>2, StepGood DEF SoundInv
<1> QED
  BY <1>1, <1>2, AlwaysTyped, PTL DEF Spec

\* Until a call releases an object twice or follows a dead pointer, the free
\* list of the pool holds every object at most once, closed, and no pending
\* call of either thread is about to give one of them back, for every size of
\* the pool (GetOne, Free_connection, ActiveShutdown).
THEOREM FreeListHolds == Spec => []FreeListSound
<1>1. SoundInv => FreeListSound
  BY DEF SoundInv, Good, Distinct, FreeIdle, FreeListSound
<1> QED
  BY <1>1, AlwaysSound, PTL

\* Until then m_workconn maps an id only to an object that bears it, is not a
\* forward connection and is not in the free list, for all sets of
\* administrators and users (Id_Distribute, Free_connection).
THEOREM WorkTableHolds == Spec => []WorkTableExact
<1>1. SoundInv => WorkTableExact
  BY DEF SoundInv, Good, WorkTable, WorkTableExact
<1> QED
  BY <1>1, AlwaysSound, PTL

\* Until then every entry of m_admin stands for an open listener of its port,
\* unless a Close_Socket is about to erase it, for all sets of ports
\* (Establish_listenSocket, Close_Socket).
THEOREM PortTableHolds == Spec => []PortTableExact
<1>1. SoundInv => PortTableExact
  BY DEF SoundInv, Good, PortTable, Listens, ErasePending, Erase, PortTableExact
<1> QED
  BY <1>1, AlwaysSound, PTL

=============================================================================
