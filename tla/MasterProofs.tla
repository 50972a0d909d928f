---------------------------- MODULE MasterProofs ----------------------------
(***************************************************************************)
(* Master for every number of workers and of signals: its types, that no   *)
(* dead worker is left without a SIGCHLD to come, and that a port only     *)
(* workers compete for is bound when one has come past it.                 *)
(***************************************************************************)
EXTENDS Master, SequenceTheorems, TLAPS

\* Only a handler of SIGCHLD waits, and handlers run in sigsuspend.
FramesSound ==
  /\ frames # <<>> => pc = "suspended"
  /\ \A i \in 1 .. Len(frames) : frames[i].at = "wait" => frames[i].sig = "CHLD"

Inv == TypeOK /\ FramesSound /\ ZombieAnnounced /\ PortsBound

\* While the loop of fork goes on there is a worker left to fork.
NextExists == pc = "fork" => next \in Worker

FullInv == Inv /\ NextExists

Frame == [sig : Caught, at : {"enter", "wait", "leave"}]

LEMMA InitInv == Init => FullInv
<1> SUFFICES ASSUME Init PROVE FullInv
  OBVIOUS
<1> USE BoundAssumption DEF Init
<1>1. TypeOK
  <2>1. reap \in BOOLEAN /\ deaths \in BOOLEAN
    BY Zenon
  <2>2. child \in [Worker -> {"unborn", "failed", "control", "forward", "running", "zombie", "reaped"}]
    OBVIOUS
  <2>3. owner \in [Port -> Worker \cup {NoWorker}]
    OBVIOUS
  <2>4. /\ pc \in {"fork", "suspend", "suspended", "dead"} /\ next \in 1 .. Workers + 1
        /\ pending \subseteq Signal /\ udp \subseteq Worker /\ refused \subseteq Port /\ sent \in 0 .. MaxSignals
        /\ frames \in Seq([sig : Caught, at : {"enter", "wait", "leave"}])
    OBVIOUS
  <2> QED
    BY <2>1, <2>2, <2>3, <2>4 DEF TypeOK
<1>2. FramesSound /\ ZombieAnnounced
  BY DEF FramesSound, ZombieAnnounced, Zombie
<1>3. PortsBound
  BY DEF PortsBound, Past, Port
<1>4. NextExists
  BY DEF NextExists, Worker
<1> QED
  BY <1>1, <1>2, <1>3, <1>4 DEF Inv, FullInv

\* Forking adds no zombie and no worker that runs.
LEMMA ForkInv == FullInv /\ Fork => FullInv'
<1> SUFFICES ASSUME FullInv, Fork PROVE FullInv'
  OBVIOUS
<1> USE BoundAssumption DEF FullInv, Inv, Fork, NextExists
<1>1. PICK state \in {"control", "failed"} : child' = [child EXCEPT ![next] = state]
  OBVIOUS
<1>2. TypeOK'
  BY <1>1 DEF TypeOK, Worker, Port
<1>3. FramesSound'
  BY DEF FramesSound
<1>4. Zombie' \subseteq Zombie
  BY <1>1 DEF Zombie, TypeOK
<1>5. ZombieAnnounced'
  BY <1>4 DEF ZombieAnnounced
<1>6. \A w \in Worker, p \in Port : Past(w, p)' => Past(w, p)
  BY <1>1 DEF Past, Port, TypeOK
<1>7. PortsBound'
  BY <1>6 DEF PortsBound
<1>8. NextExists'
  BY DEF NextExists, TypeOK, Worker
<1> QED
  BY <1>2, <1>3, <1>5, <1>7, <1>8

\* A signal enters its handler: SIGCHLD is no longer pending, but handled.
LEMMA DeliverInv == ASSUME NEW s \in Signal PROVE FullInv /\ Deliver(s) => FullInv'
<1> SUFFICES ASSUME FullInv, Deliver(s) PROVE FullInv'
  OBVIOUS
<1> USE DEF FullInv, Inv, Deliver, Deliverable
<1> DEFINE f == [sig |-> s, at |-> "enter"]
<1>1. f \in Frame /\ frames \in Seq(Frame) /\ frames' = Append(frames, f)
  BY DEF TypeOK, Frame, Caught
<1>2. frames' \in Seq(Frame) /\ Len(frames') = Len(frames) + 1 /\ Len(frames) \in Nat
  BY <1>1
<1>3. frames'[Len(frames')] = f /\ \A i \in 1 .. Len(frames) : frames'[i] = frames[i]
  BY <1>1
<1>4. TypeOK'
  BY <1>2 DEF TypeOK, Frame
<1>5. FramesSound'
  BY <1>2, <1>3 DEF FramesSound
<1>6. ZombieAnnounced'
  <2>1. CASE s = "CHLD"
    <3>1. Len(frames') \in 1 .. Len(frames')
      BY <1>2
    <3> QED
      BY <2>1, <1>3, <3>1 DEF ZombieAnnounced
  <2>2. CASE s # "CHLD"
    <3>1. Zombie' = Zombie
      BY DEF Zombie
    <3>2. 1 .. Len(frames) \subseteq 1 .. Len(frames')
      BY <1>2
    <3> QED
      BY <2>2, <1>3, <3>1, <3>2 DEF ZombieAnnounced
  <2> QED
    BY <2>1, <2>2
<1>7. PortsBound' /\ NextExists'
  BY DEF PortsBound, Past, NextExists
<1> QED
  BY <1>4, <1>5, <1>6, <1>7

\* What is left of a sequence without its last element.
LEMMA Shortened ==
  ASSUME NEW S, NEW s \in Seq(S), NEW n \in Nat, Len(s) = n + 1
  PROVE  /\ SubSeq(s, 1, n) \in Seq(S) /\ Len(SubSeq(s, 1, n)) = n
         /\ \A i \in 1 .. n : SubSeq(s, 1, n)[i] = s[i]
<1>1. 1 \in Int /\ n \in Int /\ \A i \in 1 .. n : s[i] \in S
  OBVIOUS
<1>2. /\ SubSeq(s, 1, n) \in Seq(S)
      /\ Len(SubSeq(s, 1, n)) = IF 1 <= n THEN n - 1 + 1 ELSE 0
      /\ \A i \in 1 .. n - 1 + 1 : SubSeq(s, 1, n)[i] = s[1 + i - 1]
  BY <1>1, SubSeqProperties, SMTT(30)
<1>3. n - 1 + 1 = n /\ \A i \in 1 .. n : 1 + i - 1 = i
  OBVIOUS
<1> QED
  BY <1>2, <1>3

\* The top frame goes on, from "wait" only when there is no zombie.
LEMMA HandlerInv == FullInv /\ Handler => FullInv'
<1> SUFFICES ASSUME FullInv, Handler PROVE FullInv'
  OBVIOUS
<1> USE DEF FullInv, Inv
<1> DEFINE n == Len(frames)
<1>1. frames \in Seq(Frame) /\ frames # <<>>
  BY DEF TypeOK, Frame, Handler, Enter, Wait, Leave
<1>2. n \in Nat \ {0} /\ n \in 1 .. n /\ Top = frames[n] /\ frames[n] \in Frame
  BY <1>1 DEF Top
<1>3. ASSUME NEW at \in {"enter", "wait", "leave"}, Goto(at)
      PROVE  /\ frames' \in Seq(Frame) /\ Len(frames') = n /\ frames'[n].at = at
             /\ frames'[n].sig = frames[n].sig
             /\ \A i \in 1 .. n : i # n => frames'[i] = frames[i]
  <2>1. frames' = [frames EXCEPT ![n].at = at]
    BY <1>3 DEF Goto
  <2>2. [frames[n] EXCEPT !.at = at] \in Frame
    BY <1>2 DEF Frame
  <2> QED
    BY <1>1, <1>2, <2>1, <2>2 DEF Frame
<1>4. CASE Enter
  <2>1. CASE Top.sig = "CHLD"
    <3>1. Goto("wait") /\ reap' = TRUE
      BY <1>4, <2>1 DEF Enter
    <3> QED
      BY <1>1, <1>2, <1>3, <1>4, <2>1, <3>1
      DEF Enter, TypeOK, Frame, FramesSound, ZombieAnnounced, Zombie, PortsBound, Past, NextExists
  <2>2. CASE Top.sig # "CHLD"
    <3>1. Goto("leave") /\ reap' = reap
      BY <1>4, <2>2 DEF Enter
    <3>2. TypeOK' /\ PortsBound' /\ NextExists'
      BY <1>3, <1>4, <3>1 DEF Enter, TypeOK, Frame, PortsBound, Past, NextExists
    <3>3. FramesSound'
      BY <1>1, <1>2, <1>3, <1>4, <3>1 DEF Enter, FramesSound
    <3>4. ZombieAnnounced'
      BY <1>2, <1>3, <1>4, <2>2, <3>1 DEF Enter, ZombieAnnounced, Zombie
    <3> QED
      BY <3>2, <3>3, <3>4
  <2> QED
    BY <2>1, <2>2
<1>5. CASE Wait
  <2>1. CASE Zombie = {} /\ Goto("leave") /\ UNCHANGED child
    BY <1>1, <1>2, <1>3, <1>5, <2>1, SMTT(20)
    DEF Wait, TypeOK, Frame, FramesSound, ZombieAnnounced, Zombie, PortsBound, Past, NextExists
  <2>2. CASE \E w \in Zombie : child' = [child EXCEPT ![w] = "reaped"] /\ UNCHANGED frames
    <3>1. PICK w \in Zombie : child' = [child EXCEPT ![w] = "reaped"] /\ UNCHANGED frames
      BY <2>2
    <3>2. TypeOK' /\ FramesSound' /\ NextExists'
      BY <1>5, <3>1 DEF Wait, TypeOK, FramesSound, NextExists, Zombie
    <3>3. Zombie' \subseteq Zombie
      BY <3>1 DEF Zombie, TypeOK
    <3>4. ZombieAnnounced'
      BY <1>5, <3>1, <3>3 DEF Wait, ZombieAnnounced
    <3>5. \A v \in Worker, p \in Port : Past(v, p)' => Past(v, p)
      BY <1>5, <3>1 DEF Past, Port, TypeOK, Zombie, Wait
    <3>6. PortsBound'
      BY <1>5, <3>5 DEF PortsBound, Wait
    <3> QED
      BY <3>2, <3>4, <3>6
  <2> QED
    BY <1>5, <2>1, <2>2 DEF Wait
<1>6. CASE Leave
  <2>1. frames' = SubSeq(frames, 1, n - 1) /\ frames[n].at = "leave"
    BY <1>2, <1>6 DEF Leave
  <2>2. /\ frames' \in Seq(Frame) /\ Len(frames') = n - 1
        /\ \A i \in 1 .. n - 1 : frames'[i] = frames[i]
    <3>1. n - 1 \in Nat /\ Len(frames) = (n - 1) + 1
      BY <1>2
    <3> HIDE DEF n
    <3> QED
      BY <1>1, <2>1, <3>1, Shortened
  <2>3. pc = "suspended" /\ (frames' # <<>> => n # 1)
    BY <1>1, <1>2, <2>2 DEF FramesSound
  <2>4. TypeOK'
    BY <1>6, <2>2 DEF Leave, TypeOK, Frame
  <2>5. FramesSound'
    BY <1>2, <1>6, <2>2, <2>3 DEF Leave, FramesSound
  <2>6. ZombieAnnounced'
    <3>1. CASE "CHLD" \in pending
      BY <1>6, <3>1 DEF Leave, ZombieAnnounced
    <3>2. CASE Zombie = {}
      BY <1>6, <3>2 DEF Leave, ZombieAnnounced, Zombie
    <3>3. ASSUME NEW i \in 1 .. n, frames[i].sig = "CHLD", frames[i].at \in {"enter", "wait"}
          PROVE  ZombieAnnounced'
      <4>1. i \in 1 .. n - 1
        BY <1>2, <2>1, <3>3
      <4> QED
        BY <2>2, <3>3, <4>1 DEF ZombieAnnounced
    <3> QED
      BY <3>1, <3>2, <3>3 DEF ZombieAnnounced
  <2>7. PortsBound' /\ NextExists'
    BY <1>6, <2>3 DEF Leave, PortsBound, Past, NextExists
  <2> QED
    BY <2>4, <2>5, <2>6, <2>7
<1> QED
  BY <1>4, <1>5, <1>6 DEF Handler

\* A worker binds a port, or cannot: what was bound stays bound.
LEMMA BindsPort ==
  ASSUME TypeOK, NEW w \in Worker, NEW p \in Port, Binds(w, p)
  PROVE  /\ owner' \in [Port -> Worker \cup {NoWorker}] /\ refused \subseteq refused' /\ refused' \subseteq Port
         /\ \A q \in Port : owner[q] # NoWorker => owner'[q] # NoWorker
         /\ p \notin refused' => owner'[p] # NoWorker
<1>1. owner \in [Port -> Worker \cup {NoWorker}] /\ w # NoWorker /\ refused \subseteq Port
  BY BoundAssumption DEF TypeOK, Worker, NoWorker
<1> QED
  BY <1>1 DEF Binds

\* Only the worker that comes past the port may make a difference.
LEMMA BoundPast ==
  ASSUME TypeOK, PortsBound, NEW w \in Worker, NEW p \in Port, Binds(w, p), UNCHANGED deaths,
         \A v \in Worker, q \in Port : Past(v, q)' => Past(v, q) \/ (v = w /\ q = p)
  PROVE  PortsBound'
<1> SUFFICES ASSUME ~ deaths, NEW q \in Port, q \notin refused', NEW v \in Worker, Past(v, q)'
             PROVE  owner'[q] # NoWorker
  BY DEF PortsBound
<1> QED
  BY BindsPort DEF PortsBound

LEMMA BindTcpInv == ASSUME NEW w \in Worker PROVE FullInv /\ BindTcp(w) => FullInv'
<1> SUFFICES ASSUME FullInv, BindTcp(w) PROVE FullInv'
  OBVIOUS
<1> USE DEF FullInv, Inv
<1>1. /\ child[w] \in Port /\ Binds(w, child[w])
      /\ \/ child[w] = "control" /\ child' = [child EXCEPT ![w] = "forward"] /\ udp' = udp
         \/ child[w] = "forward" /\ child' = [child EXCEPT ![w] = "running"] /\ udp' = udp \cup {w}
  <2>1. child[w] \in {"control", "forward"} /\ child[w] \in Port /\ Binds(w, child[w])
    BY DEF BindTcp, Port
  <2>2. child[w] = "control" => child' = [child EXCEPT ![w] = "forward"] /\ udp' = udp
    BY DEF BindTcp, TypeOK
  <2>3. child[w] = "forward" => child' = [child EXCEPT ![w] = "running"] /\ udp' = udp \cup {w}
    BY DEF BindTcp, TypeOK
  <2> QED
    BY <2>1, <2>2, <2>3
<1>2. UNCHANGED <<pc, next, pending, frames, reap, sent, deaths>>
  BY DEF BindTcp
<1>3. TypeOK' /\ FramesSound' /\ NextExists'
  BY <1>1, <1>2, BindsPort DEF TypeOK, FramesSound, NextExists
<1>4. Zombie' \subseteq Zombie
  BY <1>1 DEF Zombie, TypeOK
<1>5. ZombieAnnounced'
  BY <1>2, <1>4 DEF ZombieAnnounced
<1>6. \A v \in Worker, q \in Port : Past(v, q)' => Past(v, q) \/ (v = w /\ q = child[w])
  <2>1. \A v \in Worker \ {w} : child'[v] = child[v] /\ (v \in udp' <=> v \in udp)
    BY <1>1 DEF TypeOK
  <2>2. \A v \in Worker \ {w}, q \in Port : Past(v, q)' => Past(v, q)
    BY <2>1 DEF Past
  <2>3. \A q \in Port : Past(w, q)' => Past(w, q) \/ q = child[w]
    BY <1>1 DEF Past, TypeOK
  <2> QED
    BY <2>2, <2>3
<1>7. PortsBound'
  BY <1>1, <1>2, <1>6, BoundPast
<1> QED
  BY <1>3, <1>5, <1>7

LEMMA BindUdpInv == ASSUME NEW w \in Worker PROVE FullInv /\ BindUdp(w) => FullInv'
<1> SUFFICES ASSUME FullInv, BindUdp(w) PROVE FullInv'
  OBVIOUS
<1> USE DEF FullInv, Inv
<1>1. /\ "udp" \in Port /\ Binds(w, "udp") /\ udp' = udp \ {w}
      /\ UNCHANGED <<pc, next, pending, frames, reap, child, sent, deaths>>
  BY DEF BindUdp, Port
<1>2. TypeOK' /\ FramesSound' /\ NextExists' /\ ZombieAnnounced'
  BY <1>1, BindsPort DEF TypeOK, FramesSound, NextExists, ZombieAnnounced, Zombie
<1>3. \A v \in Worker, q \in Port : Past(v, q)' => Past(v, q) \/ (v = w /\ q = "udp")
  BY <1>1 DEF Past, Port
<1>4. PortsBound'
  BY <1>1, <1>3, BoundPast
<1> QED
  BY <1>2, <1>4

LEMMA StepInv == FullInv /\ [Next]_vars => FullInv'
<1> SUFFICES ASSUME FullInv, [Next]_vars PROVE FullInv'
  OBVIOUS
<1>1. CASE Suspend
  BY <1>1 DEF Suspend, FullInv, Inv, TypeOK, FramesSound, ZombieAnnounced, Zombie, PortsBound, Past, NextExists
<1>2. ASSUME NEW s \in Signal, Kill(s) PROVE FullInv'
  <2> USE <1>2 DEF Kill, FullInv, Inv
  <2>1. TypeOK'
    BY DEF TypeOK
  <2>2. Zombie' = {}
    BY DEF Zombie, TypeOK
  <2>3. \A w \in Worker, p \in Port : Past(w, p)' => Past(w, p)
    BY DEF Past, Port, TypeOK
  <2> QED
    BY <2>1, <2>2, <2>3 DEF FramesSound, ZombieAnnounced, PortsBound, NextExists
<1>3. ASSUME NEW w \in Worker, Die(w) PROVE FullInv'
  <2> USE <1>3 DEF Die, FullInv, Inv
  <2>1. TypeOK'
    BY DEF TypeOK, Signal, Port, NoWorker
  <2>2. pc = "dead" => Zombie' \subseteq Zombie
    BY DEF Zombie, TypeOK
  <2>3. ZombieAnnounced'
    BY <2>2 DEF ZombieAnnounced
  <2> QED
    BY <2>1, <2>3 DEF FramesSound, PortsBound, NextExists
<1>4. ASSUME NEW s \in Signal, Send(s) PROVE FullInv'
  BY <1>4, BoundAssumption
  DEF Send, FullInv, Inv, TypeOK, FramesSound, ZombieAnnounced, Zombie, PortsBound, Past, NextExists
<1>5. CASE UNCHANGED vars
  BY <1>5
  DEF vars, FullInv, Inv, TypeOK, FramesSound, ZombieAnnounced, Zombie, PortsBound, Past, NextExists
<1> QED
  BY <1>1, <1>2, <1>3, <1>4, <1>5, ForkInv, DeliverInv, HandlerInv, BindTcpInv, BindUdpInv
  DEF Next, MasterStep, Delivery

THEOREM AlwaysInv == Spec => []FullInv
BY InitInv, StepInv, PTL DEF Spec

\* The variables of the master keep their types, whatever the number of workers.
THEOREM TypeCorrect == Spec => []TypeOK
BY AlwaysInv, PTL DEF FullInv, Inv

\* However many workers die at once, and whatever other handlers interrupt the
\* loop of waitpid, a worker that was not reaped is still going to be found.
THEOREM NeverForgotten == Spec => []ZombieAnnounced
BY AlwaysInv, PTL DEF FullInv, Inv

\* Whatever the order in which any number of workers come to the ports, and
\* whichever they miss, a port that only they compete for is bound from the moment
\* the first has come past it until one of them dies.
THEOREM BoundOncePast == Spec => []PortsBound
BY AlwaysInv, PTL DEF FullInv, Inv

=============================================================================
