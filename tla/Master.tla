------------------------------- MODULE Master -------------------------------
(***************************************************************************)
(* The master process (ProcessCtl): it blocks the signals, forks the       *)
(* workers, and from then on only sleeps in sigsuspend, whose empty mask   *)
(* lets signal_handle run.  SIGCHLD makes it reap the workers that died.   *)
(* A signal is one bit: sent again while it is pending, it is lost.        *)
(*                                                                         *)
(* A worker is what it looks like from outside: it binds the two tcp ports *)
(* of the profile and runs, while a thread of its own binds the udp port;  *)
(* it may die at any time (a fault of TcpLinks, TcpSend or UdpRelay,       *)
(* exit(), a signal from outside).                                         *)
(***************************************************************************)
EXTENDS Integers, Sequences, FiniteSets

CONSTANTS
  Workers,    \* work_process_num
  MaxSignals  \* bound: signals sent to the master from outside

ASSUME BoundAssumption == Workers \in Nat \ {0} /\ MaxSignals \in Nat

Worker == 1 .. Workers

\* The ports a worker binds: tcp control, tcp forward, udp forward.
Port == {"control", "forward", "udp"}

\* Signals the master blocks.  TERM stands for those in the table signals[]
\* besides CHLD, USR1 for those that are not and end the process.
Signal == {"CHLD", "TERM", "USR1"}

Caught == {"CHLD", "TERM"}

NoWorker == 0

VARIABLES
  pc,       \* the master: "fork", "suspend" (before sigsuspend), "suspended", "dead"
  next,     \* the worker forked next
  pending,  \* signals the kernel keeps for the master
  frames,   \* calls of signal_handle, the innermost last
  reap,     \* this_reap
  child,    \* the workers; a worker that is starting is at the tcp port it binds
  udp,      \* workers whose udp thread is still to bind its port
  owner,    \* who has bound each port
  refused,  \* history: ports that bind failed for though no worker had them
  sent,     \* number of signals sent from outside
  deaths    \* history: some worker has died

vars == <<pc, next, pending, frames, reap, child, udp, owner, refused, sent, deaths>>

Init ==
  /\ pc = "fork" /\ next = 1
  /\ pending = {} /\ frames = <<>> /\ reap = FALSE
  /\ child = [w \in Worker |-> "unborn"]
  /\ udp = {} /\ owner = [p \in Port |-> NoWorker] /\ refused = {}
  /\ sent = 0 /\ deaths = FALSE

-----------------------------------------------------------------------------
(* The master. *)

\* Mutant of Fork: one worker too many.
ForkOneMore ==
  /\ pc = "fork"
  /\ \E state \in {"control", "failed"} : child' = [child EXCEPT ![next] = state]
  /\ next' = next + 1
  /\ pc' = IF next > Workers THEN "suspend" ELSE "fork"
  /\ UNCHANGED <<pending, frames, reap, udp, owner, refused, sent, deaths>>

\* Create_WorkProc; if fork fails the loop goes on with the next worker.
Fork ==
  /\ pc = "fork"
  /\ \E state \in {"control", "failed"} : child' = [child EXCEPT ![next] = state]
  /\ next' = next + 1
  /\ pc' = IF next = Workers THEN "suspend" ELSE "fork"
  /\ UNCHANGED <<pending, frames, reap, udp, owner, refused, sent, deaths>>

Suspend ==
  /\ pc = "suspend" /\ pc' = "suspended"
  /\ UNCHANGED <<next, pending, frames, reap, child, udp, owner, refused, sent, deaths>>

\* In sigsuspend nothing is blocked but the signals being handled (sa_mask is
\* empty), so that handlers nest.
Deliverable(s) ==
  pc = "suspended" /\ s \in pending /\ \A i \in 1 .. Len(frames) : frames[i].sig # s

Deliver(s) ==
  /\ Deliverable(s) /\ s \in Caught
  /\ pending' = pending \ {s}
  /\ frames' = Append(frames, [sig |-> s, at |-> "enter"])
  /\ UNCHANGED <<pc, next, reap, child, udp, owner, refused, sent, deaths>>

\* The default action ends the master; its workers go on.  Those that died
\* are reaped by init.
Kill(s) ==
  /\ Deliverable(s) /\ s \notin Caught
  /\ pc' = "dead" /\ pending' = {} /\ frames' = <<>>
  /\ child' = [w \in Worker |-> IF child[w] = "zombie" THEN "reaped" ELSE child[w]]
  /\ UNCHANGED <<next, reap, udp, owner, refused, sent, deaths>>

Top == frames[Len(frames)]

Goto(at) == frames' = [frames EXCEPT ![Len(frames)].at = at]

\* signal_handle up to the call of Process_Get_Status.
Enter ==
  /\ frames # <<>> /\ Top.at = "enter"
  /\ IF Top.sig = "CHLD" THEN reap' = TRUE /\ Goto("wait") ELSE UNCHANGED reap /\ Goto("leave")
  /\ UNCHANGED <<pc, next, pending, child, udp, owner, refused, sent, deaths>>

Zombie == {w \in Worker : child[w] = "zombie"}

\* Mutant of Wait: waitpid is called once for each signal.
WaitOnce ==
  /\ frames # <<>> /\ Top.at = "wait"
  /\ \/ /\ Zombie = {}
        /\ UNCHANGED child
     \/ \E w \in Zombie : child' = [child EXCEPT ![w] = "reaped"]
  /\ Goto("leave")
  /\ UNCHANGED <<pc, next, pending, reap, udp, owner, refused, sent, deaths>>

\* A round of the loop of Process_Get_Status: waitpid(-1, WNOHANG) finds one
\* of the dead, or none, whether or not others live.
Wait ==
  /\ frames # <<>> /\ Top.at = "wait"
  /\ \/ /\ Zombie = {}
        /\ Goto("leave") /\ UNCHANGED child
     \/ \E w \in Zombie :
          /\ child' = [child EXCEPT ![w] = "reaped"]
          /\ UNCHANGED frames
  /\ UNCHANGED <<pc, next, pending, reap, udp, owner, refused, sent, deaths>>

\* signal_handle returns; when it was the only call, sigsuspend returns with
\* all signals blocked again, and the loop comes back to it.
Leave ==
  /\ frames # <<>> /\ Top.at = "leave"
  /\ frames' = SubSeq(frames, 1, Len(frames) - 1)
  /\ pc' = IF Len(frames) = 1 THEN "suspend" ELSE pc
  /\ UNCHANGED <<next, pending, reap, child, udp, owner, refused, sent, deaths>>

-----------------------------------------------------------------------------
(* The workers. *)

\* bind of a port: it fails if another worker has it (SO_REUSEPORT is not set),
\* and may fail if none has (another process, connections in TIME_WAIT).  What
\* Establish_listenSocket and Establish_Socket return is ignored.
Binds(w, p) ==
  \/ /\ owner[p] = NoWorker
     /\ owner' = [owner EXCEPT ![p] = w]
     /\ UNCHANGED refused
  \/ /\ refused' = IF owner[p] = NoWorker THEN refused \cup {p} ELSE refused
     /\ UNCHANGED owner

\* Mutant of BindTcp: a port that cannot be bound ends the initialisation.
BindOrGiveUp(w) ==
  /\ child[w] \in {"control", "forward"}
  /\ Binds(w, child[w])
  /\ child' = [child EXCEPT ![w] = IF @ = "control" /\ owner' # owner THEN "forward" ELSE "running"]
  /\ udp' = IF child'[w] = "running" THEN udp \cup {w} ELSE udp
  /\ UNCHANGED <<pc, next, pending, frames, reap, sent, deaths>>

\* WorkProcess_Init binds the control port, then the forward port; the udp
\* thread is started when it is done, and the worker runs.
BindTcp(w) ==
  /\ child[w] \in {"control", "forward"}
  /\ Binds(w, child[w])
  /\ child' = [child EXCEPT ![w] = IF @ = "control" THEN "forward" ELSE "running"]
  /\ udp' = IF child[w] = "forward" THEN udp \cup {w} ELSE udp
  /\ UNCHANGED <<pc, next, pending, frames, reap, sent, deaths>>

\* UserThread_Init, while the worker runs.
BindUdp(w) ==
  /\ w \in udp /\ udp' = udp \ {w}
  /\ Binds(w, "udp")
  /\ UNCHANGED <<pc, next, pending, frames, reap, child, sent, deaths>>

\* A worker dies; the kernel closes its ports and tells the master.
Die(w) ==
  /\ child[w] \in {"control", "forward", "running"}
  /\ child' = [child EXCEPT ![w] = IF pc = "dead" THEN "reaped" ELSE "zombie"]
  /\ owner' = [p \in Port |-> IF owner[p] = w THEN NoWorker ELSE owner[p]]
  /\ udp' = udp \ {w}
  /\ pending' = IF pc = "dead" THEN pending ELSE pending \cup {"CHLD"}
  /\ deaths' = TRUE
  /\ UNCHANGED <<pc, next, frames, reap, refused, sent>>

\* A signal from outside.
Send(s) ==
  /\ sent < MaxSignals /\ pc # "dead"
  /\ pending' = pending \cup {s}
  /\ sent' = sent + 1
  /\ UNCHANGED <<pc, next, frames, reap, child, udp, owner, refused, deaths>>

-----------------------------------------------------------------------------
Handler == Enter \/ Wait \/ Leave

MasterStep == Fork \/ Suspend \/ Handler

Delivery == \E s \in Signal : Deliver(s) \/ Kill(s)

Next == MasterStep \/ Delivery \/ (\E w \in Worker : BindTcp(w) \/ BindUdp(w) \/ Die(w)) \/ \E s \in Signal : Send(s)

Spec == Init /\ [][Next]_vars

\* The master runs when it can, and the kernel delivers what is not blocked.
FairSpec == Spec /\ WF_vars(MasterStep) /\ \A s \in Signal : WF_vars(Deliver(s))

-----------------------------------------------------------------------------
(* Properties. *)

\* Every variable has its type; the only type invariant of the module.
TypeOK ==
  /\ pc \in {"fork", "suspend", "suspended", "dead"}
  /\ next \in 1 .. Workers + 1
  /\ pending \subseteq Signal
  /\ frames \in Seq([sig : Caught, at : {"enter", "wait", "leave"}])
  /\ reap \in BOOLEAN
  /\ child \in [Worker -> {"unborn", "failed", "control", "forward", "running", "zombie", "reaped"}]
  /\ udp \subseteq Worker
  /\ owner \in [Port -> Worker \cup {NoWorker}]
  /\ refused \subseteq Port
  /\ sent \in 0 .. MaxSignals
  /\ deaths \in BOOLEAN

\* A worker that died and was not reaped is announced: SIGCHLD is pending, or
\* a handler has yet to find that waitpid has nothing more to say, although
\* one signal may stand for several deaths and other handlers may interrupt it
\* (the loop of Process_Get_Status, HandleFunc.cpp).
ZombieAnnounced ==
  Zombie # {} => \/ "CHLD" \in pending
                 \/ \E i \in 1 .. Len(frames) :
                      frames[i].sig = "CHLD" /\ frames[i].at \in {"enter", "wait"}

\* Every worker that dies is reaped, unless the master dies (no zombie stays
\* behind: SigHandle.h on Process_Get_Status).
Reaped == \A w \in Worker : child[w] = "zombie" ~> child[w] = "reaped"

\* The worker has tried to bind the port.
Past(w, p) == \/ p = "control" /\ child[w] \in {"forward", "running"}
              \/ p = "forward" /\ child[w] = "running"
              \/ p = "udp" /\ child[w] = "running" /\ w \notin udp

\* As long as no worker has died, a port that only workers compete for is bound
\* once the first of them has come past it, in whatever order they came to the
\* ports, and whichever others they missed (Establish_listenSocket,
\* Establish_Socket, what they return ignored).
PortsBound ==
  ~ deaths => \A p \in Port \ refused : (\E w \in Worker : Past(w, p)) => owner[p] # NoWorker

\* A worker that died is started again ("以便主机程恢复", SigHandle.cpp:78).
Restarted == \A w \in Worker : child[w] = "reaped" ~> child[w] = "running"

=============================================================================
