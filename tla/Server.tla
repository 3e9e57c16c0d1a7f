------------------------------- MODULE Server -------------------------------
(***************************************************************************)
(* cppevent_net: server, server_socket and client_socket, and              *)
(* cppevent_base: timer, with the descriptors and the frames they own.     *)
(*                                                                         *)
(* A step is what runs between two suspensions.  The frames are the accept *)
(* loop, the accept() it awaits, and one per connection, which owns its    *)
(* socket as a parameter.  A coroutine of the program may connect or use a *)
(* timer.  The kernel gives any free number to a new descriptor.  The      *)
(* server is not destroyed by a handler that the accept loop has called.   *)
(***************************************************************************)
EXTENDS Task, Naturals, Sequences, FiniteSets

CONSTANTS
    Fds,         \* the descriptors a process may have
    Handlers,    \* frames of on_connection
    Coroutines,  \* callers of client_socket::connect and of timers
    Peers,       \* processes that connect to the server
    Loop,        \* the frame of accept_connections
    Accept,      \* the frame of server_socket::accept
    NoFd,
    MaxStale     \* bound on accepts left behind by destroyed servers

ASSUME ServerAssumption ==
    /\ IsFiniteSet(Fds) /\ NoFd \notin Fds
    /\ Loop # Accept /\ {Loop, Accept, Noop} \cap Handlers = {}
    /\ {Loop, Accept} \cap Coroutines = {} /\ Handlers \cap Coroutines = {}
    /\ Loop # Noop
    /\ MaxStale \in Nat

VARIABLES
    frame,    \* the coroutine frames
    holds,    \* the descriptor each holder will close or hand on
    use,      \* what a coroutine does
    accept,   \* the accept operation of the server
    stale,    \* accept operations whose server is destroyed
    backlog,  \* peers that wait to be accepted
    open,     \* the descriptors that are open
    lost      \* history: descriptors nobody was left to close

vars == <<frame, holds, use, accept, stale, backlog, open, lost>>

Holders == Handlers \cup Coroutines \cup {Loop, Accept}

Init ==
    /\ frame = [f \in Handlers \cup {Loop, Accept} |-> Free]
    /\ holds = [h \in Holders |-> NoFd]
    /\ use = [d \in Coroutines |-> "idle"]
    /\ accept = "none"
    /\ stale = 0
    /\ backlog = <<>>
    /\ open = {}
    /\ lost = 0

\* A descriptor is made and its holder gets it, or loses it.
Open(h, fd) ==
    /\ fd \in Fds \ open
    /\ open' = open \cup {fd}
    /\ holds' = [holds EXCEPT ![h] = fd]
    /\ UNCHANGED lost

OpenLost(fd) ==
    /\ fd \in Fds \ open
    /\ open' = open \cup {fd}
    /\ lost' = lost + 1
    /\ UNCHANGED holds

Close(h) ==
    /\ open' = open \ {holds[h]}
    /\ holds' = [holds EXCEPT ![h] = NoFd]

----------------------------------------------------------------------------
(* server and server_socket *)

Serving == frame[Loop].state # "free"

\* Mutant: only the first accept() queues an operation.
OnAccept_once == accept' = IF Serving THEN "none" ELSE "waiting"

\* on_accept queues the operation.
OnAccept == accept' = "waiting"

\* accept_connections calls accept(), which queues its operation and suspends,
\* and awaits it.
CallAccept(fr) ==
    [fr EXCEPT ![Accept] = await_suspend(Suspend(Called), Loop),
               ![Loop] = Suspend(@)]

\* server::server: the socket is bound and listens, and the accept loop runs
\* to its first suspension.
StartServer ==
    /\ ~Serving
    /\ \E fd \in Fds : Open(Loop, fd)
    /\ frame' = CallAccept([frame EXCEPT ![Loop] = Called])
    /\ OnAccept
    /\ UNCHANGED <<use, stale, backlog>>

\* server_socket::server_socket throws in bind, chmod or listen: no object, so
\* no destructor.
StartFails ==
    /\ ~Serving
    /\ \E fd \in Fds : OpenLost(fd)
    /\ UNCHANGED <<frame, use, accept, stale, backlog>>

\* The rest of a round of accept_connections once on_connection has returned
\* its task: unlink, both temporary tasks destroyed, accept called again.
NextAccept(fr, h) ==
    CallAccept([fr EXCEPT ![h] = Destruct(unlink(@)), ![Accept] = Destruct(@)])

\* Mutant: the value that accept returned keeps the descriptor.
MoveSocket_copy(h) == [holds EXCEPT ![h] = holds[Accept]]

\* await_resume moves the socket out of accept's promise.
MoveSocket(h) == [holds EXCEPT ![h] = holds[Accept], ![Accept] = NoFd]

\* accept() is resumed with a descriptor and makes the socket; its end resumes
\* the loop, which calls on_connection.  The handler's first part suspends, or
\* runs to its end: then its frame and the socket in it are left to nobody.
Accepted(h) ==
    /\ accept = "done"
    /\ frame[h].state = "free"
    /\ holds' = MoveSocket(h)
    /\ \/ /\ frame' = NextAccept([frame EXCEPT
                          ![Accept] = FinalSuspend(@),
                          ![h] = Suspend(Called)], h)
          /\ UNCHANGED lost
       \/ /\ frame' = NextAccept([frame EXCEPT
                          ![Accept] = FinalSuspend(@),
                          ![h] = FinalSuspend(Called)], h)
          /\ lost' = lost + 1
    /\ OnAccept
    /\ UNCHANGED <<use, stale, backlog, open>>

\* The status is an error: accept() throws, the loop passes the exception on
\* to its promise and stops at its end.
AcceptThrows ==
    /\ accept = "failed"
    /\ frame' = [frame EXCEPT ![Accept] = Destruct(FinalSuspend(@)),
                              ![Loop] = FinalSuspend(@)]
    /\ accept' = "none"
    /\ UNCHANGED <<holds, use, stale, backlog, open, lost>>

\* A connection's coroutine ends; the frame's parameters go with the frame.
HandlerEnds(h) ==
    /\ frame[h].state = "suspended"
    /\ frame' = [frame EXCEPT ![h] = FinalSuspend(@)]
    /\ IF frame'[h].state = "free" THEN Close(h) ELSE UNCHANGED <<holds, open>>
    /\ UNCHANGED <<use, accept, stale, backlog, lost>>

\* Mutant: only the loop's own frame is destroyed.
DestroyLoop_shallow(fr) == [fr EXCEPT ![Loop] = Destruct(@)]

\* ~task of m_accept_task, with the task of accept() in the loop's frame.
DestroyLoop(fr) == [fr EXCEPT ![Loop] = Destruct(@), ![Accept] = Destruct(@)]

\* ~server: the task, then ~server_socket.  The operation is not cancelled;
\* a result for it that is under way is dropped by the bus.
StopServer ==
    /\ Serving
    /\ stale < MaxStale
    /\ frame' = DestroyLoop(frame)
    /\ open' = open \ {holds[Loop]}
    /\ holds' = [holds EXCEPT ![Loop] = NoFd, ![Accept] = NoFd]
    /\ lost' = IF accept = "done" THEN lost + 1 ELSE lost
    /\ stale' = IF accept = "waiting" THEN stale + 1 ELSE stale
    /\ accept' = "none"
    /\ backlog' = <<>>
    /\ UNCHANGED use

----------------------------------------------------------------------------
(* The kernel and the peers *)

PeerConnects(p) ==
    /\ Serving
    /\ \A i \in DOMAIN backlog : backlog[i] # p
    /\ backlog' = Append(backlog, p)
    /\ UNCHANGED <<frame, holds, use, accept, stale, open, lost>>

KernelAccepts ==
    /\ accept = "waiting"
    /\ backlog # <<>>
    /\ \E fd \in Fds : Open(Accept, fd)
    /\ backlog' = Tail(backlog)
    /\ accept' = "done"
    /\ UNCHANGED <<frame, use, stale>>

\* No descriptor is left, or the connection is gone.
KernelRefuses ==
    /\ accept = "waiting"
    /\ backlog # <<>>
    /\ backlog' = IF Fds = open THEN backlog ELSE Tail(backlog)
    /\ accept' = "failed"
    /\ UNCHANGED <<frame, holds, use, stale, open, lost>>

\* An operation left behind is answered: its descriptor goes to nobody.
StaleAccepts ==
    /\ stale > 0
    /\ stale' = stale - 1
    /\ (\E fd \in Fds : OpenLost(fd)) \/ UNCHANGED <<open, holds, lost>>
    /\ UNCHANGED <<frame, use, accept, backlog>>

----------------------------------------------------------------------------
(* client_socket and timer *)

Uses(d, from, to) == use[d] = from /\ use' = [use EXCEPT ![d] = to]

\* client_socket::connect up to its co_await.
Connect(d) ==
    /\ Uses(d, "idle", "connecting")
    /\ \E fd \in Fds : Open(d, fd)
    /\ UNCHANGED <<frame, accept, stale, backlog>>

ConnectDone(d) ==
    /\ Uses(d, "connecting", "connected")
    /\ UNCHANGED <<frame, holds, accept, stale, backlog, open, lost>>

\* connect throws, or is destroyed while it waits.  No socket has the
\* descriptor yet, and it stays open.
ConnectFails(d) ==
    /\ Uses(d, "connecting", "idle")
    /\ holds' = [holds EXCEPT ![d] = NoFd]
    /\ lost' = lost + 1
    /\ UNCHANGED <<frame, accept, stale, backlog, open>>

\* Mutant: the destructor does nothing.
CloseSocket_nothing(d) ==
    /\ Uses(d, "connected", "idle")
    /\ holds' = [holds EXCEPT ![d] = NoFd]
    /\ UNCHANGED <<frame, accept, stale, backlog, open, lost>>

\* ~socket.
CloseSocket(d) ==
    /\ Uses(d, "connected", "idle")
    /\ Close(d)
    /\ UNCHANGED <<frame, accept, stale, backlog, lost>>

TimerNew(d) ==
    /\ Uses(d, "idle", "timer")
    /\ \E fd \in Fds : Open(d, fd)
    /\ UNCHANGED <<frame, accept, stale, backlog>>

\* timerfd_settime fails in the constructor.
TimerNewFails(d) ==
    /\ use[d] = "idle"
    /\ \E fd \in Fds : OpenLost(fd)
    /\ UNCHANGED <<frame, use, accept, stale, backlog>>

\* timer::wait, and its end by a tick or an error.
TimerWait(d) ==
    /\ Uses(d, "timer", "ticking") \/ Uses(d, "ticking", "timer")
    /\ UNCHANGED <<frame, holds, accept, stale, backlog, open, lost>>

\* ~timer, also when a coroutine that waits on it is destroyed.
TimerGone(d) ==
    /\ Uses(d, "timer", "idle") \/ Uses(d, "ticking", "idle")
    /\ Close(d)
    /\ UNCHANGED <<frame, accept, stale, backlog, lost>>

CoroutineStep(d) ==
    \/ Connect(d) \/ ConnectDone(d) \/ ConnectFails(d) \/ CloseSocket(d)
    \/ TimerNew(d) \/ TimerNewFails(d) \/ TimerWait(d) \/ TimerGone(d)

Next ==
    \/ StartServer \/ StartFails \/ StopServer \/ AcceptThrows
    \/ KernelAccepts \/ KernelRefuses \/ StaleAccepts
    \/ \E h \in Handlers : Accepted(h) \/ HandlerEnds(h)
    \/ \E p \in Peers : PeerConnects(p)
    \/ \E d \in Coroutines : CoroutineStep(d)

\* The kernel answers and the loop resumes who waits; handlers come to an end.
Fairness ==
    /\ WF_vars(KernelAccepts \/ KernelRefuses)
    /\ WF_vars(AcceptThrows \/ \E h \in Handlers : Accepted(h))
    /\ \A h \in Handlers : WF_vars(HandlerEnds(h))

Spec == Init /\ [][Next]_vars /\ Fairness

----------------------------------------------------------------------------
(* Properties *)

\* A descriptor has one holder, for which it is open: the number of a closed
\* one may be given out again, so a second holder would close or use a
\* descriptor that is somebody else's.
OneHolder ==
    \A h \in Holders : holds[h] # NoFd =>
        /\ holds[h] \in open
        /\ \A g \in Holders \ {h} : holds[g] # holds[h]

\* A frame at its end that no task owns stays for ever, and what it holds.
Abandoned(h) == h \in Handlers /\ frame[h].state = "done" /\ ~frame[h].owned

\* Descriptors that nobody will ever close come from a constructor or a
\* connect that fails, an accept that outlives its server, and a handler that
\* ends before its task is unlinked, one each; no other path loses one.
LostExactly ==
    Cardinality(open \ {holds[h] : h \in {g \in Holders : ~Abandoned(g)}}) = lost

\* Who is to be resumed exists and waits: a continuation is stored only for a
\* suspended frame, and while a server accepts, the kernel's answer leads to
\* the frame of accept(), which leads to the loop.
ResumesLive ==
    /\ \A f \in DOMAIN frame :
           frame[f].m_outer # Noop => frame[frame[f].m_outer].state = "suspended"
    /\ accept # "none" => /\ frame[Accept].state = "suspended"
                          /\ frame[Accept].m_outer = Loop

\* A suspended frame of a connection is unlinked and owns its socket: only its
\* own end frees it, and then it is wholly gone.
HandlerIndependent ==
    [][\A h \in Handlers : frame[h].state = "suspended" /\ frame'[h] # frame[h]
          => /\ frame'[h].state = "free"
             /\ holds[h] \in open \ open']_vars

\* A peer in the backlog is accepted, unless an accept has failed, after which
\* the server accepts no more, or the server is destroyed.
PeerServed ==
    \A p \in Peers :
        accept # "none" /\ (\E i \in DOMAIN backlog : backlog[i] = p)
            ~> \/ \A i \in DOMAIN backlog : backlog[i] # p
               \/ accept = "failed"
               \/ ~Serving

============================================================================
