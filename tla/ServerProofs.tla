---------------------------- MODULE ServerProofs ----------------------------
(***************************************************************************)
(* Theorems about Server, for every number of descriptors, handlers,       *)
(* coroutines and peers.                                                   *)
(***************************************************************************)
EXTENDS Server, FiniteSetTheorems, TLAPS

Frames == Handlers \cup {Loop, Accept}

Frame == [state : {"free", "running", "suspended", "done"},
          m_linked : BOOLEAN, owned : BOOLEAN, m_outer : {Noop, Loop}]

Types == /\ frame \in [Frames -> Frame]
         /\ holds \in [Holders -> Fds \cup {NoFd}]
         /\ open \subseteq Fds

\* Only accept() is awaited, by the loop, which is suspended then; its task is
\* in the loop's frame and goes with it.
Awaited ==
    /\ \A f \in Frames \ {Accept} : frame[f].m_outer = Noop
    /\ frame[Accept].m_outer # Noop =>
           frame[Accept].owned /\ frame[Loop].state = "suspended"
    /\ accept # "none" => frame[Accept].state = "suspended"
                              /\ frame[Accept].m_outer = Loop

\* A suspended handler is unlinked and has its socket; an accept that has been
\* answered has a descriptor to hand on.
Sockets ==
    /\ \A h \in Handlers : frame[h].state = "suspended" =>
           ~frame[h].m_linked /\ holds[h] # NoFd
    /\ accept = "done" => holds[Accept] # NoFd

IndInv == Types /\ OneHolder /\ Awaited /\ Sockets

----------------------------------------------------------------------------

USE ServerAssumption

LEMMA InitIndInv == Init => IndInv
  BY DEF Init, IndInv, Types, Frames, Frame, OneHolder, Awaited, Sockets, Free,
         Holders

\* A new descriptor keeps the holders apart.
LEMMA OpenHolders ==
  ASSUME Types, OneHolder, NEW h \in Holders, NEW fd \in Fds, Open(h, fd)
  PROVE  /\ OneHolder'
         /\ holds' \in [Holders -> Fds \cup {NoFd}] /\ open' \subseteq Fds
         /\ holds'[h] # NoFd
         /\ \A g \in Holders \ {h} : holds'[g] = holds[g]
  BY DEF Types, OneHolder, Open, Holders

LEMMA OpenLostHolders ==
  ASSUME Types, OneHolder, NEW fd \in Fds, OpenLost(fd)
  PROVE  OneHolder' /\ open' \subseteq Fds /\ holds' = holds
  BY DEF Types, OneHolder, OpenLost, Holders

\* Closing is safe because the holder is the only one.
LEMMA CloseHolders ==
  ASSUME Types, OneHolder, NEW h \in Holders, Close(h)
  PROVE  /\ OneHolder'
         /\ holds' \in [Holders -> Fds \cup {NoFd}] /\ open' \subseteq Fds
         /\ \A g \in Holders \ {h} : holds'[g] = holds[g]
  BY DEF Types, OneHolder, Close, Holders

\* The frames after a call of accept().
LEMMA CallAcceptFrames ==
  ASSUME NEW fr \in [Frames -> Frame]
  PROVE  /\ CallAccept(fr) \in [Frames -> Frame]
         /\ CallAccept(fr)[Accept] = await_suspend(Suspend(Called), Loop)
         /\ CallAccept(fr)[Loop] = [fr[Loop] EXCEPT !.state = "suspended"]
         /\ \A f \in Handlers : CallAccept(fr)[f] = fr[f]
  BY DEF CallAccept, Frames, Frame, await_suspend, Suspend, Called

LEMMA AwaitedAccept ==
  /\ await_suspend(Suspend(Called), Loop) \in Frame
  /\ await_suspend(Suspend(Called), Loop).owned
  /\ await_suspend(Suspend(Called), Loop).state = "suspended"
  /\ await_suspend(Suspend(Called), Loop).m_outer = Loop
  BY DEF await_suspend, Suspend, Called, Frame

\* The frames of a handler when the loop has let go of it.
LEMMA HandlerFrames ==
  /\ Destruct(unlink(Suspend(Called))) \in Frame
  /\ Destruct(unlink(Suspend(Called))).m_outer = Noop
  /\ ~Destruct(unlink(Suspend(Called))).m_linked
  /\ Destruct(unlink(FinalSuspend(Called))) \in Frame
  /\ Destruct(unlink(FinalSuspend(Called))).m_outer = Noop
  /\ Destruct(unlink(FinalSuspend(Called))).state # "suspended"
  BY DEF Destruct, unlink, Suspend, FinalSuspend, Called, Free, Frame

\* An end and a destruction leave a frame that nothing awaits.
LEMMA EndedFrame ==
  ASSUME NEW f \in Frame
  PROVE  /\ FinalSuspend(f) \in Frame /\ FinalSuspend(f).m_outer = Noop
         /\ FinalSuspend(f).state \in {"free", "done"}
         /\ Destruct(f) \in Frame
         /\ f.owned => Destruct(f) = Free
         /\ f.m_outer = Noop => Destruct(f).m_outer = Noop
         /\ Destruct(FinalSuspend(f)) \in Frame
         /\ Destruct(FinalSuspend(f)).m_outer = Noop
  BY DEF FinalSuspend, Destruct, Free, Frame

\* A step that touches no frame and no operation of the server, and neither
\* what a handler holds nor what accept() does.
LEMMA OthersStep ==
  ASSUME IndInv, UNCHANGED <<frame, accept>>,
         OneHolder', holds' \in [Holders -> Fds \cup {NoFd}], open' \subseteq Fds,
         \A g \in Handlers \cup {Accept} : holds'[g] = holds[g]
  PROVE  IndInv'
  BY DEF IndInv, Types, Awaited, Sockets

LEMMA CoroutineInv ==
  ASSUME IndInv, NEW d \in Coroutines, CoroutineStep(d)
  PROVE  IndInv'
<1>1. d \in Holders /\ d \notin Handlers \cup {Accept}
  BY DEF Holders
<1>2. ASSUME NEW fd \in Fds, Open(d, fd), UNCHANGED <<frame, accept>>
      PROVE  IndInv'
  BY <1>1, <1>2, OpenHolders, OthersStep DEF IndInv, Holders
<1>3. ASSUME Close(d), UNCHANGED <<frame, accept>>
      PROVE  IndInv'
  BY <1>1, <1>3, CloseHolders, OthersStep DEF IndInv, Holders
<1>4. CASE Connect(d) \/ TimerNew(d)
  BY <1>2, <1>4 DEF Connect, TimerNew
<1>5. CASE CloseSocket(d) \/ TimerGone(d)
  BY <1>3, <1>5 DEF CloseSocket, TimerGone
<1>6. CASE ConnectDone(d) \/ TimerWait(d)
  BY <1>6, OthersStep DEF ConnectDone, TimerWait, IndInv, Types, OneHolder
<1>7. CASE ConnectFails(d)
  <2>1. OneHolder' /\ holds' \in [Holders -> Fds \cup {NoFd}]
    BY <1>1, <1>7 DEF ConnectFails, IndInv, Types, OneHolder
  <2>2. open' \subseteq Fds /\ \A g \in Handlers \cup {Accept} : holds'[g] = holds[g]
    BY <1>1, <1>7 DEF ConnectFails, IndInv, Types, Holders
  <2> QED
    BY <1>7, <2>1, <2>2, OthersStep DEF ConnectFails
<1>8. CASE TimerNewFails(d)
  BY <1>8, OpenLostHolders, OthersStep DEF TimerNewFails, IndInv, Types
<1> QED
  BY <1>4, <1>5, <1>6, <1>7, <1>8 DEF CoroutineStep

LEMMA StartServerInv ==
  ASSUME IndInv, StartServer
  PROVE  IndInv'
<1> DEFINE fr == [frame EXCEPT ![Loop] = Called]
<1>1. PICK fd \in Fds : Open(Loop, fd)
  BY DEF StartServer
<1>2. /\ OneHolder'
      /\ holds' \in [Holders -> Fds \cup {NoFd}] /\ open' \subseteq Fds
      /\ \A g \in Holders \ {Loop} : holds'[g] = holds[g]
  BY <1>1, OpenHolders DEF IndInv, Holders
<1>3. /\ fr \in [Frames -> Frame] /\ fr[Loop].m_outer = Noop
      /\ \A h \in Handlers : fr[h] = frame[h]
  BY DEF IndInv, Types, Frames, Frame, Called
<1>4. frame' = CallAccept(fr) /\ accept' = "waiting"
  BY DEF StartServer, OnAccept
<1> HIDE DEF fr
<1>5. /\ frame' \in [Frames -> Frame]
      /\ frame'[Accept] = await_suspend(Suspend(Called), Loop)
      /\ frame'[Loop] = [fr[Loop] EXCEPT !.state = "suspended"]
      /\ \A h \in Handlers : frame'[h] = frame[h]
  BY <1>3, <1>4, CallAcceptFrames
<1>6. Awaited'
  <2>1. frame'[Loop].state = "suspended" /\ frame'[Loop].m_outer = Noop
    BY <1>3, <1>5 DEF Frames, Frame
  <2> QED
    BY <1>4, <1>5, <2>1, AwaitedAccept DEF Awaited, IndInv, Frames
<1>7. Sockets'
  BY <1>2, <1>4, <1>5 DEF Sockets, IndInv, Holders
<1> QED
  BY <1>2, <1>5, <1>6, <1>7 DEF IndInv, Types

LEMMA AcceptedInv ==
  ASSUME IndInv, NEW h \in Handlers, Accepted(h)
  PROVE  IndInv'
<1>1. PICK new \in {Suspend(Called), FinalSuspend(Called)} :
          frame' = NextAccept([frame EXCEPT ![Accept] = FinalSuspend(@),
                                            ![h] = new], h)
  BY DEF Accepted
<1> DEFINE gone == Destruct(unlink(new))
           fr == [frame EXCEPT ![Accept] = Destruct(FinalSuspend(@)), ![h] = gone]
<1>2. /\ gone \in Frame /\ gone.m_outer = Noop
      /\ gone.state = "suspended" => ~gone.m_linked
  BY <1>1, HandlerFrames
<1>3. frame' = CallAccept(fr)
  BY <1>1 DEF NextAccept, IndInv, Types, Frames
<1> HIDE DEF gone
<1>4. Destruct(FinalSuspend(frame[Accept])) \in Frame
  BY EndedFrame DEF IndInv, Types, Frames
<1>5. /\ fr \in [Frames -> Frame] /\ fr[h] = gone /\ fr[Loop] = frame[Loop]
      /\ \A g \in Handlers \ {h} : fr[g] = frame[g]
  BY <1>2, <1>4 DEF IndInv, Types, Frames
<1> HIDE DEF fr
<1>6. /\ frame' \in [Frames -> Frame]
      /\ frame'[Accept] = await_suspend(Suspend(Called), Loop)
      /\ frame'[Loop] = [frame[Loop] EXCEPT !.state = "suspended"]
      /\ frame'[h] = gone
      /\ \A g \in Handlers \ {h} : frame'[g] = frame[g]
  BY <1>3, <1>5, CallAcceptFrames
<1>7. frame'[Loop].state = "suspended" /\ frame'[Loop].m_outer = Noop
  BY <1>6 DEF IndInv, Types, Awaited, Frames, Frame
<1>8. /\ accept = "done" /\ accept' = "waiting" /\ UNCHANGED open
      /\ holds' = [holds EXCEPT ![h] = holds[Accept], ![Accept] = NoFd]
  BY DEF Accepted, MoveSocket, OnAccept
<1>9. OneHolder' /\ holds' \in [Holders -> Fds \cup {NoFd}]
  BY <1>8 DEF IndInv, Types, OneHolder, Holders
<1>10. Awaited'
  <2>1. \A g \in Handlers : frame[g].m_outer = Noop
    BY DEF IndInv, Awaited, Frames
  <2>2. \A g \in Handlers : frame'[g].m_outer = Noop
    BY <1>2, <1>6, <2>1
  <2>3. \A f \in Frames \ {Accept} : frame'[f].m_outer = Noop
    BY <1>7, <2>2 DEF Frames
  <2>4. /\ frame'[Accept].owned /\ frame'[Accept].state = "suspended"
        /\ frame'[Accept].m_outer = Loop
    BY <1>6, AwaitedAccept
  <2> QED
    BY <1>7, <2>3, <2>4 DEF Awaited
<1>11. Sockets'
  <2>1. holds'[h] # NoFd /\ \A g \in Handlers \ {h} : holds'[g] = holds[g]
    BY <1>8 DEF IndInv, Types, Sockets, Holders
  <2> QED
    BY <1>2, <1>6, <1>8, <2>1 DEF Sockets, IndInv
<1> QED
  BY <1>6, <1>8, <1>9, <1>10, <1>11 DEF IndInv, Types

LEMMA AcceptThrowsInv ==
  ASSUME IndInv, AcceptThrows
  PROVE  IndInv'
<1>1. /\ frame' = [frame EXCEPT ![Accept] = Destruct(FinalSuspend(@)),
                                ![Loop] = FinalSuspend(@)]
      /\ accept' = "none" /\ UNCHANGED <<holds, open>>
  BY DEF AcceptThrows
<1>2. /\ Destruct(FinalSuspend(frame[Accept])) \in Frame
      /\ Destruct(FinalSuspend(frame[Accept])).m_outer = Noop
      /\ FinalSuspend(frame[Loop]) \in Frame
      /\ FinalSuspend(frame[Loop]).m_outer = Noop
  BY EndedFrame DEF IndInv, Types, Frames
<1>3. /\ frame' \in [Frames -> Frame]
      /\ frame'[Accept].m_outer = Noop /\ frame'[Loop].m_outer = Noop
      /\ \A h \in Handlers : frame'[h] = frame[h]
  BY <1>1, <1>2 DEF IndInv, Types, Frames
<1> QED
  BY <1>1, <1>3 DEF IndInv, Types, OneHolder, Awaited, Sockets, Frames

LEMMA HandlerEndsInv ==
  ASSUME IndInv, NEW h \in Handlers, HandlerEnds(h)
  PROVE  IndInv'
<1>1. /\ frame' = [frame EXCEPT ![h] = FinalSuspend(@)]
      /\ UNCHANGED accept
      /\ Close(h) \/ UNCHANGED <<holds, open>>
  BY DEF HandlerEnds
<1>2. /\ FinalSuspend(frame[h]) \in Frame /\ FinalSuspend(frame[h]).m_outer = Noop
      /\ FinalSuspend(frame[h]).state # "suspended"
  BY EndedFrame DEF IndInv, Types, Frames
<1>3. /\ frame' \in [Frames -> Frame]
      /\ frame'[h].m_outer = Noop /\ frame'[h].state # "suspended"
      /\ \A f \in Frames \ {h} : frame'[f] = frame[f]
  BY <1>1, <1>2 DEF IndInv, Types, Frames
<1>4. /\ OneHolder'
      /\ holds' \in [Holders -> Fds \cup {NoFd}] /\ open' \subseteq Fds
      /\ \A g \in Holders \ {h} : holds'[g] = holds[g]
  BY <1>1, CloseHolders DEF IndInv, Types, OneHolder, Holders
<1>5. Awaited'
  BY <1>1, <1>3 DEF IndInv, Awaited, Frames
<1>6. Sockets'
  BY <1>1, <1>3, <1>4 DEF IndInv, Sockets, Frames, Holders
<1> QED
  BY <1>3, <1>4, <1>5, <1>6 DEF IndInv, Types

LEMMA StopServerInv ==
  ASSUME IndInv, StopServer
  PROVE  IndInv'
<1>1. /\ frame' = [frame EXCEPT ![Loop] = Destruct(@), ![Accept] = Destruct(@)]
      /\ open' = open \ {holds[Loop]}
      /\ holds' = [holds EXCEPT ![Loop] = NoFd, ![Accept] = NoFd]
      /\ accept' = "none"
  BY DEF StopServer, DestroyLoop
<1>2. /\ Destruct(frame[Loop]) \in Frame /\ Destruct(frame[Loop]).m_outer = Noop
      /\ Destruct(frame[Accept]) \in Frame
      /\ Destruct(frame[Accept]).m_outer = Noop
  <2>1. frame[Loop] \in Frame /\ frame[Accept] \in Frame
    BY DEF IndInv, Types, Frames
  <2>2. frame[Loop].m_outer = Noop
    BY DEF IndInv, Awaited, Frames
  <2>3. frame[Accept].m_outer = Noop \/ frame[Accept].owned
    BY DEF IndInv, Awaited
  <2>4. Free.m_outer = Noop
    BY DEF Free
  <2> QED
    BY <2>1, <2>2, <2>3, <2>4, EndedFrame
<1>3. /\ frame' \in [Frames -> Frame]
      /\ frame'[Accept].m_outer = Noop /\ frame'[Loop].m_outer = Noop
      /\ \A h \in Handlers : frame'[h] = frame[h]
  BY <1>1, <1>2 DEF IndInv, Types, Frames
<1>4. /\ OneHolder'
      /\ holds' \in [Holders -> Fds \cup {NoFd}] /\ open' \subseteq Fds
      /\ \A h \in Handlers : holds'[h] = holds[h]
  BY <1>1 DEF IndInv, Types, OneHolder, Holders
<1>5. Awaited'
  BY <1>1, <1>3 DEF Awaited, IndInv, Frames
<1>6. Sockets'
  BY <1>1, <1>3, <1>4 DEF Sockets, IndInv
<1> QED
  BY <1>3, <1>4, <1>5, <1>6 DEF IndInv, Types

\* The kernel's and the peers' steps change no frame.
LEMMA KernelInv ==
  ASSUME IndInv,
         \/ StartFails \/ KernelAccepts \/ KernelRefuses \/ StaleAccepts
         \/ \E p \in Peers : PeerConnects(p)
  PROVE  IndInv'
<1>1. CASE StartFails
  BY <1>1, OpenLostHolders, OthersStep DEF StartFails, IndInv, Types
<1>2. CASE StaleAccepts
  BY <1>2, OpenLostHolders, OthersStep DEF StaleAccepts, IndInv, Types, OneHolder
<1>3. CASE \E p \in Peers : PeerConnects(p)
  BY <1>3, OthersStep DEF PeerConnects, IndInv, Types, OneHolder
<1>4. CASE KernelRefuses
  BY <1>4 DEF KernelRefuses, IndInv, Types, OneHolder, Awaited, Sockets
<1>5. CASE KernelAccepts
  <2>1. PICK fd \in Fds : Open(Accept, fd)
    BY <1>5 DEF KernelAccepts
  <2>2. /\ OneHolder'
        /\ holds' \in [Holders -> Fds \cup {NoFd}] /\ open' \subseteq Fds
        /\ holds'[Accept] # NoFd
        /\ \A g \in Holders \ {Accept} : holds'[g] = holds[g]
    BY <2>1, OpenHolders DEF IndInv, Holders
  <2> QED
    BY <1>5, <2>2 DEF KernelAccepts, IndInv, Types, Awaited, Sockets, Holders
<1> QED
  BY <1>1, <1>2, <1>3, <1>4, <1>5

LEMMA NextIndInv == IndInv /\ [Next]_vars => IndInv'
<1> SUFFICES ASSUME IndInv, [Next]_vars PROVE IndInv'
  OBVIOUS
<1>1. CASE UNCHANGED vars
  BY <1>1 DEF vars, IndInv, Types, OneHolder, Awaited, Sockets
<1>2. CASE Next
  BY <1>2, CoroutineInv, StartServerInv, AcceptedInv, AcceptThrowsInv,
     HandlerEndsInv, StopServerInv, KernelInv DEF Next
<1> QED
  BY <1>1, <1>2

\* The inductive invariant holds.
THEOREM Inductive == Spec => []IndInv
  BY InitIndInv, NextIndInv, PTL DEF Spec

\* A descriptor has one holder at most, for which it is open: no destructor of
\* a socket, timer or server closes a number that belongs to another object.
THEOREM HoldersDistinct == Spec => []OneHolder
<1>1. IndInv => OneHolder
  BY DEF IndInv
<1> QED
  BY <1>1, Inductive, PTL

\* final_awaiter and the kernel's answer to an accept resume only frames that
\* exist and are suspended.
THEOREM ResumedFramesLive == Spec => []ResumesLive
<1>1. IndInv => ResumesLive
  <2> SUFFICES ASSUME IndInv PROVE ResumesLive
    OBVIOUS
  <2>1. DOMAIN frame = Frames
    BY DEF IndInv, Types
  <2>2. ASSUME NEW f \in Frames, frame[f].m_outer # Noop
        PROVE  frame[frame[f].m_outer].state = "suspended"
    <3>1. f = Accept
      BY <2>2 DEF IndInv, Awaited, Frames
    <3>2. frame[f].m_outer = Loop
      BY <2>2 DEF IndInv, Types, Frame
    <3> QED
      BY <2>2, <3>1, <3>2 DEF IndInv, Awaited
  <2> QED
    BY <2>1, <2>2 DEF ResumesLive, IndInv, Awaited
<1> QED
  BY <1>1, Inductive, PTL

\* What unlink promises: nothing but its own end frees the frame of a
\* suspended handler, and its socket is closed in that step.
THEOREM HandlersIndependent == Spec => HandlerIndependent
<1>1. IndInv /\ [Next]_vars =>
          [\A h \in Handlers : frame[h].state = "suspended" /\ frame'[h] # frame[h]
               => /\ frame'[h].state = "free"
                  /\ holds[h] \in open \ open']_vars
  <2> SUFFICES ASSUME IndInv, Next, NEW h \in Handlers,
                      frame[h].state = "suspended", frame'[h] # frame[h]
               PROVE  frame'[h].state = "free" /\ holds[h] \in open \ open'
    OBVIOUS
  <2>1. frame \in [Frames -> Frame] /\ h \in Frames /\ h # Loop /\ h # Accept
    BY DEF IndInv, Types, Frames
  <2>2. HandlerEnds(h)
    <3>1. ~StartServer /\ ~AcceptThrows /\ ~StopServer
      BY <2>1 DEF StartServer, AcceptThrows, StopServer, CallAccept, DestroyLoop,
                  Frames
    <3>2. ~UNCHANGED frame
      OBVIOUS
    <3>3. PICK g \in Handlers : Accepted(g) \/ HandlerEnds(g)
      BY <3>1, <3>2 DEF Next, StartFails, KernelAccepts, KernelRefuses,
         StaleAccepts, PeerConnects, CoroutineStep, Connect, ConnectDone,
         ConnectFails, CloseSocket, TimerNew, TimerNewFails, TimerWait, TimerGone
    <3>4. ~Accepted(g)
      <4>1. SUFFICES ASSUME Accepted(g) PROVE FALSE
        OBVIOUS
      <4>2. g # h
        BY <4>1 DEF Accepted
      <4> QED
        BY <2>1, <4>1, <4>2 DEF Accepted, NextAccept, CallAccept, Frames
    <3>5. g = h
      BY <2>1, <3>3, <3>4 DEF HandlerEnds, Frames
    <3> QED
      BY <3>3, <3>4, <3>5
  <2>3. frame'[h] = Free
    BY <2>1, <2>2 DEF HandlerEnds, FinalSuspend, IndInv, Sockets
  <2>4. open' = open \ {holds[h]}
    BY <2>2, <2>3 DEF HandlerEnds, Close, Free
  <2>5. holds[h] \in open
    BY DEF IndInv, Sockets, OneHolder, Holders
  <2> QED
    BY <2>3, <2>4, <2>5 DEF Free
<1> QED
  BY <1>1, Inductive, PTL DEF Spec, HandlerIndependent

----------------------------------------------------------------------------
(* What is lost *)

\* The descriptors that nobody will ever close.
Stranded == open \ {holds[h] : h \in {g \in Holders : ~Abandoned(g)}}

\* Who has a descriptor, by what it is doing.
Holding ==
    /\ use \in [Coroutines -> {"idle", "connecting", "connected", "timer", "ticking"}]
    /\ \A d \in Coroutines : use[d] = "idle" <=> holds[d] = NoFd
    /\ frame[Loop].state = "free" => holds[Loop] = NoFd
    /\ frame[Loop].state # "free" => frame[Loop].m_linked
    /\ accept # "done" => holds[Accept] = NoFd
    /\ \A h \in Handlers : frame[h].state = "free" => holds[h] = NoFd

Losses == lost \in Nat /\ LostExactly

\* A step keeps the number right in one of two ways.
Same == Stranded' = Stranded /\ UNCHANGED lost

OneMore == (\E x : x \notin Stranded /\ Stranded' = Stranded \cup {x})
               /\ lost' = lost + 1

SameAbandoned == \A g \in Holders : Abandoned(g)' <=> Abandoned(g)

LEMMA InStranded ==
  \A x : x \in Stranded <=>
      x \in open /\ \A h \in Holders : holds[h] = x => Abandoned(h)
  BY DEF Stranded

LEMMA LossesStep ==
  ASSUME IndInv, Losses, Same \/ OneMore
  PROVE  Losses'
<1>1. Stranded \subseteq Fds /\ IsFiniteSet(Stranded)
  BY FS_Subset DEF Stranded, IndInv, Types
<1>2. Cardinality(Stranded) = lost /\ lost \in Nat
  BY DEF Losses, LostExactly, Stranded
<1>3. CASE Same
  BY <1>2, <1>3 DEF Same, Losses, LostExactly, Stranded
<1>4. CASE OneMore
  <2>1. PICK x : x \notin Stranded /\ Stranded' = Stranded \cup {x}
    BY <1>4 DEF OneMore
  <2>2. Cardinality(Stranded') = Cardinality(Stranded) + 1
    BY <1>1, <2>1, FS_AddElement
  <2>3. lost' = lost + 1
    BY <1>4 DEF OneMore
  <2>4. Cardinality(Stranded') = lost'
    BY <1>2, <2>2, <2>3
  <2> QED
    BY <1>2, <2>3, <2>4 DEF Losses, LostExactly, Stranded
<1> QED
  BY <1>3, <1>4

\* A descriptor opened for a holder that had none is accounted for.
LEMMA OpenSame ==
  ASSUME IndInv, NEW h \in Holders \ Handlers, NEW fd \in Fds, Open(h, fd),
         holds[h] = NoFd, SameAbandoned
  PROVE  Same
<1>1. /\ open' = open \cup {fd} /\ fd \notin open /\ UNCHANGED lost
      /\ holds'[h] = fd /\ \A g \in Holders \ {h} : holds'[g] = holds[g]
      /\ \A g \in Holders : holds[g] # NoFd => holds[g] \in open
  BY DEF Open, IndInv, Types, OneHolder
<1>2. ~Abandoned(h) /\ ~Abandoned(h)'
  BY DEF SameAbandoned, Abandoned
<1>3. \A x : x \in Stranded' <=>
          x \in open' /\ \A g \in Holders : holds'[g] = x => Abandoned(g)'
  BY DEF Stranded
<1>4. \A x : x \in Stranded' <=> x \in Stranded
  BY <1>1, <1>2, <1>3, InStranded DEF SameAbandoned, IndInv, Types
<1> QED
  BY <1>1, <1>4, SetExtensionality DEF Same

LEMMA OpenLostOneMore ==
  ASSUME IndInv, NEW fd \in Fds, OpenLost(fd), UNCHANGED frame
  PROVE  OneMore
<1>1. /\ open' = open \cup {fd} /\ fd \notin open /\ lost' = lost + 1
      /\ UNCHANGED holds
  BY DEF OpenLost
<1>2. \A g \in Holders : holds[g] # fd
  BY <1>1 DEF IndInv, OneHolder
<1>3. fd \notin Stranded /\ Stranded' = Stranded \cup {fd}
  BY <1>1, <1>2 DEF Stranded, Abandoned
<1> QED
  BY <1>1, <1>3 DEF OneMore

\* Closing removes what was not stranded.
LEMMA CloseSame ==
  ASSUME IndInv, NEW h \in Holders, holds[h] # NoFd, Close(h), UNCHANGED lost,
         ~Abandoned(h),
         \A g \in Holders \ {h} : Abandoned(g)' <=> Abandoned(g)
  PROVE  Same
<1>1. /\ open' = open \ {holds[h]} /\ holds'[h] = NoFd
      /\ \A g \in Holders \ {h} : holds'[g] = holds[g]
  BY DEF Close, IndInv, Types
<1>2. \A x : x \in Stranded' <=>
          x \in open' /\ \A g \in Holders : holds'[g] = x => Abandoned(g)'
  BY DEF Stranded
<1>3. \A x \in open : x # NoFd
  BY DEF IndInv, Types
<1>4. \A x : x \in Stranded' <=> x \in Stranded
  BY <1>1, <1>2, <1>3, InStranded
<1> QED
  BY <1>4, SetExtensionality DEF Same

\* What a holder gives up without closing it is stranded from then on.
LEMMA DropOneMore ==
  ASSUME IndInv, NEW h \in Holders, holds[h] # NoFd, ~Abandoned(h), SameAbandoned,
         UNCHANGED open, lost' = lost + 1, holds' = [holds EXCEPT ![h] = NoFd]
  PROVE  OneMore
<1>1. holds'[h] = NoFd /\ \A g \in Holders \ {h} : holds'[g] = holds[g]
  BY DEF IndInv, Types
<1>2. holds[h] \in open /\ \A g \in Holders \ {h} : holds[g] # holds[h]
  BY DEF IndInv, OneHolder
<1>3. \A x : x \in Stranded' <=>
          x \in open' /\ \A g \in Holders : holds'[g] = x => Abandoned(g)'
  BY DEF Stranded
<1>4. \A x \in open : x # NoFd
  BY DEF IndInv, Types
<1>5. \A x : x \in Stranded' <=> x \in Stranded \/ x = holds[h]
  BY <1>1, <1>2, <1>3, <1>4, InStranded DEF SameAbandoned
<1>6. Stranded' = Stranded \cup {holds[h]} /\ holds[h] \notin Stranded
  BY <1>5, InStranded
<1> QED
  BY <1>6 DEF OneMore

LEMMA CoroutineLosses ==
  ASSUME IndInv, Holding, NEW d \in Coroutines, CoroutineStep(d)
  PROVE  Holding' /\ (Same \/ OneMore)
<1>1. d \in Holders \ Handlers /\ d # Loop /\ d # Accept /\ ~Abandoned(d)
  BY DEF Holders, Abandoned
<1>2. UNCHANGED <<frame, accept>>
  BY DEF CoroutineStep, Connect, ConnectDone, ConnectFails, CloseSocket, TimerNew,
         TimerNewFails, TimerWait, TimerGone
<1>3. SameAbandoned
  BY <1>2 DEF SameAbandoned, Abandoned
<1>4. ASSUME \A g \in Holders \ {d} : holds'[g] = holds[g],
             use' \in [Coroutines -> {"idle", "connecting", "connected", "timer", "ticking"}],
             use'[d] = "idle" <=> holds'[d] = NoFd,
             \A c \in Coroutines \ {d} : use'[c] = use[c]
      PROVE  Holding'
  <2>1. \A c \in Coroutines : use'[c] = "idle" <=> holds'[c] = NoFd
    BY <1>4 DEF Holding, Holders
  <2>2. /\ holds'[Loop] = holds[Loop] /\ holds'[Accept] = holds[Accept]
        /\ \A h \in Handlers : holds'[h] = holds[h]
    BY <1>1, <1>4 DEF Holders
  <2> QED
    BY <1>2, <1>4, <2>1, <2>2 DEF Holding
<1>5. ASSUME NEW from, NEW to \in {"idle", "connecting", "connected", "timer", "ticking"},
             Uses(d, from, to)
      PROVE  /\ use[d] = from /\ use'[d] = to
             /\ use' \in [Coroutines -> {"idle", "connecting", "connected", "timer", "ticking"}]
             /\ \A c \in Coroutines \ {d} : use'[c] = use[c]
  BY <1>5 DEF Uses, Holding
<1>6. CASE Connect(d) \/ TimerNew(d)
  <2>1. PICK fd \in Fds : Open(d, fd)
    BY <1>6 DEF Connect, TimerNew
  <2>2. Uses(d, "idle", "connecting") \/ Uses(d, "idle", "timer")
    BY <1>6 DEF Connect, TimerNew
  <2>3. /\ use[d] = "idle" /\ use'[d] # "idle"
        /\ use' \in [Coroutines -> {"idle", "connecting", "connected", "timer", "ticking"}]
        /\ \A c \in Coroutines \ {d} : use'[c] = use[c]
    BY <1>5, <2>2
  <2>4. holds[d] = NoFd
    BY <2>3 DEF Holding
  <2>5. holds'[d] # NoFd /\ \A g \in Holders \ {d} : holds'[g] = holds[g]
    BY <1>1, <2>1, OpenHolders DEF IndInv
  <2> QED
    BY <1>1, <1>3, <1>4, <2>1, <2>3, <2>4, <2>5, OpenSame
<1>7. CASE CloseSocket(d) \/ TimerGone(d)
  <2>1. Close(d) /\ UNCHANGED lost
    BY <1>7 DEF CloseSocket, TimerGone
  <2>2. \E from \in {"connected", "timer", "ticking"} : Uses(d, from, "idle")
    BY <1>7 DEF CloseSocket, TimerGone
  <2>3. /\ use[d] # "idle" /\ use'[d] = "idle"
        /\ use' \in [Coroutines -> {"idle", "connecting", "connected", "timer", "ticking"}]
        /\ \A c \in Coroutines \ {d} : use'[c] = use[c]
    BY <1>5, <2>2
  <2>4. holds[d] # NoFd
    BY <2>3 DEF Holding
  <2>5. holds'[d] = NoFd /\ \A g \in Holders \ {d} : holds'[g] = holds[g]
    BY <1>1, <2>1 DEF Close, IndInv, Types
  <2>6. Same
    BY <1>1, <1>3, <2>1, <2>4, CloseSame DEF SameAbandoned
  <2> QED
    BY <1>4, <2>3, <2>5, <2>6
<1>8. CASE ConnectDone(d) \/ TimerWait(d)
  <2>1. UNCHANGED <<holds, open, lost>>
    BY <1>8 DEF ConnectDone, TimerWait
  <2>2. \/ Uses(d, "connecting", "connected") \/ Uses(d, "timer", "ticking")
        \/ Uses(d, "ticking", "timer")
    BY <1>8 DEF ConnectDone, TimerWait
  <2>3. /\ use[d] # "idle" /\ use'[d] # "idle"
        /\ use' \in [Coroutines -> {"idle", "connecting", "connected", "timer", "ticking"}]
        /\ \A c \in Coroutines \ {d} : use'[c] = use[c]
    BY <1>5, <2>2
  <2>4. Same
    BY <1>2, <2>1 DEF Same, Stranded, Abandoned
  <2> QED
    BY <1>4, <2>1, <2>3, <2>4 DEF Holding
<1>9. CASE ConnectFails(d)
  <2>1. /\ Uses(d, "connecting", "idle") /\ holds' = [holds EXCEPT ![d] = NoFd]
        /\ lost' = lost + 1 /\ UNCHANGED open
    BY <1>9 DEF ConnectFails
  <2>2. /\ use[d] = "connecting" /\ use'[d] = "idle"
        /\ use' \in [Coroutines -> {"idle", "connecting", "connected", "timer", "ticking"}]
        /\ \A c \in Coroutines \ {d} : use'[c] = use[c]
    BY <1>5, <2>1
  <2>3. holds[d] # NoFd
    BY <2>2 DEF Holding
  <2>4. holds'[d] = NoFd /\ \A g \in Holders \ {d} : holds'[g] = holds[g]
    BY <1>1, <2>1 DEF IndInv, Types
  <2> QED
    BY <1>1, <1>3, <1>4, <2>1, <2>2, <2>3, <2>4, DropOneMore
<1>10. CASE TimerNewFails(d)
  <2>1. PICK fd \in Fds : OpenLost(fd)
    BY <1>10 DEF TimerNewFails
  <2>2. UNCHANGED <<use, holds>>
    BY <1>10, <2>1 DEF TimerNewFails, OpenLost
  <2> QED
    BY <1>2, <2>1, <2>2, OpenLostOneMore DEF Holding
<1> QED
  BY <1>6, <1>7, <1>8, <1>9, <1>10 DEF CoroutineStep

LEMMA StartServerLosses ==
  ASSUME IndInv, Holding, StartServer
  PROVE  Holding' /\ Same
<1> DEFINE fr == [frame EXCEPT ![Loop] = Called]
<1>1. PICK fd \in Fds : Open(Loop, fd)
  BY DEF StartServer
<1>2. /\ Loop \in Holders \ Handlers /\ holds[Loop] = NoFd
      /\ accept' = "waiting" /\ UNCHANGED use
  BY DEF StartServer, Serving, Holding, Holders, OnAccept
<1>3. holds'[Loop] # NoFd /\ \A g \in Holders \ {Loop} : holds'[g] = holds[g]
  BY <1>1, <1>2, OpenHolders DEF IndInv
<1>4. /\ fr \in [Frames -> Frame] /\ fr[Loop].m_linked
      /\ \A h \in Handlers : fr[h] = frame[h]
  BY DEF IndInv, Types, Frames, Frame, Called
<1>5. frame' = CallAccept(fr)
  BY DEF StartServer
<1> HIDE DEF fr
<1>6. /\ \A h \in Handlers : frame'[h] = frame[h]
      /\ frame'[Loop] = [fr[Loop] EXCEPT !.state = "suspended"]
  BY <1>4, <1>5, CallAcceptFrames
<1>7. frame'[Loop].state = "suspended" /\ frame'[Loop].m_linked
  BY <1>4, <1>6 DEF Frames, Frame
<1>8. SameAbandoned
  BY <1>6 DEF SameAbandoned, Abandoned
<1>9. accept # "done"
  BY DEF StartServer, Serving, IndInv, Awaited
<1>10. holds'[Accept] = NoFd
  BY <1>3, <1>9 DEF Holding, Holders
<1>11. Holding'
  BY <1>2, <1>3, <1>6, <1>7, <1>10 DEF Holding, Holders
<1> QED
  BY <1>1, <1>2, <1>8, <1>11, OpenSame

\* The socket passes from accept() to the handler; a handler that is at its end
\* already will not close it.
LEMMA AcceptedLosses ==
  ASSUME IndInv, Holding, NEW h \in Handlers, Accepted(h)
  PROVE  Holding' /\ (Same \/ OneMore)
<1> DEFINE Arrived(new) == frame' = NextAccept([frame EXCEPT ![Accept] = FinalSuspend(@),
                                                             ![h] = new], h)
<1>1. /\ accept = "done" /\ accept' = "waiting" /\ UNCHANGED <<open, use>>
      /\ frame[h].state = "free"
      /\ holds' = [holds EXCEPT ![h] = holds[Accept], ![Accept] = NoFd]
      /\ \/ Arrived(Suspend(Called)) /\ UNCHANGED lost
         \/ Arrived(FinalSuspend(Called)) /\ lost' = lost + 1
  BY DEF Accepted, MoveSocket, OnAccept
<1>2. ASSUME NEW new, new \in {Suspend(Called), FinalSuspend(Called)}, Arrived(new)
      PROVE  /\ frame'[h] = Destruct(unlink(new))
             /\ frame'[Loop].state = "suspended" /\ frame'[Loop].m_linked
             /\ \A g \in Handlers \ {h} : frame'[g] = frame[g]
  <2> DEFINE gone == Destruct(unlink(new))
             fr == [frame EXCEPT ![Accept] = Destruct(FinalSuspend(@)), ![h] = gone]
  <2>1. gone \in Frame
    BY <1>2, HandlerFrames
  <2>2. frame' = CallAccept(fr)
    BY <1>2 DEF NextAccept, IndInv, Types, Frames
  <2> HIDE DEF gone
  <2>3. Destruct(FinalSuspend(frame[Accept])) \in Frame
    BY EndedFrame DEF IndInv, Types, Frames
  <2>4. /\ fr \in [Frames -> Frame] /\ fr[h] = gone /\ fr[Loop] = frame[Loop]
        /\ \A g \in Handlers \ {h} : fr[g] = frame[g]
    BY <2>1, <2>3 DEF IndInv, Types, Frames
  <2> HIDE DEF fr
  <2>5. /\ frame'[Loop] = [frame[Loop] EXCEPT !.state = "suspended"]
        /\ frame'[h] = gone
        /\ \A g \in Handlers \ {h} : frame'[g] = frame[g]
    BY <2>2, <2>4, CallAcceptFrames
  <2>6. frame[Loop].state = "suspended" /\ frame[Loop] \in Frame
    BY <1>1 DEF IndInv, Types, Awaited, Frames
  <2>7. frame'[Loop].state = "suspended" /\ frame'[Loop].m_linked
    BY <2>5, <2>6 DEF Holding, Frame
  <2> QED
    BY <2>5, <2>7 DEF gone
<1> HIDE DEF Arrived
<1>3. /\ h \in Holders /\ Accept \in Holders /\ h # Accept /\ h # Loop
      /\ h \notin Coroutines /\ Loop \in Holders /\ Loop # Accept
  BY DEF Holders
<1>4. /\ holds'[h] = holds[Accept] /\ holds'[Accept] = NoFd
      /\ \A g \in Holders \ {h, Accept} : holds'[g] = holds[g]
  BY <1>1, <1>3 DEF IndInv, Types
<1>5. /\ frame'[Loop].state = "suspended" /\ frame'[Loop].m_linked
      /\ \A g \in Handlers \ {h} : frame'[g] = frame[g]
      /\ frame'[h].state # "free"
  <2>1. /\ Destruct(unlink(Suspend(Called))).state # "free"
        /\ Destruct(unlink(FinalSuspend(Called))).state # "free"
    BY DEF Destruct, unlink, Suspend, FinalSuspend, Called
  <2> QED
    BY <1>1, <1>2, <2>1
<1>6. Holding'
  <2>1. \A d \in Coroutines : use'[d] = "idle" <=> holds'[d] = NoFd
    BY <1>1, <1>3, <1>4 DEF Holding, Holders
  <2>2. \A g \in Handlers : frame'[g].state = "free" => holds'[g] = NoFd
    BY <1>3, <1>4, <1>5 DEF Holding, Holders
  <2> QED
    BY <1>1, <1>4, <1>5, <2>1, <2>2 DEF Holding
<1>7. /\ holds[h] = NoFd /\ holds[Accept] # NoFd /\ holds[Accept] \in open
      /\ \A g \in Holders \ {Accept} : holds[g] # holds[Accept]
      /\ ~Abandoned(h) /\ ~Abandoned(Accept) /\ ~Abandoned(Accept)'
      /\ \A g \in Holders \ {h} : Abandoned(g)' <=> Abandoned(g)
  BY <1>1, <1>3, <1>5 DEF Holding, IndInv, OneHolder, Sockets, Abandoned
<1>8. \A x : x \in Stranded' <=>
          x \in open' /\ \A g \in Holders : holds'[g] = x => Abandoned(g)'
  BY DEF Stranded
<1>9. \A x \in open : x # NoFd
  BY DEF IndInv, Types
<1>10. \A x \in open \ {holds[Accept]}, g \in Holders :
           (holds'[g] = x => Abandoned(g)') <=> (holds[g] = x => Abandoned(g))
  BY <1>3, <1>4, <1>7, <1>9
<1>11. CASE Arrived(Suspend(Called)) /\ UNCHANGED lost
  <2>1. frame'[h].state = "suspended"
    <3>1. Destruct(unlink(Suspend(Called))).state = "suspended"
      BY DEF Destruct, unlink, Suspend, Called
    <3> QED
      BY <1>2, <1>11, <3>1
  <2>2. ~Abandoned(h)'
    BY <2>1 DEF Abandoned
  <2>3. holds[Accept] \notin Stranded /\ holds[Accept] \notin Stranded'
    BY <1>3, <1>4, <1>7, <1>8, <2>2, InStranded
  <2>4. \A x : x \in Stranded' <=> x \in Stranded
    BY <1>1, <1>8, <1>10, <2>3, InStranded
  <2> QED
    BY <1>6, <1>11, <2>4, SetExtensionality DEF Same
<1>12. CASE Arrived(FinalSuspend(Called)) /\ lost' = lost + 1
  <2>1. frame'[h].state = "done" /\ ~frame'[h].owned
    <3>1. /\ Destruct(unlink(FinalSuspend(Called))).state = "done"
          /\ ~Destruct(unlink(FinalSuspend(Called))).owned
      BY DEF Destruct, unlink, FinalSuspend, Called
    <3> QED
      BY <1>2, <1>12, <3>1
  <2>2. Abandoned(h)'
    BY <2>1 DEF Abandoned
  <2>3. holds[Accept] \in Stranded'
    <3>1. ASSUME NEW g \in Holders, holds'[g] = holds[Accept] PROVE Abandoned(g)'
      <4>1. g = h
        BY <1>4, <1>7, <3>1
      <4> QED
        BY <2>1, <4>1 DEF Abandoned
    <3> QED
      BY <1>1, <1>7, <1>8, <3>1
  <2>4. \A x : x \in Stranded' <=> x \in Stranded \/ x = holds[Accept]
    BY <1>1, <1>8, <1>10, <2>3, InStranded
  <2>5. Stranded' = Stranded \cup {holds[Accept]} /\ holds[Accept] \notin Stranded
    BY <1>3, <1>7, <2>4, InStranded
  <2> QED
    BY <1>6, <1>12, <2>5 DEF OneMore
<1> QED
  BY <1>1, <1>11, <1>12

LEMMA AcceptThrowsLosses ==
  ASSUME IndInv, Holding, AcceptThrows
  PROVE  Holding' /\ Same
<1>1. /\ frame' = [frame EXCEPT ![Accept] = Destruct(FinalSuspend(@)),
                                ![Loop] = FinalSuspend(@)]
      /\ accept = "failed" /\ accept' = "none" /\ UNCHANGED <<holds, open, use, lost>>
  BY DEF AcceptThrows
<1>2. /\ \A h \in Handlers : frame'[h] = frame[h]
      /\ frame'[Loop] = FinalSuspend(frame[Loop])
  BY <1>1 DEF IndInv, Types, Frames
<1>3. frame[Loop] \in Frame /\ frame[Loop].state = "suspended" /\ frame[Loop].m_linked
  BY <1>1 DEF IndInv, Types, Awaited, Holding, Frames
<1>4. frame'[Loop].state = "done" /\ frame'[Loop].m_linked
  BY <1>2, <1>3 DEF FinalSuspend, Frame
<1>5. Same
  BY <1>1, <1>2 DEF Same, Stranded, Abandoned
<1>6. Holding'
  BY <1>1, <1>2, <1>4 DEF Holding
<1> QED
  BY <1>5, <1>6

LEMMA HandlerEndsLosses ==
  ASSUME IndInv, Holding, NEW h \in Handlers, HandlerEnds(h)
  PROVE  Holding' /\ Same
<1>1. frame[h].state = "suspended" /\ h \in Holders /\ h # Loop /\ h # Accept
  BY DEF HandlerEnds, Holders
<1>2. ~frame[h].m_linked /\ holds[h] # NoFd /\ ~Abandoned(h)
  BY <1>1 DEF IndInv, Sockets, Abandoned
<1>3. frame'[h] = Free /\ \A g \in Frames \ {h} : frame'[g] = frame[g]
  BY <1>2 DEF HandlerEnds, FinalSuspend, IndInv, Types, Frames
<1>4. Close(h) /\ UNCHANGED <<use, accept, lost>>
  BY <1>3 DEF HandlerEnds, Free
<1>5. \A g \in Holders \ {h} : Abandoned(g)' <=> Abandoned(g)
  BY <1>3 DEF Abandoned, Frames
<1>6. Same
  BY <1>1, <1>2, <1>4, <1>5, CloseSame
<1>7. holds'[h] = NoFd /\ \A g \in Holders \ {h} : holds'[g] = holds[g]
  BY <1>1, <1>4 DEF Close, IndInv, Types
<1>8. \A d \in Coroutines : holds'[d] = holds[d]
  BY <1>7 DEF Holders
<1>9. \A g \in Handlers : frame'[g].state = "free" => holds'[g] = NoFd
  BY <1>3, <1>7 DEF Holding, Holders, Frames
<1>10. /\ holds'[Loop] = holds[Loop] /\ holds'[Accept] = holds[Accept]
       /\ frame'[Loop] = frame[Loop]
  BY <1>1, <1>3, <1>7 DEF Holders, Frames
<1>11. Holding'
  BY <1>4, <1>8, <1>9, <1>10 DEF Holding
<1> QED
  BY <1>6, <1>11

LEMMA StopServerLosses ==
  ASSUME IndInv, Holding, StopServer
  PROVE  Holding' /\ (Same \/ OneMore)
<1>1. /\ frame' = [frame EXCEPT ![Loop] = Destruct(@), ![Accept] = Destruct(@)]
      /\ open' = open \ {holds[Loop]}
      /\ holds' = [holds EXCEPT ![Loop] = NoFd, ![Accept] = NoFd]
      /\ accept' = "none" /\ UNCHANGED use
      /\ lost' = IF accept = "done" THEN lost + 1 ELSE lost
  BY DEF StopServer, DestroyLoop
<1>2. Loop \in Holders /\ Accept \in Holders /\ Loop # Accept
  BY DEF Holders
<1>3. /\ holds'[Loop] = NoFd /\ holds'[Accept] = NoFd
      /\ \A g \in Holders \ {Loop, Accept} : holds'[g] = holds[g]
  BY <1>1, <1>2 DEF IndInv, Types
<1>4. /\ \A h \in Handlers : frame'[h] = frame[h]
      /\ frame'[Loop] = Destruct(frame[Loop])
  BY <1>1 DEF IndInv, Types, Frames
<1>5. frame'[Loop].state # "free" => frame'[Loop].m_linked
  BY <1>4 DEF Destruct, Free, Holding
<1>6. SameAbandoned /\ ~Abandoned(Loop) /\ ~Abandoned(Accept)
  BY <1>4 DEF SameAbandoned, Abandoned
<1>7. Holding'
  <2>1. /\ \A d \in Coroutines : holds'[d] = holds[d]
        /\ \A h \in Handlers : holds'[h] = holds[h]
    BY <1>3 DEF Holders
  <2>2. use' = use
    BY <1>1
  <2>3. \A d \in Coroutines : use'[d] = "idle" <=> holds'[d] = NoFd
    BY <2>1, <2>2 DEF Holding
  <2>4. \A h \in Handlers : frame'[h].state = "free" => holds'[h] = NoFd
    BY <1>4, <2>1 DEF Holding
  <2>5. use' \in [Coroutines -> {"idle", "connecting", "connected", "timer", "ticking"}]
    BY <2>2 DEF Holding
  <2> QED
    BY <1>3, <1>5, <2>3, <2>4, <2>5 DEF Holding
<1>8. \A x : x \in Stranded' <=>
          x \in open' /\ \A g \in Holders : holds'[g] = x => Abandoned(g)'
  BY DEF Stranded
<1>9. \A x \in open : x # NoFd
  BY DEF IndInv, Types
<1>10. \A x \in open' \ {holds[Accept]}, g \in Holders :
           (holds'[g] = x => Abandoned(g)') <=> (holds[g] = x => Abandoned(g))
  BY <1>1, <1>2, <1>3, <1>6, <1>9 DEF SameAbandoned
<1>11. holds[Loop] \notin Stranded /\ \A x \in open \ open' : x = holds[Loop]
  BY <1>1, <1>2, <1>6, InStranded
<1>12. CASE accept = "done"
  <2>1. /\ holds[Accept] # NoFd /\ holds[Accept] \in open
        /\ \A g \in Holders \ {Accept} : holds[g] # holds[Accept]
    BY <1>2, <1>12 DEF IndInv, Sockets, OneHolder
  <2>2. holds[Accept] \in Stranded' /\ holds[Accept] \notin Stranded
    <3>1. \A g \in Holders : holds'[g] # holds[Accept]
      BY <1>3, <2>1
    <3>2. holds[Accept] \in open'
      BY <1>1, <1>2, <2>1
    <3> QED
      BY <1>2, <1>6, <1>8, <3>1, <3>2, InStranded
  <2>3. \A x : x \in Stranded' <=> x \in Stranded \/ x = holds[Accept]
    BY <1>1, <1>8, <1>10, <1>11, <2>2, InStranded
  <2>4. Stranded' = Stranded \cup {holds[Accept]} /\ holds[Accept] \notin Stranded
    BY <2>2, <2>3
  <2> QED
    BY <1>1, <1>7, <1>12, <2>4 DEF OneMore
<1>13. CASE accept # "done"
  <2>1. holds[Accept] = NoFd
    BY <1>13 DEF Holding
  <2>2. \A x : x \in Stranded' <=> x \in Stranded
    BY <1>1, <1>8, <1>9, <1>10, <1>11, <2>1, InStranded
  <2> QED
    BY <1>1, <1>7, <1>13, <2>2, SetExtensionality DEF Same
<1> QED
  BY <1>12, <1>13

LEMMA KernelLosses ==
  ASSUME IndInv, Holding,
         \/ StartFails \/ KernelAccepts \/ KernelRefuses \/ StaleAccepts
         \/ \E p \in Peers : PeerConnects(p)
  PROVE  Holding' /\ (Same \/ OneMore)
<1>1. UNCHANGED <<frame, use>>
  BY DEF StartFails, KernelAccepts, KernelRefuses, StaleAccepts, PeerConnects
<1>2. SameAbandoned
  BY <1>1 DEF SameAbandoned, Abandoned
<1>3. CASE UNCHANGED <<open, holds, lost>> /\ (accept' = accept \/ accept # "done")
  BY <1>1, <1>3 DEF Holding, Same, Stranded, Abandoned
<1>4. ASSUME NEW fd \in Fds, OpenLost(fd), UNCHANGED accept
      PROVE  Holding' /\ (Same \/ OneMore)
  BY <1>1, <1>4, OpenLostOneMore DEF Holding, OpenLost
<1>5. CASE KernelAccepts
  <2>1. PICK fd \in Fds : Open(Accept, fd)
    BY <1>5 DEF KernelAccepts
  <2>2. accept = "waiting" /\ accept' = "done"
    BY <1>5 DEF KernelAccepts
  <2>3. Accept \in Holders \ Handlers /\ holds[Accept] = NoFd
    BY <2>2 DEF Holding, Holders
  <2>4. Same
    BY <1>2, <2>1, <2>3, OpenSame
  <2>5. \A g \in Holders \ {Accept} : holds'[g] = holds[g]
    BY <2>1, <2>3, OpenHolders DEF IndInv
  <2>6. Holding'
    BY <1>1, <2>2, <2>5 DEF Holding, Holders
  <2> QED
    BY <2>4, <2>6
<1> QED
  BY <1>3, <1>4, <1>5 DEF StartFails, KernelRefuses, StaleAccepts, PeerConnects

\* Exactly the descriptors that the named paths lose stay open with nobody to
\* close them: every other path of the accept loop, of a connection's end, of a
\* connect and of a timer closes what it opened.
THEOREM LossesExact == Spec => []LostExactly
<1>1. Init => Holding /\ Losses
  <2> SUFFICES ASSUME Init PROVE Holding /\ Losses
    OBVIOUS
  <2>1. Stranded = {} /\ lost = 0
    BY DEF Init, Stranded
  <2>2. Losses
    BY <2>1, FS_EmptySet DEF Losses, LostExactly, Stranded
  <2>3. Holding
    BY DEF Init, Holding, Holders, Free
  <2> QED
    BY <2>2, <2>3
<1>2. IndInv /\ Holding /\ Losses /\ [Next]_vars => Holding' /\ Losses'
  <2> SUFFICES ASSUME IndInv, Holding, Losses, [Next]_vars PROVE Holding' /\ Losses'
    OBVIOUS
  <2>1. CASE UNCHANGED vars
    BY <2>1, LossesStep DEF vars, Holding, Same, Stranded, Abandoned
  <2>2. CASE Next
    BY <2>2, LossesStep, CoroutineLosses, StartServerLosses, AcceptedLosses,
       AcceptThrowsLosses, HandlerEndsLosses, StopServerLosses, KernelLosses DEF Next
  <2> QED
    BY <2>1, <2>2
<1>3. Losses => LostExactly
  BY DEF Losses
<1> QED
  BY <1>1, <1>2, <1>3, Inductive, PTL DEF Spec

============================================================================
