-------------------------- MODULE AsyncQueueProofs --------------------------
(***************************************************************************)
(* Theorems about AsyncQueue: no wakeup is lost, and every step of the     *)
(* queue is a step of the Channel or changes nothing a user sees.          *)
(***************************************************************************)
EXTENDS AsyncQueue, TLAPS

\* The handle is stored exactly while the consumer waits, and then there is
\* no status beside it.
HandleWhileWaiting ==
    /\ consumer = "waiting" <=> m_callback.m_suspended = Consumer
    /\ consumer = "waiting" => m_callback.m_status_opt = NoStatus

\* An item beside a waiting consumer has its event under way.
EventUnderWay == consumer = "waiting" /\ m_items # <<>> => events > 0

IndInv == TypeOK /\ HandleWhileWaiting /\ EventUnderWay

\* The consumer's handle is a real one.
LEMMA ConsumerIsNotNoop == Consumer # Noop
  BY NoopAssumption, AsyncQueueAssumption

\* A new async_queue satisfies the invariant.
LEMMA InitInd == Init => IndInv
  BY ConsumerIsNotNoop, AsyncQueueAssumption
  DEF Init, IndInv, TypeOK, HandleWhileWaiting, EventUnderWay, Fresh

\* Going round the loop of await_items, from a callback without a handle.
LEMMA AwaitLoopStep ==
    ASSUME NEW k \in [m_status_opt : {0, NoStatus}, m_suspended : {Noop}],
           AwaitLoop(k)
    PROVE  /\ m_callback' \in [m_status_opt : {0, NoStatus},
                               m_suspended : {Consumer, Noop}]
           /\ m_items # <<>> => consumer' = "running"
           /\ m_items = <<>> => consumer' = "waiting"
           /\ consumer' = "waiting" <=> m_callback'.m_suspended = Consumer
           /\ consumer' = "waiting" => m_callback'.m_status_opt = NoStatus
  <1>1. CASE m_items # <<>>
    BY <1>1, ConsumerIsNotNoop DEF AwaitLoop
  <1>2. CASE m_items = <<>>
    BY <1>2 DEF AwaitLoop, set_handle, reset
  <1> QED
    BY <1>1, <1>2

\* push, await_items, pop and the delivery of an event keep the invariant.
LEMMA StepInd == IndInv /\ [Next]_vars => IndInv'
  <1> SUFFICES ASSUME IndInv, [Next]_vars
               PROVE  IndInv'
    OBVIOUS
  <1> USE ConsumerIsNotNoop, AsyncQueueAssumption
  <1>1. ASSUME NEW item \in Items, push(item)
        PROVE  IndInv'
    BY <1>1 DEF push, Signals, IndInv, TypeOK, HandleWhileWaiting, EventUnderWay
  <1>2. CASE await_items
    <2>1. m_callback \in [m_status_opt : {0, NoStatus}, m_suspended : {Noop}]
      BY <1>2 DEF await_items, IndInv, TypeOK, HandleWhileWaiting
    <2>2. AwaitLoop(m_callback) /\ m_items' = m_items /\ events' = events
      BY <1>2 DEF await_items
    <2> QED
      BY <2>1, <2>2, AwaitLoopStep
      DEF IndInv, TypeOK, HandleWhileWaiting, EventUnderWay
  <1>3. CASE pop
    BY <1>3 DEF pop, IndInv, TypeOK, HandleWhileWaiting, EventUnderWay
  <1>4. CASE Leave \/ Return
    BY <1>4 DEF Leave, Return, IndInv, TypeOK, HandleWhileWaiting, EventUnderWay
  <1>5. CASE Deliver
    <2>1. /\ m_items' = m_items /\ events' = events - 1 /\ events > 0
      BY <1>5 DEF Deliver
    <2>2. CASE has_handle(m_callback)
      <3>1. AwaitLoop(resume(m_callback, 0))
        BY <1>5, <2>2 DEF Deliver
      <3>2. resume(m_callback, 0) \in
              [m_status_opt : {0, NoStatus}, m_suspended : {Noop}]
        BY DEF resume, reset
      <3> QED
        BY <2>1, <3>1, <3>2, AwaitLoopStep
        DEF IndInv, TypeOK, HandleWhileWaiting, EventUnderWay
    <2>3. CASE ~has_handle(m_callback)
      BY <1>5, <2>1, <2>3 DEF Deliver, notify, has_handle, IndInv, TypeOK,
          HandleWhileWaiting, EventUnderWay
    <2> QED
      BY <2>2, <2>3
  <1>6. CASE Cancel
    BY <1>6 DEF Cancel, reset, IndInv, TypeOK, HandleWhileWaiting, EventUnderWay
  <1>7. CASE UNCHANGED vars
    BY <1>7 DEF vars, IndInv, TypeOK, HandleWhileWaiting, EventUnderWay
  <1> QED
    BY <1>1, <1>2, <1>3, <1>4, <1>5, <1>6, <1>7 DEF Next

\* The invariant holds throughout.
LEMMA Inductive == Spec => []IndInv
  BY InitInd, StepInd, PTL DEF Spec

\* async_queue::push sends an event only into an empty queue, and still a
\* consumer in await_items never waits beside an item without one coming.
THEOREM NeverLosesWakeup == Spec => []NoLostWakeup
  <1>1. IndInv => NoLostWakeup
    BY DEF IndInv, HandleWhileWaiting, EventUnderWay, NoLostWakeup, has_status
  <1> QED
    BY <1>1, Inductive, PTL

\* Every step of async_queue is one of the Channel, or a stutter: spurious
\* wakeups and stale statuses stay inside await_items.
THEOREM QueueIsChannel == Spec => Promise!Init /\ [][Promise!Next]_(Promise!vars)
  <1>1. Init => Promise!Init
    BY DEF Init, Promise!Init, ReaderOf
  <1>2. IndInv /\ [Next]_vars => [Promise!Next]_(Promise!vars)
    <2> SUFFICES ASSUME IndInv, [Next]_vars
                 PROVE  Promise!Next \/ UNCHANGED Promise!vars
      OBVIOUS
    <2> USE ConsumerIsNotNoop, AsyncQueueAssumption DEF Promise!Next, Promise!vars
    <2>1. ASSUME NEW item \in Items, push(item)
          PROVE  Promise!Send(item)
      BY <2>1 DEF push, Promise!Send
    <2>2. CASE await_items
      <3>1. m_callback \in [m_status_opt : {0, NoStatus}, m_suspended : {Noop}]
        BY <2>2 DEF await_items, IndInv, TypeOK, HandleWhileWaiting
      <3>2. /\ m_items' = m_items /\ consumer = "running"
            /\ m_items # <<>> => consumer' = "running"
            /\ m_items = <<>> => consumer' = "waiting"
        BY <2>2, <3>1, AwaitLoopStep DEF await_items
      <3> QED
        BY <3>2 DEF Promise!Block, ReaderOf
    <2>3. CASE pop
      BY <2>3 DEF pop, Promise!Receive, ReaderOf
    <2>4. CASE Leave
      BY <2>4 DEF Leave, Promise!TurnAway, ReaderOf
    <2>5. CASE Return
      BY <2>5 DEF Return, Promise!ComeBack, ReaderOf
    <2>6. CASE Deliver
      <3>1. CASE has_handle(m_callback)
        <4>1. AwaitLoop(resume(m_callback, 0)) /\ m_items' = m_items
          BY <2>6, <3>1 DEF Deliver
        <4>2. resume(m_callback, 0) \in
                [m_status_opt : {0, NoStatus}, m_suspended : {Noop}]
          BY DEF resume, reset
        <4>3. consumer = "waiting"
          BY <3>1 DEF has_handle, IndInv, TypeOK, HandleWhileWaiting
        <4>4. /\ m_items # <<>> => consumer' = "running"
              /\ m_items = <<>> => consumer' = "waiting"
          BY <4>1, <4>2, AwaitLoopStep
        <4> QED
          BY <4>1, <4>3, <4>4 DEF Promise!Unblock, ReaderOf
      <3>2. CASE ~has_handle(m_callback)
        BY <2>6, <3>2 DEF Deliver
      <3> QED
        BY <3>1, <3>2
    <2>7. CASE Cancel
      BY <2>7 DEF Cancel, Promise!TurnAway, ReaderOf
    <2>8. CASE UNCHANGED vars
      BY <2>8 DEF vars
    <2> QED
      BY <2>1, <2>2, <2>3, <2>4, <2>5, <2>6, <2>7, <2>8 DEF Next
  <1> QED
    BY <1>1, <1>2, Inductive, PTL DEF Spec

============================================================================
