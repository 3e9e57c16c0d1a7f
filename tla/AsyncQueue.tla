----------------------------- MODULE AsyncQueue -----------------------------
(***************************************************************************)
(* cppevent_base: async_queue, a queue between coroutines of one loop.     *)
(*                                                                         *)
(* One coroutine consumes (await_items, front, pop); any code on the       *)
(* thread pushes.  The queue owns one event_callback.  Of the loop's       *)
(* m_events only the events for that callback are kept, as their number:   *)
(* they are all alike, and they are delivered in order.                    *)
(*                                                                         *)
(* A second consumer at the same time is the double await of EventLoop.    *)
(***************************************************************************)
EXTENDS EventCallback, Naturals, Sequences

CONSTANTS
    Items,
    Consumer,   \* the coroutine that calls await_items
    Capacity,   \* bound on the items in the queue
    MaxEvents   \* bound on the undelivered events

ASSUME AsyncQueueAssumption ==
    /\ Consumer \in Coroutines
    /\ NoStatus # 0
    /\ Capacity \in Nat
    /\ MaxEvents \in Nat

VARIABLES
    m_items,
    m_callback,
    events,     \* events for m_callback in event_loop::m_events
    consumer    \* "running", "away" (suspended elsewhere), or "waiting" here

vars == <<m_items, m_callback, events, consumer>>

TypeOK ==
    /\ m_items \in Seq(Items)
    /\ m_callback \in [m_status_opt : {0, NoStatus},
                       m_suspended : {Consumer, Noop}]
    /\ events \in 0..MaxEvents
    /\ consumer \in {"running", "away", "waiting"}

Init ==
    /\ m_items = <<>>
    /\ m_callback = Fresh
    /\ events = 0
    /\ consumer = "running"

----------------------------------------------------------------------------

\* Mutant: the event is sent for the item that comes second.
Signals_late(was) == IF Len(was) = 1 THEN events + 1 ELSE events

\* The part of push before the item goes in.
Signals(was) == IF was = <<>> THEN events + 1 ELSE events

\* async_queue::push.
push(item) ==
    /\ Len(m_items) < Capacity
    /\ events < MaxEvents
    /\ events' = Signals(m_items)
    /\ m_items' = Append(m_items, item)
    /\ UNCHANGED <<m_callback, consumer>>

\* Mutant: "if" in place of "while": any status ends the wait.
AwaitLoop_once(callback) ==
    IF m_items # <<>> \/ has_status(callback) \/ consumer = "waiting"
    THEN consumer' = "running" /\ m_callback' = reset(callback)
    ELSE consumer' = "waiting" /\ m_callback' = set_handle(callback, Consumer)

\* The loop of await_items, entered with the callback in the given state:
\* it ends when there is an item; a status that is already there is taken
\* and the queue looked at again; then the coroutine suspends.
AwaitLoop(callback) ==
    IF m_items # <<>>
    THEN consumer' = "running" /\ m_callback' = callback
    ELSE consumer' = "waiting" /\ m_callback' = set_handle(reset(callback), Consumer)

await_items ==
    /\ consumer = "running"
    /\ AwaitLoop(m_callback)
    /\ UNCHANGED <<m_items, events>>

\* async_queue::front and pop.
pop ==
    /\ consumer = "running"
    /\ m_items # <<>>
    /\ m_items' = Tail(m_items)
    /\ UNCHANGED <<m_callback, events, consumer>>

\* The consumer suspends on something else, and is resumed.
Leave ==
    /\ consumer = "running"
    /\ consumer' = "away"
    /\ UNCHANGED <<m_items, m_callback, events>>

Return ==
    /\ consumer = "away"
    /\ consumer' = "running"
    /\ UNCHANGED <<m_items, m_callback, events>>

\* run() dispatches an event of the queue: a waiting consumer goes round the
\* loop of await_items, otherwise the status is kept.
Deliver ==
    /\ consumer # "running"
    /\ events > 0
    /\ events' = events - 1
    /\ IF has_handle(m_callback)
       THEN AwaitLoop(resume(m_callback, 0))
       ELSE m_callback' = notify(m_callback, 0) /\ UNCHANGED consumer
    /\ UNCHANGED m_items

\* The task of a waiting consumer is destroyed; its caller goes on elsewhere.
Cancel ==
    /\ consumer = "waiting"
    /\ m_callback' = reset(m_callback)
    /\ consumer' = "away"
    /\ UNCHANGED <<m_items, events>>

Next ==
    \/ \E item \in Items : push(item)
    \/ await_items
    \/ pop
    \/ Leave
    \/ Return
    \/ Deliver
    \/ Cancel

\* run() goes on dispatching while it has events.
Spec == Init /\ [][Next]_vars /\ WF_vars(Deliver)

----------------------------------------------------------------------------

\* push sends an event only when it finds the queue empty, and events are
\* consumed by awaits that find nothing: still a consumer never waits beside
\* an item with no event under way that will wake it.
NoLostWakeup ==
    consumer = "waiting" /\ m_items # <<>> =>
        events > 0 /\ m_callback.m_suspended = Consumer /\ ~has_status(m_callback)

\* What the consumer is to a user of the queue.
ReaderOf == [running |-> "on", away |-> "off", waiting |-> "blocked"]

Promise == INSTANCE Channel WITH queue <- m_items, reader <- ReaderOf[consumer]

\* The queue is a channel: stale statuses and spurious wakeups do not show,
\* await_items returns only with an item there, and a consumer that waits
\* beside an item is resumed.
IsChannel == Promise!Spec

============================================================================
