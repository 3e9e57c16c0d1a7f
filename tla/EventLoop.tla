----------------------------- MODULE EventLoop -----------------------------
(***************************************************************************)
(* cppevent_base: event_loop, event_bus, io_service, io_listener and       *)
(* async_signal, with the event_callback objects they own and the          *)
(* coroutines that await on them.                                          *)
(*                                                                         *)
(* Everything runs on one thread.  The thread is either in a coroutine     *)
(* (the head of stack; the coroutines below it started the ones above) or, *)
(* when stack is empty, in event_loop::run().  A "coroutine" here is a     *)
(* whole chain of tasks that co_await each other: such a chain suspends    *)
(* and resumes as one.  The coroutine of the initial state is the code     *)
(* that runs before run() is called.                                       *)
(*                                                                         *)
(* The kernel's half of the io_uring is external: the submission queue sq, *)
(* the operations inflight and the completion queue cq.                    *)
(*                                                                         *)
(* A status is abstracted to the operation it reports on, so that a        *)
(* property can tell whose result a coroutine received.                    *)
(***************************************************************************)
EXTENDS EventCallback, Naturals, Sequences, FiniteSets

CONSTANTS
    Listeners,      \* storage for io_listener objects
    Signals,        \* storage for async_signal objects
    NoCallback,     \* a null event_callback*
    OpIds,          \* names of operations outstanding at one time (a bound)
    MaxConstructs,  \* bound on the callbacks ever constructed
    SQ_ENTRIES,     \* the ring's size: 1024 in the code
    KernelFaults    \* may io_uring_submit and io_uring_wait_cqe fail?

Callbacks == Listeners \cup Signals

ASSUME EventLoopAssumption ==
    /\ Listeners \cap Signals = {}
    /\ NoCallback \notin Callbacks
    /\ MaxConstructs \in Nat
    /\ SQ_ENTRIES \in Nat \ {0}
    /\ KernelFaults \in BOOLEAN
    /\ NoStatus \notin [inc : 1..MaxConstructs, n : OpIds]

VARIABLES
    m_running,      \* event_loop::m_running
    m_events,       \* event_loop::m_events
    m_id_counter,   \* event_bus::m_id_counter
    m_callbacks,    \* event_bus::m_callbacks: id -> callback
    m_id,           \* event_callback::m_id; 0 where no object is constructed
    cb,             \* the status and handle of each event_callback
    sq, inflight, cq,   \* the ring
    poll,           \* where run() is: "run", or "wait" inside io_service::poll
    crash,          \* "none", or what took the process down
    stack,          \* the coroutines on the thread's stack, running one first
    waits,          \* the callback a suspended coroutine awaits
    unstarted,      \* coroutines not created yet
    \* History: what the properties speak of.  No branch depends on it.
    inc,            \* inc[c]: which construction the object at c is
    births,         \* number of constructions so far
    triggers,       \* every signal_trigger ever handed out
    issued,         \* issued[d]: the operation d queued before it suspended
    abandoned,      \* constructions whose awaiter was destroyed while waiting
    doubled         \* constructions awaited while a coroutine already waited

loopVars == <<m_running, m_events, poll, crash>>
busVars == <<m_id_counter, m_callbacks, m_id, cb>>
ringVars == <<sq, inflight, cq>>
coroVars == <<stack, waits, unstarted>>
history == <<inc, births, triggers, issued, abandoned, doubled>>
vars == <<loopVars, busVars, ringVars, coroVars, history>>

----------------------------------------------------------------------------
(* Types *)

\* An e_status: the operation it is the result of, and on whose behalf that
\* operation was made.
Op == [inc : 1..MaxConstructs, n : OpIds]

\* An e_event; sqe and cqe carry the same two fields, user_data and res.
Event == [m_id : 1..MaxConstructs, m_status : Op]

Callback == [m_status_opt : Op \cup {NoStatus},
             m_suspended : Coroutines \cup {Noop}]

TypeOK ==
    /\ m_running \in BOOLEAN
    /\ m_events \in Seq(Event)
    /\ m_id_counter \in 0..MaxConstructs
    /\ m_callbacks \in [1..MaxConstructs -> Callbacks \cup {NoCallback}]
    /\ m_id \in [Callbacks -> 0..MaxConstructs]
    /\ cb \in [Callbacks -> Callback]
    /\ sq \in Seq(Event)
    /\ inflight \subseteq Event
    /\ cq \in Seq(Event)
    /\ poll \in {"run", "wait"}
    /\ crash \in {"none", "null_sqe", "wait_cqe"}
    /\ stack \in Seq(Coroutines)
    /\ waits \in [Coroutines -> Callbacks \cup {NoCallback}]
    /\ unstarted \subseteq Coroutines
    /\ inc \in [Callbacks -> 0..MaxConstructs]
    /\ births \in 0..MaxConstructs
    /\ triggers \subseteq [m_id : 1..MaxConstructs, inc : 1..MaxConstructs]
    /\ issued \in [Coroutines -> Op \cup {NoStatus}]
    /\ abandoned \subseteq 1..MaxConstructs
    /\ doubled \subseteq 1..MaxConstructs

Elems(s) == {s[i] : i \in 1..Len(s)}

\* The results on their way to a callback, wherever they are.
OnTheWay == Elems(sq) \cup inflight \cup Elems(cq) \cup Elems(m_events)

Stored == {cb[c].m_status_opt : c \in Callbacks} \ {NoStatus}

\* Operation names that denote nothing at present.
FreeOpIds ==
    OpIds \ {o.n : o \in {e.m_status : e \in OnTheWay} \cup Stored
                          \cup ({issued[d] : d \in Coroutines} \ {NoStatus})}

\* d has control of the thread.
Running(d) == crash = "none" /\ stack # <<>> /\ Head(stack) = d

\* event_loop::run has control and is not inside io_service::poll.
InRun == crash = "none" /\ stack = <<>> /\ m_running /\ poll = "run"

Init ==
    /\ m_running = TRUE
    /\ m_events = <<>>
    /\ m_id_counter = 0
    /\ m_callbacks = [i \in 1..MaxConstructs |-> NoCallback]
    /\ m_id = [c \in Callbacks |-> 0]
    /\ cb = [c \in Callbacks |-> Fresh]
    /\ sq = <<>> /\ inflight = {} /\ cq = <<>>
    /\ poll = "run"
    /\ crash = "none"
    /\ \E d \in Coroutines : stack = <<d>> /\ unstarted = Coroutines \ {d}
    /\ waits = [d \in Coroutines |-> NoCallback]
    /\ inc = [c \in Callbacks |-> 0]
    /\ births = 0
    /\ triggers = {}
    /\ issued = [d \in Coroutines |-> NoStatus]
    /\ abandoned = {} /\ doubled = {}

----------------------------------------------------------------------------
(* event_bus and the lifetime of an event_callback *)

\* Mutant: an id is reused once its callback is gone.
register_size(c) ==
    LET id == Cardinality({k \in Callbacks : m_id[k] # 0}) + 1
    IN  /\ m_id_counter' = id
        /\ m_callbacks' = [m_callbacks EXCEPT ![id] = c]
        /\ m_id' = [m_id EXCEPT ![c] = id]

register_event_callback(c) ==
    /\ m_id_counter' = m_id_counter + 1
    /\ m_callbacks' = [m_callbacks EXCEPT ![m_id_counter + 1] = c]
    /\ m_id' = [m_id EXCEPT ![c] = m_id_counter + 1]

\* Mutant: the map keeps a pointer to the destroyed object.
deregister_nothing(c) == UNCHANGED m_callbacks

deregister_event_callback(c) ==
    m_callbacks' = [m_callbacks EXCEPT ![m_id[c]] = NoCallback]

\* get_io_listener and get_event_callback: an object is constructed at c and
\* registered.  A signal's trigger may be copied away and outlive it.
Construct(d, c) ==
    /\ Running(d)
    /\ m_id[c] = 0
    /\ births < MaxConstructs
    /\ register_event_callback(c)
    /\ cb' = [cb EXCEPT ![c] = Fresh]
    /\ births' = births + 1
    /\ inc' = [inc EXCEPT ![c] = births + 1]
    /\ triggers' = IF c \in Signals
                   THEN triggers \cup {[m_id |-> m_id'[c], inc |-> births + 1]}
                   ELSE triggers
    /\ UNCHANGED <<loopVars, ringVars, coroVars, issued, abandoned, doubled>>

\* ~event_callback.  The owner of a callback outlives every awaiter on it;
\* it need not outlive the operations queued through it.
Destruct(d, c) ==
    /\ Running(d)
    /\ m_id[c] # 0
    /\ \A e \in Coroutines : waits[e] # c
    /\ deregister_event_callback(c)
    /\ m_id' = [m_id EXCEPT ![c] = 0]
    /\ cb' = [cb EXCEPT ![c] = Fresh]
    /\ UNCHANGED <<loopVars, m_id_counter, ringVars, coroVars, history>>

----------------------------------------------------------------------------
(* co_await on a status_awaiter *)

\* await_ready found a status: await_resume takes it, d goes on.
AwaitReady(d, c) ==
    /\ has_status(cb[c])
    /\ cb' = [cb EXCEPT ![c] = reset(cb[c])]
    /\ UNCHANGED <<stack, waits, doubled>>

\* await_suspend: d leaves the stack and whoever resumed or started it goes on.
AwaitSuspend(d, c) ==
    /\ ~has_status(cb[c])
    /\ ~has_handle(cb[c])
    /\ cb' = [cb EXCEPT ![c] = set_handle(cb[c], d)]
    /\ waits' = [waits EXCEPT ![d] = c]
    /\ stack' = Tail(stack)
    /\ UNCHANGED doubled

\* set_handle throws into d; unwinding destroys the awaiter, whose
\* destructor resets the callback, the other coroutine's handle included.
AwaitThrow(d, c) ==
    /\ ~has_status(cb[c])
    /\ has_handle(cb[c])
    /\ cb' = [cb EXCEPT ![c] = reset(cb[c])]
    /\ doubled' = doubled \cup {inc[c]}
    /\ UNCHANGED <<stack, waits>>

\* Mutant: await_ready always answers false.
Await_never_ready(d, c) ==
    /\ cb' = [cb EXCEPT ![c] = set_handle(cb[c], d)]
    /\ waits' = [waits EXCEPT ![d] = c]
    /\ stack' = Tail(stack)
    /\ UNCHANGED doubled

\* Mutant: the coroutine suspends without storing its handle.
Await_no_handle(d, c) ==
    \/ AwaitReady(d, c)
    \/ /\ ~has_status(cb[c])
       /\ cb' = cb
       /\ waits' = [waits EXCEPT ![d] = c]
       /\ stack' = Tail(stack)
       /\ UNCHANGED doubled

Await(d, c) == AwaitReady(d, c) \/ AwaitSuspend(d, c) \/ AwaitThrow(d, c)

\* async_signal::await_signal, and event_callback::await_status directly.
AwaitSignal(d, c) ==
    /\ Running(d)
    /\ c \in Signals
    /\ m_id[c] # 0
    /\ Await(d, c)
    /\ UNCHANGED <<loopVars, m_id_counter, m_callbacks, m_id, ringVars,
                   unstarted, inc, births, triggers, issued, abandoned>>

\* Mutant: user_data is left as the ring's memory has it.
QueueSqe_no_data(c, op) == sq' = Append(sq, [m_id |-> 0, m_status |-> op])

\* io_listener::get_sqe and one of the prep functions.
QueueSqe(c, op) == sq' = Append(sq, [m_id |-> m_id[c], m_status |-> op])

\* The on_* operations of io_listener, and the co_await their callers make
\* of the result at once.
OnIo(d, c) ==
    /\ Running(d)
    /\ c \in Listeners
    /\ m_id[c] # 0
    /\ Len(sq) < SQ_ENTRIES
    /\ Await(d, c)
    /\ \E n \in FreeOpIds :
         /\ QueueSqe(c, [inc |-> inc[c], n |-> n])
         /\ issued' = IF waits'[d] = c
                      THEN [issued EXCEPT ![d] = [inc |-> inc[c], n |-> n]]
                      ELSE issued
    /\ UNCHANGED <<loopVars, m_id_counter, m_callbacks, m_id, inflight, cq,
                   unstarted, inc, births, triggers, abandoned>>

\* io_uring_get_sqe answers NULL when the queue is full, and get_sqe writes
\* through it.
OnIoNullSqe(d, c) ==
    /\ Running(d)
    /\ c \in Listeners
    /\ m_id[c] # 0
    /\ Len(sq) = SQ_ENTRIES
    /\ crash' = "null_sqe"
    /\ UNCHANGED <<m_running, m_events, poll, busVars, ringVars, coroVars,
                   history>>

----------------------------------------------------------------------------
(* The other steps of a running coroutine *)

\* Mutant: m_events is a stack.
add_event_front(ev) == m_events' = <<ev>> \o m_events

add_event(ev) == m_events' = Append(m_events, ev)

\* signal_trigger::activate, through a trigger that may outlive its signal.
Activate(d, t) ==
    /\ Running(d)
    /\ \E n \in FreeOpIds :
         add_event([m_id |-> t.m_id, m_status |-> [inc |-> t.inc, n |-> n]])
    /\ UNCHANGED <<m_running, poll, crash, busVars, ringVars, coroVars, history>>

\* Calling a coroutine function: it runs at once, on top of its caller.
Start(d, e) ==
    /\ Running(d)
    /\ e \in unstarted
    /\ unstarted' = unstarted \ {e}
    /\ stack' = <<e>> \o stack
    /\ UNCHANGED <<loopVars, busVars, ringVars, waits, history>>

\* d reaches its end, by co_return or by an exception.
Finish(d) ==
    /\ Running(d)
    /\ stack' = Tail(stack)
    /\ UNCHANGED <<loopVars, busVars, ringVars, waits, unstarted, history>>

\* Mutant: the awaiter's destructor leaves the callback as it is.
Unawait_nothing(e) == cb

\* ~status_awaiter, on behalf of a coroutine that will not be resumed.
Unawait(e) == [cb EXCEPT ![waits[e]] = reset(cb[waits[e]])]

\* d destroys the task of the suspended coroutine e (~task).  What e queued
\* in the ring is not cancelled.
Cancel(d, e) ==
    /\ Running(d)
    /\ waits[e] # NoCallback
    /\ cb' = Unawait(e)
    /\ waits' = [waits EXCEPT ![e] = NoCallback]
    /\ issued' = [issued EXCEPT ![e] = NoStatus]
    /\ abandoned' = abandoned \cup {inc[waits[e]]}
    /\ UNCHANGED <<loopVars, m_id_counter, m_callbacks, m_id, ringVars, stack,
                   unstarted, inc, births, triggers, doubled>>

\* event_loop::stop.
Stop(d) ==
    /\ Running(d)
    /\ m_running' = FALSE
    /\ UNCHANGED <<m_events, poll, crash, busVars, ringVars, coroVars, history>>

CoroutineStep(d) ==
    \/ \E c \in Callbacks : \/ Construct(d, c)
                            \/ Destruct(d, c)
                            \/ AwaitSignal(d, c)
                            \/ OnIo(d, c)
                            \/ OnIoNullSqe(d, c)
    \/ \E t \in triggers : Activate(d, t)
    \/ \E e \in Coroutines : Start(d, e) \/ Cancel(d, e)
    \/ Finish(d)
    \/ Stop(d)

----------------------------------------------------------------------------
(* event_loop::run and io_service::poll *)

\* event_bus::notify finds no callback with the event's id.
NotifyUnknown(ev) ==
    /\ m_callbacks[ev.m_id] = NoCallback
    /\ UNCHANGED <<cb, stack, waits, issued>>

\* event_callback::notify with no coroutine suspended: the noop handle.
NotifyStored(ev, c) ==
    /\ ~has_handle(cb[c])
    /\ cb' = [cb EXCEPT ![c] = notify(cb[c], ev.m_status)]
    /\ UNCHANGED <<stack, waits, issued>>

\* event_callback::notify resumes the coroutine, which begins in await_resume.
NotifyResumes(ev, c) ==
    LET d == cb[c].m_suspended
    IN  /\ has_handle(cb[c])
        /\ cb' = [cb EXCEPT ![c] = resume(cb[c], ev.m_status)]
        /\ stack' = <<d>>
        /\ waits' = [waits EXCEPT ![d] = NoCallback]
        /\ issued' = [issued EXCEPT ![d] = NoStatus]

Notify(ev) ==
    \/ NotifyUnknown(ev)
    \/ /\ m_callbacks[ev.m_id] # NoCallback
       /\ \/ NotifyStored(ev, m_callbacks[ev.m_id])
          \/ NotifyResumes(ev, m_callbacks[ev.m_id])

Dispatch ==
    /\ InRun
    /\ m_events # <<>>
    /\ m_events' = Tail(m_events)
    /\ Notify(Head(m_events))
    /\ UNCHANGED <<m_running, poll, crash, m_id_counter, m_callbacks, m_id,
                   ringVars, unstarted, inc, births, triggers, abandoned,
                   doubled>>

\* Mutant: what was submitted stays in the queue.
Submit_keep == inflight' = inflight \cup Elems(sq) /\ UNCHANGED sq

\* io_uring_submit: the kernel takes a prefix of the queue, all of it unless
\* something is wrong; its answer is not looked at.
Submit ==
    \E k \in 0..Len(sq) :
        /\ ~KernelFaults => k = Len(sq)
        /\ inflight' = inflight \cup {sq[i] : i \in 1..k}
        /\ sq' = SubSeq(sq, k + 1, Len(sq))

\* The first half of io_service::poll.
PollSubmit ==
    /\ InRun
    /\ m_events = <<>>
    /\ Submit
    /\ poll' = "wait"
    /\ UNCHANGED <<m_running, m_events, crash, busVars, cq, coroVars, history>>

\* Mutant: the entry is read but not given back to the kernel.
cqe_unseen == UNCHANGED cq

\* Mutant: every completion present is given back, one is returned.
cqe_advance_all == cq' = <<>>

io_uring_cqe_seen == cq' = Tail(cq)

\* The second half: a completion is there, poll returns it as an event and
\* run() queues it.
PollReap ==
    /\ crash = "none"
    /\ poll = "wait"
    /\ cq # <<>>
    /\ add_event(Head(cq))
    /\ io_uring_cqe_seen
    /\ poll' = "run"
    /\ UNCHANGED <<m_running, crash, busVars, sq, inflight, coroVars, history>>

\* io_uring_wait_cqe fails with something else than EINTR: the exception
\* leaves run().
PollThrow ==
    /\ KernelFaults
    /\ crash = "none"
    /\ poll = "wait"
    /\ crash' = "wait_cqe"
    /\ UNCHANGED <<m_running, m_events, poll, busVars, ringVars, coroVars,
                   history>>

\* The kernel finishes an operation, in any order.
Complete(e) ==
    /\ crash = "none"
    /\ e \in inflight
    /\ inflight' = inflight \ {e}
    /\ cq' = Append(cq, e)
    /\ UNCHANGED <<loopVars, busVars, sq, coroVars, history>>

LoopStep == Dispatch \/ PollSubmit \/ PollReap \/ PollThrow

Next ==
    \/ \E d \in Coroutines : CoroutineStep(d)
    \/ LoopStep
    \/ \E e \in inflight : Complete(e)

Spec == Init /\ [][Next]_vars

\* The thread never rests while it can go on, and the kernel finishes what
\* was submitted to it.
Fairness ==
    /\ WF_vars(\E d \in Coroutines : CoroutineStep(d))
    /\ WF_vars(Dispatch \/ PollSubmit \/ PollReap)
    /\ \A e \in Event : WF_vars(Complete(e))

LiveSpec == Spec /\ Fairness

----------------------------------------------------------------------------
(* Safety *)

\* The bus knows a callback exactly while it is constructed: notify never
\* follows a pointer to a destroyed object, and no live object is missed.
BusConsistent ==
    /\ \A c \in Callbacks : m_id[c] # 0 => m_callbacks[m_id[c]] = c
    /\ \A i \in 1..MaxConstructs :
          m_callbacks[i] # NoCallback => m_id[m_callbacks[i]] = i

\* A result made on behalf of one object never reaches another that was
\* constructed later, in the same storage or under the same id: an event
\* for a dead object is dropped by event_bus::notify.
NoMisdelivery ==
    /\ \A e \in OnTheWay :
          m_callbacks[e.m_id] # NoCallback =>
              inc[m_callbacks[e.m_id]] = e.m_status.inc
    /\ \A c \in Callbacks :
          has_status(cb[c]) => cb[c].m_status_opt.inc = inc[c]

\* No coroutine sleeps on a callback that already has its status: whatever
\* the order of event and co_await, the status is not waited for again.
NoSleepOnStatus == \A c \in Callbacks : ~(has_status(cb[c]) /\ has_handle(cb[c]))

\* Every suspended coroutine is stored in the callback it awaits, so an
\* event for it resumes it, unless that callback was awaited twice at once.
WaiterKnown ==
    \A d \in Coroutines :
        waits[d] # NoCallback /\ inc[waits[d]] \notin doubled =>
            cb[waits[d]].m_suspended = d

\* A handle that notify would resume is that of a coroutine which exists
\* and is suspended on this callback: ~status_awaiter has taken out the
\* handle of every coroutine that was destroyed while it waited.
HandleLive ==
    \A c \in Callbacks :
        has_handle(cb[c]) => waits[cb[c].m_suspended] = c

\* What event_callback::set_handle's "handle already set" is there for: a
\* second awaiter is refused and the coroutine that waits first keeps its
\* place.  The code does not keep this: see the README.
NoForgottenWaiter ==
    \A d \in Coroutines :
        waits[d] # NoCallback => cb[waits[d]].m_suspended = d

\* The completion a suspended coroutine waits for is still to come, under
\* the id of the listener it waits on: run() cannot block for ever in
\* io_uring_wait_cqe, or end a round, having lost it.
NoLostCompletion ==
    \A d \in Coroutines :
        waits[d] \in Listeners /\ inc[waits[d]] \notin doubled =>
            [m_id |-> m_id[waits[d]], m_status |-> issued[d]] \in OnTheWay

\* Through a listener whose waits were all carried to their end, a coroutine
\* can only receive the result of the operation it asked for: nothing else
\* is on its way to that listener or stored in it.
OwnCompletion ==
    \A c \in Listeners :
        m_id[c] # 0 /\ inc[c] \notin abandoned \cup doubled =>
            {o \in {e.m_status : e \in OnTheWay} \cup Stored : o.inc = inc[c]}
                = {issued[d] : d \in {e \in Coroutines : waits[e] = c}}

\* No operation is reported twice: each is in one place of the submission
\* queue, the kernel, the completion queue, m_events and the callbacks.
NoDuplicate ==
    Len(sq) + Cardinality(inflight) + Len(cq) + Len(m_events)
            + Cardinality({c \in Callbacks : has_status(cb[c])})
        = Cardinality({e.m_status : e \in OnTheWay} \cup Stored)

\* The null sqe needs at least as many coroutines suspended in I/O as the ring
\* has entries, in a program that abandons no operation and awaits no callback
\* twice: what is left in the queue without a waiter makes it overflow sooner.
OverflowNeedsLoad ==
    crash = "null_sqe" /\ abandoned = {} /\ doubled = {} =>
        Cardinality({d \in Coroutines : waits[d] \in Listeners}) >= SQ_ENTRIES

(* Liveness, of LiveSpec *)

Over == crash # "none" \/ ~m_running

\* A coroutine suspended in I/O is resumed (or destroyed), provided run()
\* finds m_events empty again and again: it polls the ring only then, and
\* coroutines that keep activating signals keep it from polling.
IoServed ==
    []<>(stack = <<>> /\ m_events = <<>>) =>
        \A d \in Coroutines :
            waits[d] \in Listeners ~> \/ waits[d] \notin Listeners
                                     \/ inc[waits[d]] \in doubled
                                     \/ Over

\* A coroutine that awaits a signal which has been activated is resumed,
\* however long the queue of events and whatever the ring does.
SignalServed ==
    \A d \in Coroutines : \A c \in Signals :
        (waits[d] = c /\ \E e \in Elems(m_events) : e.m_id = m_id[c])
            ~> \/ waits[d] # c
               \/ inc[c] \in doubled
               \/ Over

============================================================================
