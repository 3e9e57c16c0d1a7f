-------------------------- MODULE EventLoopProofs --------------------------
(***************************************************************************)
(* Theorems about EventLoop, for any sets of coroutines and callbacks, any *)
(* ring size, and any bounds.                                              *)
(***************************************************************************)
EXTENDS EventLoop, TLAPS

----------------------------------------------------------------------------
(* The inductive invariant, in parts *)

\* Ids are given out in order, so a construction is known by its id.
Identity ==
    /\ births = m_id_counter
    /\ \A c \in Callbacks : m_id[c] # 0 => inc[c] = m_id[c]
    /\ \A c \in Callbacks : m_id[c] <= m_id_counter

\* A coroutine awaits a callback that is constructed.
WaitsLive ==
    \A d \in Coroutines : waits[d] # NoCallback => m_id[waits[d]] # 0

\* A coroutine on the stack is there once and awaits nothing; one that was
\* not started is not on the stack and awaits nothing.
StackAwake ==
    /\ \A i \in 1..Len(stack) : waits[stack[i]] = NoCallback
    /\ \A i \in 1..Len(stack) : stack[i] \notin unstarted
    /\ \A i, j \in 1..Len(stack) : stack[i] = stack[j] => i = j
    /\ \A d \in unstarted : waits[d] = NoCallback

\* Storage without an object holds no status and no handle.
EmptyStorage == \A c \in Callbacks : m_id[c] = 0 => cb[c] = Fresh

\* Results, triggers and stored statuses carry the id of the construction
\* they were made for.
TrueIds ==
    /\ \A e \in OnTheWay : e.m_id = e.m_status.inc
    /\ \A t \in triggers : t.m_id = t.inc
    /\ \A c \in Callbacks :
          has_status(cb[c]) => cb[c].m_status_opt.inc = inc[c]

Registry == TypeOK /\ Identity /\ BusConsistent /\ WaitsLive

Waiting == StackAwake /\ EmptyStorage /\ NoSleepOnStatus /\ HandleLive /\ WaiterKnown

IndInv == Registry /\ Waiting /\ TrueIds

----------------------------------------------------------------------------
(* Sequences *)

\* Tail drops the first element and keeps the rest in place.
LEMMA TailFacts ==
    ASSUME NEW S, NEW s \in Seq(S), s # <<>>
    PROVE  /\ Tail(s) \in Seq(S)
           /\ Head(s) \in S
           /\ Head(s) = s[1]
           /\ Len(s) \in Nat \ {0}
           /\ Len(Tail(s)) = Len(s) - 1
           /\ \A i \in 1..Len(Tail(s)) : Tail(s)[i] = s[i + 1]
  OBVIOUS

\* What Elems is of the sequences the model builds.
LEMMA ElemsAppend ==
    ASSUME NEW S, NEW s \in Seq(S), NEW e
    PROVE  Elems(Append(s, e)) = Elems(s) \cup {e}
  <1>1. /\ Len(Append(s, e)) = Len(s) + 1
        /\ \A i \in 1..Len(s) : Append(s, e)[i] = s[i]
        /\ Append(s, e)[Len(s) + 1] = e
        /\ Len(s) \in Nat
    OBVIOUS
  <1>2. 1..(Len(s) + 1) = 1..Len(s) \cup {Len(s) + 1}
    BY <1>1
  <1> QED
    BY <1>1, <1>2 DEF Elems

\* The elements of a queue are its head and those of the rest.
LEMMA ElemsTail ==
    ASSUME NEW S, NEW s \in Seq(S), s # <<>>
    PROVE  /\ Elems(Tail(s)) \subseteq Elems(s)
           /\ Elems(s) = Elems(Tail(s)) \cup {Head(s)}
  <1>1. /\ Head(s) = s[1]
        /\ Len(s) \in Nat \ {0}
        /\ Len(Tail(s)) = Len(s) - 1
        /\ \A i \in 1..Len(Tail(s)) : Tail(s)[i] = s[i + 1]
    BY TailFacts
  <1>2. \A i \in 1..Len(s) : i = 1 \/ i - 1 \in 1..Len(Tail(s))
    BY <1>1
  <1>3. \A i \in 1..Len(Tail(s)) : i + 1 \in 1..Len(s)
    BY <1>1
  <1>4. Elems(Tail(s)) \subseteq Elems(s)
    BY <1>1, <1>3 DEF Elems
  <1>5. Elems(s) \subseteq Elems(Tail(s)) \cup {Head(s)}
    <2> SUFFICES ASSUME NEW i \in 1..Len(s), i # 1
                 PROVE  s[i] \in Elems(Tail(s))
      BY <1>1 DEF Elems
    <2>1. i - 1 \in 1..Len(Tail(s)) /\ s[i] = Tail(s)[i - 1]
      BY <1>1, <1>2
    <2> QED
      BY <2>1 DEF Elems
  <1>6. Head(s) \in Elems(s)
    BY <1>1 DEF Elems
  <1> QED
    BY <1>4, <1>5, <1>6

\* Cutting a queue in two, as io_uring_submit does, keeps its elements.
LEMMA ElemsSubSeq ==
    ASSUME NEW S, NEW s \in Seq(S), NEW k \in 0..Len(s)
    PROVE  Elems(s) = {s[i] : i \in 1..k} \cup Elems(SubSeq(s, k + 1, Len(s)))
  <1> DEFINE t == SubSeq(s, k + 1, Len(s))
  <1>1. /\ Len(s) \in Nat /\ k \in Nat /\ k <= Len(s)
        /\ Len(t) = Len(s) - k
        /\ \A i \in 1..Len(t) : t[i] = s[i + k]
    OBVIOUS
  <1>2. \A i \in 1..Len(t) : i + k \in 1..Len(s)
    BY <1>1
  <1>3. \A i \in 1..Len(s) : i \in 1..k \/ i - k \in 1..Len(t)
    BY <1>1
  <1>4. ASSUME NEW i \in 1..Len(s), i \notin 1..k
        PROVE  s[i] \in Elems(t)
    <2>1. i - k \in 1..Len(t) /\ t[i - k] = s[i]
      BY <1>1, <1>3, <1>4
    <2> QED
      BY <2>1 DEF Elems
  <1>5. Elems(t) \subseteq Elems(s)
    BY <1>1, <1>2 DEF Elems
  <1>6. {s[i] : i \in 1..k} \subseteq Elems(s)
    BY <1>1 DEF Elems
  <1>7. Elems(s) \subseteq {s[i] : i \in 1..k} \cup Elems(t)
    BY <1>4 DEF Elems
  <1> QED
    BY <1>5, <1>6, <1>7

----------------------------------------------------------------------------
(* Types *)

\* The branches of a co_await keep the types.
LEMMA AwaitTypes ==
    ASSUME TypeOK, Identity, NEW d \in Coroutines, NEW c \in Callbacks,
           Running(d), m_id[c] # 0, Await(d, c)
    PROVE  /\ cb' \in [Callbacks -> Callback]
           /\ waits' \in [Coroutines -> Callbacks \cup {NoCallback}]
           /\ stack' \in Seq(Coroutines)
           /\ doubled' \subseteq 1..MaxConstructs
  <1>1. cb[c] \in Callback
    BY DEF TypeOK
  <1>2. reset(cb[c]) \in Callback /\ set_handle(cb[c], d) \in Callback
    BY <1>1 DEF Callback, set_handle, reset
  <1>7. inc[c] \in 1..MaxConstructs
    BY DEF TypeOK, Identity
  <1>3. Tail(stack) \in Seq(Coroutines)
    BY TailFacts DEF TypeOK, Running
  <1>4. CASE AwaitReady(d, c)
    BY <1>2, <1>4 DEF AwaitReady, TypeOK
  <1>5. CASE AwaitSuspend(d, c)
    BY <1>2, <1>3, <1>5 DEF AwaitSuspend, TypeOK
  <1>6. CASE AwaitThrow(d, c)
    BY <1>2, <1>6, <1>7 DEF AwaitThrow, TypeOK
  <1> QED
    BY <1>4, <1>5, <1>6 DEF Await

\* The types hold before anything is constructed.
LEMMA TypeInit == Init => TypeOK
  BY EventLoopAssumption DEF Init, TypeOK, Fresh, Callback

\* Every step of a coroutine, of run() and of the kernel keeps the types.
LEMMA TypeStep == Registry /\ [Next]_vars => TypeOK'
  <1> SUFFICES ASSUME TypeOK, Identity, WaitsLive, [Next]_vars
               PROVE  TypeOK'
    BY DEF Registry
  <1> USE EventLoopAssumption
  <1>1. ASSUME NEW d \in Coroutines, NEW c \in Callbacks, Construct(d, c)
        PROVE  TypeOK'
    BY <1>1 DEF Construct, register_event_callback, TypeOK, Identity, Fresh,
        Callback, loopVars, ringVars, coroVars
  <1>2. ASSUME NEW d \in Coroutines, NEW c \in Callbacks, Destruct(d, c)
        PROVE  TypeOK'
    BY <1>2 DEF Destruct, deregister_event_callback, TypeOK, Fresh, Callback,
        loopVars, ringVars, coroVars, history
  <1>3. ASSUME NEW d \in Coroutines, NEW c \in Callbacks, AwaitSignal(d, c)
        PROVE  TypeOK'
    BY <1>3, AwaitTypes DEF AwaitSignal, TypeOK, loopVars, ringVars
  <1>4. ASSUME NEW d \in Coroutines, NEW c \in Callbacks, OnIo(d, c)
        PROVE  TypeOK'
    <2>1. PICK n \in FreeOpIds :
            /\ QueueSqe(c, [inc |-> inc[c], n |-> n])
            /\ issued' = IF waits'[d] = c
                         THEN [issued EXCEPT ![d] = [inc |-> inc[c], n |-> n]]
                         ELSE issued
      BY <1>4 DEF OnIo
    <2>2. /\ [inc |-> inc[c], n |-> n] \in Op
          /\ m_id[c] \in 1..MaxConstructs
      BY <1>4 DEF OnIo, FreeOpIds, TypeOK, Identity, Op
    <2>3. sq' \in Seq(Event)
      BY <2>1, <2>2 DEF QueueSqe, TypeOK, Event
    <2>4. issued' \in [Coroutines -> Op \cup {NoStatus}]
      BY <2>1, <2>2 DEF TypeOK
    <2>5. /\ cb' \in [Callbacks -> Callback]
          /\ waits' \in [Coroutines -> Callbacks \cup {NoCallback}]
          /\ stack' \in Seq(Coroutines)
          /\ doubled' \subseteq 1..MaxConstructs
      BY <1>4, AwaitTypes DEF OnIo
    <2>6. UNCHANGED <<loopVars, m_id_counter, m_callbacks, m_id, inflight, cq,
                      unstarted, inc, births, triggers, abandoned>>
      BY <1>4 DEF OnIo
    <2>7. /\ m_id_counter' \in 0..MaxConstructs
          /\ m_callbacks' \in [1..MaxConstructs -> Callbacks \cup {NoCallback}]
          /\ m_id' \in [Callbacks -> 0..MaxConstructs]
          /\ inc' \in [Callbacks -> 0..MaxConstructs]
      BY <2>6 DEF TypeOK
    <2>8. /\ m_running' \in BOOLEAN /\ m_events' \in Seq(Event)
          /\ poll' \in {"run", "wait"} /\ crash' \in {"none", "null_sqe", "wait_cqe"}
      BY <2>6 DEF TypeOK, loopVars
    <2>9. /\ inflight' \subseteq Event /\ cq' \in Seq(Event)
          /\ unstarted' \subseteq Coroutines /\ births' \in 0..MaxConstructs
          /\ triggers' \subseteq [m_id : 1..MaxConstructs, inc : 1..MaxConstructs]
          /\ abandoned' \subseteq 1..MaxConstructs
      BY <2>6 DEF TypeOK
    <2> QED
      BY <2>3, <2>4, <2>5, <2>7, <2>8, <2>9 DEF TypeOK
  <1>5. ASSUME NEW d \in Coroutines, NEW c \in Callbacks, OnIoNullSqe(d, c)
        PROVE  TypeOK'
    BY <1>5 DEF OnIoNullSqe, TypeOK, busVars, ringVars, coroVars, history
  <1>6. ASSUME NEW d \in Coroutines, NEW t \in triggers, Activate(d, t)
        PROVE  TypeOK'
    <2>1. t.m_id \in 1..MaxConstructs /\ t.inc \in 1..MaxConstructs
      BY DEF TypeOK
    <2>2. PICK n \in OpIds :
              m_events' = Append(m_events, [m_id |-> t.m_id, m_status |-> [inc |-> t.inc, n |-> n]])
      BY <1>6 DEF Activate, add_event, FreeOpIds
    <2>3. [m_id |-> t.m_id, m_status |-> [inc |-> t.inc, n |-> n]] \in Event
      BY <2>1 DEF Event, Op
    <2>4. m_events' \in Seq(Event)
      BY <2>2, <2>3 DEF TypeOK
    <2>5. UNCHANGED <<m_running, poll, crash, busVars, ringVars, coroVars, history>>
      BY <1>6 DEF Activate
    <2> QED
      BY <2>4, <2>5 DEF TypeOK, busVars, ringVars, coroVars, history
  <1>7. ASSUME NEW d \in Coroutines, NEW e \in Coroutines, Start(d, e)
        PROVE  TypeOK'
    BY <1>7 DEF Start, TypeOK, loopVars, busVars, ringVars, history
  <1>8. ASSUME NEW d \in Coroutines, NEW e \in Coroutines, Cancel(d, e)
        PROVE  TypeOK'
    <2>1. reset(cb[waits[e]]) \in Callback
      BY <1>8 DEF Cancel, TypeOK, reset, Callback
    <2>2. inc[waits[e]] \in 1..MaxConstructs
      BY <1>8 DEF Cancel, TypeOK, Identity, WaitsLive
    <2> QED
      BY <1>8, <2>1, <2>2 DEF Cancel, Unawait, TypeOK, loopVars, ringVars
  <1>9. ASSUME NEW d \in Coroutines, Finish(d)
        PROVE  TypeOK'
    BY <1>9, TailFacts DEF Finish, Running, TypeOK, loopVars, busVars, ringVars,
        history
  <1>10. ASSUME NEW d \in Coroutines, Stop(d)
         PROVE  TypeOK'
    BY <1>10 DEF Stop, TypeOK, busVars, ringVars, coroVars, history
  <1>11. CASE Dispatch
    <2> DEFINE ev == Head(m_events)
               c == m_callbacks[ev.m_id]
    <2>1. ev \in Event /\ Tail(m_events) \in Seq(Event)
      BY <1>11, TailFacts DEF Dispatch, TypeOK
    <2>2. ASSUME c # NoCallback
          PROVE  /\ notify(cb[c], ev.m_status) \in Callback
                 /\ resume(cb[c], ev.m_status) \in Callback
                 /\ has_handle(cb[c]) => cb[c].m_suspended \in Coroutines
      BY <2>1, <2>2 DEF TypeOK, Event, Callback, notify, resume, reset,
          has_handle
    <2> HIDE DEF ev, c
    <2>3. /\ m_events' = Tail(m_events)
          /\ UNCHANGED <<m_running, poll, crash, m_id_counter, m_callbacks, m_id,
                         ringVars, unstarted, inc, births, triggers, abandoned, doubled>>
      BY <1>11 DEF Dispatch
    <2>4. ASSUME cb' \in [Callbacks -> Callback], stack' \in Seq(Coroutines),
                 waits' \in [Coroutines -> Callbacks \cup {NoCallback}],
                 issued' \in [Coroutines -> Op \cup {NoStatus}]
          PROVE  TypeOK'
      BY <2>1, <2>3, <2>4 DEF TypeOK, ringVars
    <2>5. CASE NotifyUnknown(ev)
      <3>1. UNCHANGED <<cb, stack, waits, issued>>
        BY <2>5 DEF NotifyUnknown
      <3> QED
        BY <2>4, <3>1 DEF TypeOK
    <2>6. CASE c # NoCallback /\ NotifyStored(ev, c)
      <3>1. UNCHANGED <<stack, waits, issued>>
        BY <2>6 DEF NotifyStored
      <3>2. cb' = [cb EXCEPT ![c] = notify(cb[c], ev.m_status)]
        BY <2>6 DEF NotifyStored
      <3>3. cb' \in [Callbacks -> Callback]
        BY <2>2, <2>6, <3>2 DEF TypeOK
      <3> QED
        BY <2>4, <3>1, <3>3 DEF TypeOK
    <2>7. CASE c # NoCallback /\ NotifyResumes(ev, c)
      <3> DEFINE d == cb[c].m_suspended
      <3>1. /\ c # NoCallback /\ has_handle(cb[c])
            /\ cb' = [cb EXCEPT ![c] = resume(cb[c], ev.m_status)]
            /\ stack' = <<d>>
            /\ waits' = [waits EXCEPT ![d] = NoCallback]
            /\ issued' = [issued EXCEPT ![d] = NoStatus]
        BY <2>7 DEF NotifyResumes
      <3>2. d \in Coroutines /\ resume(cb[c], ev.m_status) \in Callback
        BY <2>2, <3>1
      <3> HIDE DEF d
      <3>3. stack' \in Seq(Coroutines)
        BY <3>1, <3>2
      <3>4. /\ waits' \in [Coroutines -> Callbacks \cup {NoCallback}]
            /\ issued' \in [Coroutines -> Op \cup {NoStatus}]
        BY <3>1, <3>2 DEF TypeOK
      <3>5. cb' \in [Callbacks -> Callback]
        BY <3>1, <3>2 DEF TypeOK
      <3> QED
        BY <2>4, <3>3, <3>4, <3>5
    <2> QED
      BY <1>11, <2>5, <2>6, <2>7 DEF Dispatch, Notify, ev, c
  <1>12. CASE PollSubmit
    BY <1>12 DEF PollSubmit, Submit, TypeOK, busVars, coroVars, history
  <1>13. CASE PollReap
    BY <1>13, TailFacts DEF PollReap, add_event, io_uring_cqe_seen, TypeOK,
        busVars, coroVars, history
  <1>14. CASE PollThrow
    BY <1>14 DEF PollThrow, TypeOK, busVars, ringVars, coroVars, history
  <1>15. ASSUME NEW e \in inflight, Complete(e)
         PROVE  TypeOK'
    BY <1>15 DEF Complete, TypeOK, loopVars, busVars, coroVars, history
  <1>16. CASE UNCHANGED vars
    BY <1>16 DEF vars, loopVars, busVars, ringVars, coroVars, history, TypeOK
  <1> QED
    BY <1>1, <1>2, <1>3, <1>4, <1>5, <1>6, <1>7, <1>8, <1>9, <1>10, <1>11,
       <1>12, <1>13, <1>14, <1>15, <1>16
    DEF Next, CoroutineStep, LoopStep

----------------------------------------------------------------------------
(* The registry of callbacks *)

\* The bus starts empty.
LEMMA RegistryInit == Init => Registry
  BY TypeInit, EventLoopAssumption
  DEF Init, TypeOK, Registry, Identity, BusConsistent, WaitsLive

\* A co_await changes whom the running coroutine waits for, at most.
LEMMA AwaitWaits ==
    ASSUME TypeOK, NEW d \in Coroutines, NEW c \in Callbacks, Await(d, c)
    PROVE  waits' = waits \/ waits' = [waits EXCEPT ![d] = c]
  BY DEF Await, AwaitReady, AwaitSuspend, AwaitThrow

\* Constructing and destroying callbacks keeps the bus exact; no other step
\* touches it.
LEMMA RegistryStep == Registry /\ [Next]_vars => Registry'
  <1> SUFFICES ASSUME Registry, [Next]_vars
               PROVE  Identity' /\ BusConsistent' /\ WaitsLive'
    BY TypeStep DEF Registry
  <1> USE EventLoopAssumption
  <1>0. TypeOK /\ TypeOK' /\ Identity /\ BusConsistent /\ WaitsLive
    BY TypeStep DEF Registry
  <1> DEFINE SameIds == /\ m_id' = m_id
                        /\ inc' = inc
                        /\ births' = births
                        /\ m_id_counter' = m_id_counter
                        /\ m_callbacks' = m_callbacks
  <1>1. ASSUME SameIds
        PROVE  Identity' /\ BusConsistent'
    BY <1>0, <1>1 DEF Identity, BusConsistent
  <1>2. ASSUME NEW d \in Coroutines, NEW c \in Callbacks, Construct(d, c)
        PROVE  Identity' /\ BusConsistent' /\ WaitsLive'
    <2>1. /\ m_id[c] = 0
          /\ m_id_counter + 1 \in 1..MaxConstructs
          /\ m_id' = [m_id EXCEPT ![c] = m_id_counter + 1]
          /\ m_callbacks' = [m_callbacks EXCEPT ![m_id_counter + 1] = c]
          /\ m_id_counter' = m_id_counter + 1
          /\ births' = m_id_counter + 1
          /\ inc' = [inc EXCEPT ![c] = m_id_counter + 1]
          /\ waits' = waits
      BY <1>0, <1>2 DEF Construct, register_event_callback, TypeOK, Identity,
          coroVars
    <2>2. Identity'
      BY <1>0, <2>1 DEF Identity, TypeOK
    <2>3. BusConsistent'
      BY <1>0, <2>1 DEF BusConsistent, Identity, TypeOK
    <2>4. WaitsLive'
      BY <1>0, <2>1 DEF WaitsLive, TypeOK
    <2> QED
      BY <2>2, <2>3, <2>4
  <1>3. ASSUME NEW d \in Coroutines, NEW c \in Callbacks, Destruct(d, c)
        PROVE  Identity' /\ BusConsistent' /\ WaitsLive'
    BY <1>0, <1>3 DEF Destruct, deregister_event_callback, Identity,
        BusConsistent, WaitsLive, TypeOK, coroVars, history
  <1>4. ASSUME NEW d \in Coroutines, NEW c \in Callbacks,
               AwaitSignal(d, c) \/ OnIo(d, c)
        PROVE  SameIds /\ WaitsLive'
    <2>1. SameIds /\ m_id[c] # 0
      BY <1>4 DEF AwaitSignal, OnIo
    <2>2. waits' = waits \/ waits' = [waits EXCEPT ![d] = c]
      BY <1>0, <1>4, AwaitWaits DEF AwaitSignal, OnIo
    <2> QED
      BY <1>0, <2>1, <2>2 DEF WaitsLive, TypeOK
  <1>5. ASSUME NEW d \in Coroutines, NEW e \in Coroutines, Cancel(d, e)
        PROVE  SameIds /\ WaitsLive'
    BY <1>0, <1>5 DEF Cancel, WaitsLive, TypeOK
  <1>6. CASE Dispatch
    <2>1. SameIds
      BY <1>6 DEF Dispatch
    <2>2. \/ waits' = waits
          \/ \E d : waits' = [waits EXCEPT ![d] = NoCallback]
      BY <1>6 DEF Dispatch, Notify, NotifyUnknown, NotifyStored, NotifyResumes
    <2> QED
      BY <1>0, <1>1, <2>1, <2>2 DEF WaitsLive, TypeOK
  <1>7. ASSUME SameIds /\ waits' = waits
        PROVE  Identity' /\ BusConsistent' /\ WaitsLive'
    BY <1>0, <1>1, <1>7 DEF WaitsLive
  <1>8. ASSUME NEW d \in Coroutines,
               \/ \E c \in Callbacks : OnIoNullSqe(d, c)
               \/ \E t \in triggers : Activate(d, t)
               \/ \E e \in Coroutines : Start(d, e)
               \/ Finish(d)
               \/ Stop(d)
        PROVE  SameIds /\ waits' = waits
    BY <1>8 DEF OnIoNullSqe, Activate, Start, Finish, Stop, busVars, coroVars,
        history
  <1>9. CASE PollSubmit \/ PollReap \/ PollThrow
    BY <1>7, <1>9 DEF PollSubmit, PollReap, PollThrow, busVars, coroVars,
        history
  <1>10. ASSUME NEW e \in inflight, Complete(e)
         PROVE  SameIds /\ waits' = waits
    BY <1>10 DEF Complete, busVars, coroVars, history
  <1>11. CASE UNCHANGED vars
    BY <1>7, <1>11 DEF vars, busVars, coroVars, history
  <1> QED
    BY <1>1, <1>2, <1>3, <1>4, <1>5, <1>6, <1>7, <1>8, <1>9, <1>10, <1>11
    DEF Next, CoroutineStep, LoopStep

----------------------------------------------------------------------------
(* Who waits where *)

\* Nobody waits at the start.
LEMMA WaitingInit == Init => Waiting
  BY EventLoopAssumption
  DEF Init, Waiting, StackAwake, EmptyStorage, NoSleepOnStatus, HandleLive,
      WaiterKnown, Fresh, has_status, has_handle

\* The three branches of a co_await: the one that suspends takes a place no
\* other coroutine has, the one that throws marks the callback as doubled.
LEMMA AwaitStep ==
    ASSUME TypeOK, Waiting, NEW d \in Coroutines, NEW c \in Callbacks,
           Running(d), m_id[c] # 0, Await(d, c),
           m_id' = m_id, inc' = inc, unstarted' = unstarted
    PROVE  Waiting'
  <1> USE EventLoopAssumption, NoopAssumption
  <1>1. cb[c] \in Callback /\ cb \in [Callbacks -> Callback]
    BY DEF TypeOK
  <1>2. /\ stack \in Seq(Coroutines) /\ stack # <<>> /\ stack[1] = d
        /\ 1 \in 1..Len(stack)
        /\ waits \in [Coroutines -> Callbacks \cup {NoCallback}]
    BY TailFacts DEF TypeOK, Running
  <1>3. waits[d] = NoCallback
    BY <1>2 DEF Waiting, StackAwake
  <1>4. reset(cb[c]) = [m_status_opt |-> NoStatus, m_suspended |-> Noop]
    BY <1>1 DEF reset, Callback
  <1>5. CASE AwaitReady(d, c)
    <2>1. /\ cb' = [cb EXCEPT ![c] = [m_status_opt |-> NoStatus, m_suspended |-> Noop]]
          /\ stack' = stack /\ waits' = waits /\ doubled' = doubled
          /\ cb[c].m_suspended = Noop
      BY <1>4, <1>5 DEF AwaitReady, Waiting, NoSleepOnStatus, has_handle
    <2> QED
      BY <1>1, <1>2, <2>1 DEF Waiting, StackAwake, EmptyStorage,
          NoSleepOnStatus, HandleLive, WaiterKnown, has_status, has_handle
  <1>6. CASE AwaitSuspend(d, c)
    <2>1. /\ cb' = [cb EXCEPT ![c] = set_handle(cb[c], d)]
          /\ waits' = [waits EXCEPT ![d] = c]
          /\ stack' = Tail(stack)
          /\ doubled' = doubled
          /\ cb[c].m_suspended = Noop /\ cb[c].m_status_opt = NoStatus
      BY <1>6 DEF AwaitSuspend, has_handle, has_status
    <2>2. /\ cb'[c].m_suspended = d /\ cb'[c].m_status_opt = NoStatus
          /\ \A k \in Callbacks \ {c} : cb'[k] = cb[k]
      BY <1>1, <2>1 DEF set_handle, Callback
    <2>3. StackAwake'
      <3>1. \A i \in 1..Len(Tail(stack)) :
              i + 1 \in 1..Len(stack) /\ Tail(stack)[i] = stack[i + 1]
        BY <1>2, TailFacts
      <3>2. \A i \in 1..Len(Tail(stack)) : Tail(stack)[i] # d
        BY <1>2, <3>1 DEF Waiting, StackAwake
      <3>3. d \notin unstarted
        BY <1>2 DEF Waiting, StackAwake
      <3>4. \A i \in 1..Len(Tail(stack)) : Tail(stack)[i] \in Coroutines
        BY <1>2, <3>1
      <3>5. \A i, j \in 1..Len(Tail(stack)) :
              Tail(stack)[i] = Tail(stack)[j] => i = j
        BY <3>1 DEF Waiting, StackAwake
      <3>6. \A i \in 1..Len(Tail(stack)) :
              waits[Tail(stack)[i]] = NoCallback /\ Tail(stack)[i] \notin unstarted
        BY <3>1 DEF Waiting, StackAwake
      <3>7. \A e \in unstarted : e \in Coroutines /\ waits[e] = NoCallback
        BY DEF TypeOK, Waiting, StackAwake
      <3> QED
        BY <1>2, <2>1, <3>2, <3>3, <3>4, <3>5, <3>6, <3>7 DEF StackAwake
    <2>4. EmptyStorage' /\ NoSleepOnStatus'
      BY <2>2 DEF Waiting, EmptyStorage, NoSleepOnStatus, has_status, has_handle
    <2>5. HandleLive'
      <3> SUFFICES ASSUME NEW k \in Callbacks, cb'[k].m_suspended # Noop
                   PROVE  waits'[cb'[k].m_suspended] = k
        BY DEF HandleLive, has_handle
      <3>1. CASE k = c
        BY <1>2, <2>1, <2>2, <3>1
      <3>2. CASE k # c
        <4>1. waits[cb[k].m_suspended] = k /\ cb[k].m_suspended # d
          BY <1>3, <2>2, <3>2 DEF Waiting, HandleLive, has_handle
        <4> QED
          BY <1>2, <2>1, <2>2, <3>2, <4>1
      <3> QED
        BY <3>1, <3>2
    <2>6. WaiterKnown'
      <3> SUFFICES ASSUME NEW e \in Coroutines, waits'[e] # NoCallback,
                          inc[waits'[e]] \notin doubled
                   PROVE  cb'[waits'[e]].m_suspended = e
        BY <2>1 DEF WaiterKnown
      <3>1. CASE e = d
        BY <1>2, <2>1, <2>2, <3>1
      <3>2. CASE e # d
        <4>1. waits'[e] = waits[e] /\ waits[e] \in Callbacks
          BY <1>2, <2>1, <3>2
        <4>2. cb[waits[e]].m_suspended = e
          BY <4>1 DEF Waiting, WaiterKnown
        <4> QED
          BY <2>1, <2>2, <4>1, <4>2
      <3> QED
        BY <3>1, <3>2
    <2> QED
      BY <2>3, <2>4, <2>5, <2>6 DEF Waiting
  <1>7. CASE AwaitThrow(d, c)
    <2>1. /\ cb' = [cb EXCEPT ![c] = [m_status_opt |-> NoStatus, m_suspended |-> Noop]]
          /\ stack' = stack /\ waits' = waits
          /\ doubled' = doubled \cup {inc[c]}
      BY <1>4, <1>7 DEF AwaitThrow
    <2> QED
      BY <1>1, <1>2, <2>1 DEF Waiting, StackAwake, EmptyStorage,
          NoSleepOnStatus, HandleLive, WaiterKnown, has_status, has_handle
  <1> QED
    BY <1>5, <1>6, <1>7 DEF Await

\* Taking the handle e out of the callback c that it is suspended on, and
\* ending e's wait, leaves every other coroutine in its place.
LEMMA ReleaseStep ==
    ASSUME TypeOK, Waiting, NEW e \in Coroutines, NEW c \in Callbacks,
           waits[e] = c, m_id[c] # 0,
           cb' = [cb EXCEPT ![c] = Fresh],
           waits' = [waits EXCEPT ![e] = NoCallback],
           m_id' = m_id, inc' = inc, doubled' = doubled
    PROVE  EmptyStorage' /\ NoSleepOnStatus' /\ HandleLive' /\ WaiterKnown'
  <1> USE EventLoopAssumption, NoopAssumption
  <1>1. /\ cb \in [Callbacks -> Callback]
        /\ waits \in [Coroutines -> Callbacks \cup {NoCallback}]
    BY DEF TypeOK
  <1>2. /\ cb'[c].m_suspended = Noop /\ cb'[c].m_status_opt = NoStatus
        /\ \A k \in Callbacks \ {c} : cb'[k] = cb[k]
    BY <1>1 DEF Fresh
  <1>3. EmptyStorage' /\ NoSleepOnStatus'
    BY <1>2 DEF Waiting, EmptyStorage, NoSleepOnStatus, has_status, has_handle
  <1>4. HandleLive'
    <2> SUFFICES ASSUME NEW k \in Callbacks, cb'[k].m_suspended # Noop
                 PROVE  waits'[cb'[k].m_suspended] = k
      BY DEF HandleLive, has_handle
    <2>1. k # c /\ cb'[k] = cb[k]
      BY <1>2
    <2>2. waits[cb[k].m_suspended] = k /\ cb[k].m_suspended \in Coroutines
      BY <1>1, <2>1 DEF Waiting, HandleLive, has_handle, Callback
    <2> QED
      BY <1>1, <2>1, <2>2
  <1>5. WaiterKnown'
    <2> SUFFICES ASSUME NEW d \in Coroutines, waits'[d] # NoCallback,
                        inc[waits'[d]] \notin doubled
                 PROVE  cb'[waits'[d]].m_suspended = d
      BY DEF WaiterKnown
    <2>1. d # e /\ waits'[d] = waits[d] /\ waits[d] \in Callbacks
      BY <1>1
    <2>2. cb[waits[d]].m_suspended = d
      BY <2>1 DEF Waiting, WaiterKnown
    <2>3. waits[d] # c
      BY <2>1, <2>2 DEF Waiting, WaiterKnown
    <2> QED
      BY <1>2, <2>1, <2>2, <2>3
  <1> QED
    BY <1>3, <1>4, <1>5

\* co_await, notify and the destruction of a task keep handles and waiting
\* coroutines in step.
LEMMA WaitingStep == Registry /\ Waiting /\ [Next]_vars => Waiting'
  <1> SUFFICES ASSUME Registry, Waiting, [Next]_vars
               PROVE  Waiting'
    OBVIOUS
  <1> USE EventLoopAssumption, NoopAssumption
  <1>0. TypeOK /\ Identity /\ BusConsistent /\ WaitsLive
    BY DEF Registry
  <1>1. ASSUME NEW d \in Coroutines, NEW c \in Callbacks,
               Construct(d, c) \/ Destruct(d, c)
        PROVE  Waiting'
    <2>1. /\ cb' = [cb EXCEPT ![c] = Fresh]
          /\ \E n : m_id' = [m_id EXCEPT ![c] = n]
          /\ \/ inc' = inc
             \/ \E n : inc' = [inc EXCEPT ![c] = n]
          /\ \A e \in Coroutines : waits[e] # c
          /\ stack' = stack /\ waits' = waits /\ unstarted' = unstarted
          /\ doubled' = doubled
      BY <1>0, <1>1 DEF Construct, Destruct, register_event_callback,
          WaitsLive, coroVars, history
    <2>2. \A e \in Coroutines : waits[e] # NoCallback =>
             /\ waits[e] \in Callbacks \ {c}
             /\ cb'[waits[e]] = cb[waits[e]]
             /\ inc'[waits[e]] = inc[waits[e]]
      BY <1>0, <2>1 DEF TypeOK
    <2>3. \A k \in Callbacks :
             k # c => cb'[k] = cb[k] /\ m_id'[k] = m_id[k]
      BY <1>0, <2>1 DEF TypeOK
    <2>4. cb'[c] = Fresh
      BY <1>0, <2>1 DEF TypeOK
    <2>5. EmptyStorage' /\ NoSleepOnStatus' /\ HandleLive'
      BY <2>1, <2>3, <2>4 DEF Waiting, EmptyStorage, NoSleepOnStatus,
          HandleLive, Fresh, has_status, has_handle
    <2>6. WaiterKnown'
      BY <2>1, <2>2 DEF Waiting, WaiterKnown
    <2>7. StackAwake'
      BY <2>1 DEF Waiting, StackAwake
    <2> QED
      BY <2>5, <2>6, <2>7 DEF Waiting
  <1>2. ASSUME NEW d \in Coroutines, NEW c \in Callbacks,
               AwaitSignal(d, c) \/ OnIo(d, c)
        PROVE  Waiting'
    BY <1>0, <1>2, AwaitStep DEF AwaitSignal, OnIo
  <1>3. ASSUME UNCHANGED <<cb, waits, m_id, inc, doubled>>
        PROVE  EmptyStorage' /\ NoSleepOnStatus' /\ HandleLive' /\ WaiterKnown'
    BY <1>3 DEF Waiting, EmptyStorage, NoSleepOnStatus, HandleLive, WaiterKnown
  <1>4. ASSUME UNCHANGED <<cb, waits, m_id, inc, doubled, stack, unstarted>>
        PROVE  Waiting'
    BY <1>3, <1>4 DEF Waiting, StackAwake
  <1>5. ASSUME NEW d \in Coroutines, NEW e \in Coroutines, Start(d, e)
        PROVE  Waiting'
    <2>1. /\ cb' = cb /\ waits' = waits /\ m_id' = m_id /\ inc' = inc
          /\ doubled' = doubled
          /\ unstarted' = unstarted \ {e} /\ e \in unstarted
          /\ stack' = <<e>> \o stack
      BY <1>5 DEF Start, busVars, history
    <2>2. /\ Len(stack') = Len(stack) + 1
          /\ stack'[1] = e
          /\ \A i \in 2..Len(stack') :
                i - 1 \in 1..Len(stack) /\ stack'[i] = stack[i - 1]
          /\ Len(stack) \in Nat
      BY <1>0, <2>1 DEF TypeOK
    <2>3. \A i \in 1..Len(stack') : i = 1 \/ i \in 2..Len(stack')
      BY <2>2
    <2>4. \A i \in 1..Len(stack') :
             waits[stack'[i]] = NoCallback /\ stack'[i] \notin unstarted \ {e}
      BY <2>1, <2>2, <2>3 DEF Waiting, StackAwake
    <2>5. \A i, j \in 1..Len(stack') : stack'[i] = stack'[j] => i = j
      <3> SUFFICES ASSUME NEW i \in 1..Len(stack'), NEW j \in 1..Len(stack'),
                          stack'[i] = stack'[j]
                   PROVE  i = j
        OBVIOUS
      <3>1. \A k \in 2..Len(stack') : stack'[k] # e
        BY <2>1, <2>2 DEF Waiting, StackAwake
      <3>2. CASE i = 1
        BY <2>2, <2>3, <3>1, <3>2
      <3>3. CASE j = 1
        BY <2>2, <2>3, <3>1, <3>3
      <3>4. CASE i # 1 /\ j # 1
        <4>1. /\ i - 1 \in 1..Len(stack) /\ j - 1 \in 1..Len(stack)
              /\ stack[i - 1] = stack[j - 1]
          BY <2>2, <2>3, <3>4
        <4>2. i - 1 = j - 1
          BY <4>1 DEF Waiting, StackAwake
        <4> QED
          BY <4>2
      <3> QED
        BY <3>2, <3>3, <3>4
    <2>6. StackAwake'
      BY <2>1, <2>4, <2>5 DEF Waiting, StackAwake
    <2> QED
      BY <1>3, <2>1, <2>6 DEF Waiting
  <1>6. ASSUME NEW d \in Coroutines, Finish(d)
        PROVE  Waiting'
    <2>1. /\ cb' = cb /\ waits' = waits /\ m_id' = m_id /\ inc' = inc
          /\ doubled' = doubled /\ unstarted' = unstarted
          /\ stack' = Tail(stack)
      BY <1>6 DEF Finish, busVars, history
    <2>2. \A i \in 1..Len(Tail(stack)) :
             i + 1 \in 1..Len(stack) /\ Tail(stack)[i] = stack[i + 1]
      BY <1>0, <1>6, TailFacts DEF Finish, Running, TypeOK
    <2>3. StackAwake'
      BY <2>1, <2>2 DEF Waiting, StackAwake
    <2> QED
      BY <1>3, <2>1, <2>3 DEF Waiting
  <1>7. ASSUME NEW d \in Coroutines, NEW e \in Coroutines, Cancel(d, e)
        PROVE  Waiting'
    <2>1. /\ waits[e] \in Callbacks /\ m_id[waits[e]] # 0
          /\ cb' = [cb EXCEPT ![waits[e]] = Fresh]
          /\ waits' = [waits EXCEPT ![e] = NoCallback]
          /\ m_id' = m_id /\ inc' = inc /\ doubled' = doubled
          /\ stack' = stack /\ unstarted' = unstarted
      BY <1>0, <1>7 DEF Cancel, Unawait, reset, Fresh, TypeOK, WaitsLive
    <2>2. EmptyStorage' /\ NoSleepOnStatus' /\ HandleLive' /\ WaiterKnown'
      BY <1>0, <2>1, ReleaseStep
    <2>3. StackAwake'
      BY <1>0, <2>1 DEF Waiting, StackAwake, TypeOK
    <2> QED
      BY <2>2, <2>3 DEF Waiting
  <1>8. CASE Dispatch
    <2> DEFINE ev == Head(m_events)
               c == m_callbacks[ev.m_id]
    <2>1. /\ ev \in Event
          /\ m_id' = m_id /\ inc' = inc /\ doubled' = doubled
          /\ unstarted' = unstarted /\ stack = <<>>
      BY <1>0, <1>8, TailFacts DEF Dispatch, InRun, TypeOK
    <2>2. c # NoCallback => c \in Callbacks /\ m_id[c] # 0
      BY <1>0, <2>1 DEF TypeOK, BusConsistent, Event
    <2>3. CASE NotifyUnknown(ev)
      BY <1>4, <2>1, <2>3 DEF NotifyUnknown
    <2>4. CASE c # NoCallback /\ NotifyStored(ev, c)
      <3>1. /\ cb' = [cb EXCEPT ![c] = [m_status_opt |-> ev.m_status,
                                        m_suspended |-> Noop]]
            /\ cb[c].m_suspended = Noop
            /\ waits' = waits /\ stack' = stack
        BY <2>4 DEF NotifyStored, notify, has_handle
      <3> QED
        BY <1>0, <2>1, <2>2, <2>4, <3>1 DEF TypeOK, Waiting, StackAwake,
            EmptyStorage, NoSleepOnStatus, HandleLive, WaiterKnown, has_status,
            has_handle
    <2>5. CASE c # NoCallback /\ NotifyResumes(ev, c)
      <3> DEFINE d == cb[c].m_suspended
      <3>1. /\ d \in Coroutines /\ waits[d] = c
            /\ cb' = [cb EXCEPT ![c] = Fresh]
            /\ stack' = <<d>>
            /\ waits' = [waits EXCEPT ![d] = NoCallback]
        BY <1>0, <2>2, <2>5 DEF NotifyResumes, resume, reset, Fresh, TypeOK,
            Callback, has_handle, Waiting, HandleLive
      <3>2. EmptyStorage' /\ NoSleepOnStatus' /\ HandleLive' /\ WaiterKnown'
        BY <1>0, <2>1, <2>2, <2>5, <3>1, ReleaseStep
      <3>3. d \notin unstarted
        BY <2>5, <3>1 DEF Waiting, StackAwake
      <3>4. StackAwake'
        <4>1. Len(stack') = 1 /\ stack'[1] = d
          BY <3>1
        <4>2. /\ waits'[d] = NoCallback
              /\ \A e \in unstarted : waits'[e] = NoCallback
          BY <1>0, <3>1 DEF Waiting, StackAwake, TypeOK
        <4> QED
          BY <2>1, <3>3, <4>1, <4>2 DEF StackAwake
      <3> QED
        BY <3>2, <3>4 DEF Waiting
    <2> QED
      BY <1>8, <2>3, <2>4, <2>5 DEF Dispatch, Notify
  <1>9. ASSUME NEW d \in Coroutines,
               \/ \E c \in Callbacks : OnIoNullSqe(d, c)
               \/ \E t \in triggers : Activate(d, t)
               \/ Stop(d)
        PROVE  Waiting'
    BY <1>4, <1>9 DEF OnIoNullSqe, Activate, Stop, busVars, coroVars, history
  <1>10. CASE PollSubmit \/ PollReap \/ PollThrow
    BY <1>4, <1>10 DEF PollSubmit, PollReap, PollThrow, busVars, coroVars,
        history
  <1>11. ASSUME NEW e \in inflight, Complete(e)
         PROVE  Waiting'
    BY <1>4, <1>11 DEF Complete, busVars, coroVars, history
  <1>12. CASE UNCHANGED vars
    BY <1>4, <1>12 DEF vars, busVars, coroVars, history
  <1> QED
    BY <1>1, <1>2, <1>5, <1>6, <1>7, <1>8, <1>9, <1>10, <1>11, <1>12
    DEF Next, CoroutineStep, LoopStep

----------------------------------------------------------------------------
(* Whose result is on the way *)

\* Nothing is on its way at the start.
LEMMA TrueIdsInit == Init => TrueIds
  BY DEF Init, TrueIds, OnTheWay, Elems, Fresh, has_status

\* What each step adds to the results on the way.
LEMMA OnTheWayStep ==
    ASSUME TypeOK, [Next]_vars
    PROVE  \/ OnTheWay' \subseteq OnTheWay
           \/ \E c \in Listeners, n \in OpIds :
                 /\ m_id[c] # 0 /\ \E d \in Coroutines : OnIo(d, c)
                 /\ OnTheWay' = OnTheWay \cup
                       {[m_id |-> m_id[c], m_status |-> [inc |-> inc[c], n |-> n]]}
           \/ \E t \in triggers, n \in OpIds :
                 OnTheWay' = OnTheWay \cup
                       {[m_id |-> t.m_id, m_status |-> [inc |-> t.inc, n |-> n]]}
  <1> USE EventLoopAssumption
  <1>1. ASSUME UNCHANGED <<sq, inflight, cq, m_events>>
        PROVE  OnTheWay' \subseteq OnTheWay
    BY <1>1 DEF OnTheWay, Elems
  <1>2. ASSUME NEW d \in Coroutines, NEW c \in Callbacks,
               \/ Construct(d, c) \/ Destruct(d, c) \/ AwaitSignal(d, c)
               \/ OnIoNullSqe(d, c)
        PROVE  UNCHANGED <<sq, inflight, cq, m_events>>
    BY <1>2 DEF Construct, Destruct, AwaitSignal, OnIoNullSqe, loopVars, ringVars
  <1>3. ASSUME NEW d \in Coroutines, NEW c \in Callbacks, OnIo(d, c)
        PROVE  \E k \in Listeners, n \in OpIds :
                 /\ m_id[k] # 0 /\ \E f \in Coroutines : OnIo(f, k)
                 /\ OnTheWay' = OnTheWay \cup
                       {[m_id |-> m_id[k], m_status |-> [inc |-> inc[k], n |-> n]]}
    <2>1. PICK n \in FreeOpIds : QueueSqe(c, [inc |-> inc[c], n |-> n])
      BY <1>3 DEF OnIo
    <2> DEFINE ev == [m_id |-> m_id[c], m_status |-> [inc |-> inc[c], n |-> n]]
    <2>2. /\ c \in Listeners /\ m_id[c] # 0 /\ n \in OpIds
          /\ inflight' = inflight /\ cq' = cq /\ m_events' = m_events
          /\ sq' = Append(sq, ev)
      BY <1>3, <2>1 DEF OnIo, QueueSqe, FreeOpIds, loopVars
    <2>3. Elems(Append(sq, ev)) = Elems(sq) \cup {ev}
      BY ElemsAppend DEF TypeOK
    <2>4. OnTheWay' = OnTheWay \cup {ev}
      BY <2>2, <2>3 DEF OnTheWay, Elems
    <2> QED
      BY <1>3, <2>2, <2>4
  <1>4. ASSUME NEW d \in Coroutines, NEW t \in triggers, Activate(d, t)
        PROVE  \E n \in OpIds :
                 OnTheWay' = OnTheWay \cup
                       {[m_id |-> t.m_id, m_status |-> [inc |-> t.inc, n |-> n]]}
    <2>1. PICK n \in FreeOpIds :
            add_event([m_id |-> t.m_id, m_status |-> [inc |-> t.inc, n |-> n]])
      BY <1>4 DEF Activate
    <2> DEFINE ev == [m_id |-> t.m_id, m_status |-> [inc |-> t.inc, n |-> n]]
    <2>2. /\ n \in OpIds
          /\ inflight' = inflight /\ cq' = cq /\ sq' = sq
          /\ m_events' = Append(m_events, ev)
      BY <1>4, <2>1 DEF Activate, add_event, FreeOpIds, ringVars
    <2>3. Elems(Append(m_events, ev)) = Elems(m_events) \cup {ev}
      BY ElemsAppend DEF TypeOK
    <2>4. OnTheWay' = OnTheWay \cup {ev}
      BY <2>2, <2>3 DEF OnTheWay, Elems
    <2> QED
      BY <2>2, <2>4
  <1>5. ASSUME NEW d \in Coroutines,
               \/ \E e \in Coroutines : Start(d, e) \/ Cancel(d, e)
               \/ Finish(d)
               \/ Stop(d)
        PROVE  UNCHANGED <<sq, inflight, cq, m_events>>
    BY <1>5 DEF Start, Cancel, Finish, Stop, loopVars, ringVars
  <1>6. ASSUME Dispatch
        PROVE  OnTheWay' \subseteq OnTheWay
    <2>1. /\ m_events # <<>> /\ m_events' = Tail(m_events)
          /\ inflight' = inflight /\ cq' = cq /\ sq' = sq
      BY <1>6 DEF Dispatch, ringVars
    <2>2. Elems(Tail(m_events)) \subseteq Elems(m_events)
      BY <2>1, ElemsTail DEF TypeOK
    <2> QED
      BY <2>1, <2>2 DEF OnTheWay, Elems
  <1>7. ASSUME PollSubmit
        PROVE  OnTheWay' \subseteq OnTheWay
    <2>1. PICK k \in 0..Len(sq) :
            /\ inflight' = inflight \cup {sq[i] : i \in 1..k}
            /\ sq' = SubSeq(sq, k + 1, Len(sq))
      BY <1>7 DEF PollSubmit, Submit
    <2>2. cq' = cq /\ m_events' = m_events
      BY <1>7 DEF PollSubmit
    <2>3. Elems(sq) = {sq[i] : i \in 1..k} \cup Elems(SubSeq(sq, k + 1, Len(sq)))
      BY ElemsSubSeq DEF TypeOK
    <2> QED
      BY <2>1, <2>2, <2>3 DEF OnTheWay, Elems
  <1>8. ASSUME PollReap
        PROVE  OnTheWay' \subseteq OnTheWay
    <2>1. /\ cq # <<>> /\ cq' = Tail(cq)
          /\ m_events' = Append(m_events, Head(cq))
          /\ inflight' = inflight /\ sq' = sq
      BY <1>8 DEF PollReap, add_event, io_uring_cqe_seen
    <2>2. Elems(cq) = Elems(Tail(cq)) \cup {Head(cq)} /\ Head(cq) \in Event
      BY <2>1, ElemsTail, TailFacts DEF TypeOK
    <2>3. Elems(Append(m_events, Head(cq))) = Elems(m_events) \cup {Head(cq)}
      BY <2>2, ElemsAppend DEF TypeOK
    <2> QED
      BY <2>1, <2>2, <2>3 DEF OnTheWay, Elems
  <1>9. ASSUME NEW e \in inflight, Complete(e)
        PROVE  OnTheWay' \subseteq OnTheWay
    <2>1. /\ inflight' = inflight \ {e} /\ cq' = Append(cq, e)
          /\ m_events' = m_events /\ sq' = sq
      BY <1>9 DEF Complete, loopVars
    <2>2. Elems(Append(cq, e)) = Elems(cq) \cup {e}
      BY ElemsAppend DEF TypeOK
    <2> QED
      BY <2>1, <2>2 DEF OnTheWay, Elems
  <1>10. CASE PollThrow \/ UNCHANGED vars
    BY <1>1, <1>10 DEF PollThrow, vars, loopVars, ringVars
  <1> QED
    BY <1>1, <1>2, <1>3, <1>4, <1>5, <1>6, <1>7, <1>8, <1>9, <1>10
    DEF Next, CoroutineStep, LoopStep

\* get_sqe, activate, poll and notify carry an id along unchanged.
LEMMA TrueIdsStep == Registry /\ TrueIds /\ [Next]_vars => TrueIds'
  <1> SUFFICES ASSUME Registry, TrueIds, [Next]_vars
               PROVE  TrueIds'
    OBVIOUS
  <1> USE EventLoopAssumption
  <1>0. TypeOK /\ Identity /\ BusConsistent
    BY DEF Registry
  <1>1. \A e \in OnTheWay' : e.m_id = e.m_status.inc
    <2>1. CASE OnTheWay' \subseteq OnTheWay
      BY <2>1 DEF TrueIds
    <2>2. ASSUME NEW c \in Listeners, NEW n \in OpIds, m_id[c] # 0,
                 OnTheWay' = OnTheWay \cup
                     {[m_id |-> m_id[c], m_status |-> [inc |-> inc[c], n |-> n]]}
          PROVE  \A e \in OnTheWay' : e.m_id = e.m_status.inc
      BY <1>0, <2>2 DEF TrueIds, Identity, Callbacks
    <2>3. ASSUME NEW t \in triggers, NEW n \in OpIds,
                 OnTheWay' = OnTheWay \cup
                     {[m_id |-> t.m_id, m_status |-> [inc |-> t.inc, n |-> n]]}
          PROVE  \A e \in OnTheWay' : e.m_id = e.m_status.inc
      BY <2>3 DEF TrueIds
    <2> QED
      BY <1>0, <2>1, <2>2, <2>3, OnTheWayStep
  <1> DEFINE Stamped == \A c \in Callbacks :
                 has_status(cb[c]) => cb[c].m_status_opt.inc = inc[c]
             Handed == \A t \in triggers : t.m_id = t.inc
  <1> SUFFICES Stamped' /\ Handed'
    BY <1>1 DEF TrueIds
  <1>2. Stamped /\ Handed
    BY DEF TrueIds
  <1>3. ASSUME NEW d \in Coroutines, NEW c \in Callbacks, Construct(d, c)
        PROVE  Stamped' /\ Handed'
    <2>1. /\ m_id' = [m_id EXCEPT ![c] = births + 1]
          /\ inc' = [inc EXCEPT ![c] = births + 1]
          /\ cb' = [cb EXCEPT ![c] = Fresh]
          /\ triggers' \subseteq triggers \cup
                {[m_id |-> m_id'[c], inc |-> births + 1]}
      BY <1>0, <1>3 DEF Construct, register_event_callback, Identity
    <2> QED
      BY <1>0, <1>2, <2>1 DEF TypeOK, Fresh, has_status
  <1>4. ASSUME NEW d \in Coroutines, NEW c \in Callbacks, Destruct(d, c)
        PROVE  Stamped' /\ Handed'
    BY <1>0, <1>2, <1>4 DEF Destruct, TypeOK, Fresh, has_status, history
  <1>5. ASSUME NEW d \in Coroutines, NEW c \in Callbacks,
               AwaitSignal(d, c) \/ OnIo(d, c)
        PROVE  Stamped' /\ Handed'
    <2>1. Await(d, c) /\ inc' = inc /\ triggers' = triggers
      BY <1>5 DEF AwaitSignal, OnIo
    <2>2. \A k \in Callbacks :
             \/ cb'[k].m_status_opt = cb[k].m_status_opt
             \/ cb'[k].m_status_opt = NoStatus
      <3>1. \/ cb' = [cb EXCEPT ![c] = reset(cb[c])]
            \/ cb' = [cb EXCEPT ![c] = set_handle(cb[c], d)]
        BY <2>1 DEF Await, AwaitReady, AwaitSuspend, AwaitThrow
      <3>2. reset(cb[c]).m_status_opt = NoStatus
        BY DEF reset
      <3>3. set_handle(cb[c], d).m_status_opt = cb[c].m_status_opt
        BY DEF set_handle
      <3> QED
        BY <1>0, <3>1, <3>2, <3>3 DEF TypeOK
    <2> QED
      BY <1>2, <2>1, <2>2 DEF has_status
  <1>6. ASSUME NEW d \in Coroutines, NEW e \in Coroutines, Cancel(d, e)
        PROVE  Stamped' /\ Handed'
    <2>1. /\ cb' = [cb EXCEPT ![waits[e]] = reset(cb[waits[e]])]
          /\ inc' = inc /\ triggers' = triggers
      BY <1>6 DEF Cancel, Unawait
    <2> QED
      BY <1>0, <1>2, <2>1 DEF TypeOK, reset, has_status
  <1>7. CASE Dispatch
    <2> DEFINE ev == Head(m_events)
               c == m_callbacks[ev.m_id]
    <2>1. /\ ev \in Event
          /\ inc' = inc /\ triggers' = triggers
      BY <1>0, <1>7, TailFacts DEF Dispatch, TypeOK
    <2>6. ev \in OnTheWay
      BY <1>0, <1>7, ElemsTail DEF Dispatch, TypeOK, OnTheWay
    <2>2. ASSUME c # NoCallback
          PROVE  c \in Callbacks /\ ev.m_status.inc = inc[c]
      BY <1>0, <2>1, <2>2, <2>6 DEF TypeOK, BusConsistent, Identity, Event,
          TrueIds
    <2>3. CASE NotifyUnknown(ev)
      BY <1>2, <2>1, <2>3 DEF NotifyUnknown
    <2>4. CASE c # NoCallback /\ NotifyStored(ev, c)
      BY <1>0, <1>2, <2>1, <2>2, <2>4 DEF NotifyStored, notify, TypeOK,
          has_status
    <2>5. CASE c # NoCallback /\ NotifyResumes(ev, c)
      BY <1>0, <1>2, <2>1, <2>2, <2>5 DEF NotifyResumes, resume, reset,
          TypeOK, has_status
    <2> QED
      BY <1>7, <2>3, <2>4, <2>5 DEF Dispatch, Notify
  <1>8. ASSUME UNCHANGED <<cb, inc, triggers>>
        PROVE  Stamped' /\ Handed'
    BY <1>2, <1>8
  <1>9. ASSUME NEW d \in Coroutines,
               \/ \E c \in Callbacks : OnIoNullSqe(d, c)
               \/ \E t \in triggers : Activate(d, t)
               \/ \E e \in Coroutines : Start(d, e)
               \/ Finish(d)
               \/ Stop(d)
        PROVE  UNCHANGED <<cb, inc, triggers>>
    BY <1>9 DEF OnIoNullSqe, Activate, Start, Finish, Stop, busVars, history
  <1>10. ASSUME PollSubmit \/ PollReap \/ PollThrow \/ UNCHANGED vars
         PROVE  UNCHANGED <<cb, inc, triggers>>
    BY <1>10 DEF PollSubmit, PollReap, PollThrow, vars, busVars, history
  <1>11. ASSUME NEW e \in inflight, Complete(e)
         PROVE  UNCHANGED <<cb, inc, triggers>>
    BY <1>11 DEF Complete, busVars, history
  <1> QED
    BY <1>3, <1>4, <1>5, <1>6, <1>7, <1>8, <1>9, <1>10, <1>11
    DEF Next, CoroutineStep, LoopStep

----------------------------------------------------------------------------
(* The theorems *)

\* The three parts together are inductive.
THEOREM Inductive == Spec => []IndInv
  <1>1. Init => IndInv
    BY RegistryInit, WaitingInit, TrueIdsInit DEF IndInv
  <1>2. IndInv /\ [Next]_vars => IndInv'
    BY RegistryStep, WaitingStep, TrueIdsStep DEF IndInv
  <1> QED
    BY <1>1, <1>2, PTL DEF Spec

\* The state of the loop, the bus, the ring and the coroutines keeps its
\* types, for every ring size and number of coroutines.
THEOREM TypeCorrect == Spec => []TypeOK
  <1>1. IndInv => TypeOK
    BY DEF IndInv, Registry
  <1> QED
    BY <1>1, Inductive, PTL

\* event_bus::m_callbacks holds exactly the constructed callbacks, so that
\* event_bus::notify never follows a dangling pointer.
THEOREM BusCorrect == Spec => []BusConsistent
  <1>1. IndInv => BusConsistent
    BY DEF IndInv, Registry
  <1> QED
    BY <1>1, Inductive, PTL

\* A co_await never puts a coroutine to sleep on a status that is there.
THEOREM NeverSleepsOnStatus == Spec => []NoSleepOnStatus
  <1>1. IndInv => NoSleepOnStatus
    BY DEF IndInv, Waiting
  <1> QED
    BY <1>1, Inductive, PTL

\* event_callback::notify resumes only coroutines that exist and wait there.
THEOREM HandlesLive == Spec => []HandleLive
  <1>1. IndInv => HandleLive
    BY DEF IndInv, Waiting
  <1> QED
    BY <1>1, Inductive, PTL

\* A suspended coroutine is known to the callback it awaits, as long as no
\* second coroutine awaits the same callback.
THEOREM WaitersKnown == Spec => []WaiterKnown
  <1>1. IndInv => WaiterKnown
    BY DEF IndInv, Waiting
  <1> QED
    BY <1>1, Inductive, PTL

\* A late result of a destroyed listener or signal never reaches an object
\* constructed after it.
THEOREM NeverMisdelivers == Spec => []NoMisdelivery
  <1>1. ASSUME TypeOK, Identity, BusConsistent, TrueIds
        PROVE  NoMisdelivery
    <2>1. ASSUME NEW e \in OnTheWay, m_callbacks[e.m_id] # NoCallback
          PROVE  inc[m_callbacks[e.m_id]] = e.m_status.inc
      <3>1. e \in Event
        BY <1>1 DEF OnTheWay, Elems, TypeOK
      <3>2. /\ m_callbacks[e.m_id] \in Callbacks
            /\ m_id[m_callbacks[e.m_id]] = e.m_id
            /\ e.m_id # 0
        BY <1>1, <2>1, <3>1, EventLoopAssumption DEF TypeOK, BusConsistent, Event
      <3> QED
        BY <1>1, <3>2 DEF Identity, TrueIds
    <2> QED
      BY <1>1, <2>1 DEF NoMisdelivery, TrueIds
  <1>2. IndInv => NoMisdelivery
    BY <1>1 DEF IndInv, Registry
  <1> QED
    BY <1>2, Inductive, PTL

============================================================================
