------------------------------- MODULE PgPool -------------------------------
(***************************************************************************)
(* cppevent_postgres: pg_database, the pool of connections, with the       *)
(* lifetime of pg_connection as far as it moves the pool's counter.        *)
(*                                                                         *)
(* Clients are the coroutines that call get_connection and release.  A     *)
(* step is what one of them does between two suspensions.                  *)
(*                                                                         *)
(* Of the loop's m_events only those the pool adds are kept.  An id of a   *)
(* callback in m_waiting or m_events is written as the client that owns    *)
(* the callback, or as Dead once the callback is destroyed: an id is never *)
(* used again, and the bus drops an event for an unknown one (EventLoop,   *)
(* BusConsistent and NoMisdelivery).                                       *)
(***************************************************************************)
EXTENDS Naturals, Sequences, FiniteSets

CONSTANTS
    Clients,
    Conns,              \* names of connections alive at one time
    NoConn,
    Dead,
    m_max_connections,  \* pg_config::m_max_connections, 1 by default
    MaxLine,            \* bound on the ids in m_waiting and m_events, dead
                        \* ones included
    MaxLeaks            \* bound on uses of pg_connection's move assignment

ASSUME PgPoolAssumption ==
    /\ IsFiniteSet(Conns) /\ IsFiniteSet(Clients)
    /\ NoConn \notin Conns
    /\ Dead \notin Clients
    /\ m_max_connections \in Nat
    /\ MaxLine \in Nat
    /\ MaxLeaks \in Nat

VARIABLES
    m_conn_count,   \* pg_database::m_conn_count
    m_idle,         \* pg_database::m_idle
    m_waiting,      \* pg_database::m_waiting
    m_events,       \* the events release adds to the loop
    pc,             \* where each client is
    conn,           \* the connection a client has, while in init or holding
    undefined,      \* front() was called on an empty m_idle
    \* History.
    leaked,         \* sockets closed by move assignment
    cancelled,      \* has a waiting client been destroyed?
    lost            \* has a connection (or an attempt at one) come to nothing?

vars == <<m_conn_count, m_idle, m_waiting, m_events, pc, conn, undefined,
          leaked, cancelled, lost>>

States == {"idle", "connecting", "init", "waiting", "holding"}

TypeOK ==
    /\ m_conn_count \in Nat
    /\ m_idle \in Seq(Conns)
    /\ m_waiting \in Seq(Clients \cup {Dead})
    /\ m_events \in Seq(Clients \cup {Dead})
    /\ pc \in [Clients -> States]
    /\ conn \in [Clients -> Conns \cup {NoConn}]
    /\ undefined \in BOOLEAN
    /\ leaked \in 0..MaxLeaks
    /\ cancelled \in BOOLEAN
    /\ lost \in BOOLEAN

Elems(s) == {s[i] : i \in 1..Len(s)}

Held == {c \in Conns : \E d \in Clients : conn[d] = c}

\* The pg_connection objects that own a socket.
Live == Held \cup Elems(m_idle)

Init ==
    /\ m_conn_count = 0
    /\ m_idle = <<>>
    /\ m_waiting = <<>>
    /\ m_events = <<>>
    /\ pc = [d \in Clients |-> "idle"]
    /\ conn = [d \in Clients |-> NoConn]
    /\ undefined = FALSE
    /\ leaked = 0
    /\ cancelled = FALSE
    /\ lost = FALSE

----------------------------------------------------------------------------
(* get_connection *)

Goto(d, s) == pc' = [pc EXCEPT ![d] = s]

\* Mutant: the connection is copied out and stays in m_idle.
TakeIdle_copy(d) ==
    /\ conn' = [conn EXCEPT ![d] = Head(m_idle)]
    /\ Goto(d, "holding")
    /\ UNCHANGED m_idle

\* The end of get_connection: front, pop and the move to the caller.
TakeIdle(d) ==
    /\ conn' = [conn EXCEPT ![d] = Head(m_idle)]
    /\ m_idle' = Tail(m_idle)
    /\ Goto(d, "holding")

\* An idle connection is there.
GetIdle(d) ==
    /\ ~undefined
    /\ pc[d] = "idle"
    /\ m_idle # <<>>
    /\ TakeIdle(d)
    /\ UNCHANGED <<m_conn_count, m_waiting, m_events, undefined, leaked,
                   cancelled, lost>>

\* Mutant: only the limit is looked at, not m_idle.
GetNew_always(d) ==
    /\ ~undefined
    /\ pc[d] = "idle"
    /\ m_conn_count < m_max_connections
    /\ Goto(d, "connecting")
    /\ UNCHANGED <<m_conn_count, m_idle, m_waiting, m_events, conn, undefined,
                   leaked, cancelled, lost>>

\* There is room for another: connect.
GetNew(d) ==
    /\ ~undefined
    /\ pc[d] = "idle"
    /\ m_idle = <<>>
    /\ m_conn_count < m_max_connections
    /\ Goto(d, "connecting")
    /\ UNCHANGED <<m_conn_count, m_idle, m_waiting, m_events, conn, undefined,
                   leaked, cancelled, lost>>

\* Mutant: only the limit is looked at, not m_idle.
GetInLine_idle(d) ==
    /\ ~undefined
    /\ pc[d] = "idle"
    /\ m_conn_count >= m_max_connections
    /\ Len(m_waiting) + Len(m_events) < MaxLine
    /\ m_waiting' = Append(m_waiting, d)
    /\ Goto(d, "waiting")
    /\ UNCHANGED <<m_conn_count, m_idle, m_events, conn, undefined, leaked,
                   cancelled, lost>>

\* Neither: wait in line.
GetInLine(d) ==
    /\ ~undefined
    /\ pc[d] = "idle"
    /\ m_idle = <<>>
    /\ m_conn_count >= m_max_connections
    /\ Len(m_waiting) + Len(m_events) < MaxLine
    /\ m_waiting' = Append(m_waiting, d)
    /\ Goto(d, "waiting")
    /\ UNCHANGED <<m_conn_count, m_idle, m_events, conn, undefined, leaked,
                   cancelled, lost>>

\* client_socket::connect answers; pg_connection's constructor counts.
Connected(d) ==
    /\ ~undefined
    /\ pc[d] = "connecting"
    /\ \E c \in Conns \ Live : conn' = [conn EXCEPT ![d] = c]
    /\ m_conn_count' = m_conn_count + 1
    /\ Goto(d, "init")
    /\ UNCHANGED <<m_idle, m_waiting, m_events, undefined, leaked, cancelled,
                   lost>>

\* client_socket::connect throws, or the client is destroyed meanwhile.
ConnectFails(d) ==
    /\ ~undefined
    /\ pc[d] = "connecting"
    /\ Goto(d, "idle")
    /\ lost' = TRUE
    /\ UNCHANGED <<m_conn_count, m_idle, m_waiting, m_events, conn, undefined,
                   leaked, cancelled>>

\* pg_connection::init ends and the connection is moved out to the caller.
InitDone(d) ==
    /\ ~undefined
    /\ pc[d] = "init"
    /\ Goto(d, "holding")
    /\ UNCHANGED <<m_conn_count, m_idle, m_waiting, m_events, conn, undefined,
                   leaked, cancelled, lost>>

\* ~pg_connection on an object that owns its socket.  Nobody is woken.
Destroy(d) ==
    /\ conn' = [conn EXCEPT ![d] = NoConn]
    /\ m_conn_count' = m_conn_count - 1
    /\ Goto(d, "idle")
    /\ lost' = TRUE

\* Mutant: the exception path keeps the count.
InitFails_keeps_count(d) ==
    /\ ~undefined
    /\ pc[d] = "init"
    /\ conn' = [conn EXCEPT ![d] = NoConn]
    /\ Goto(d, "idle")
    /\ lost' = TRUE
    /\ UNCHANGED <<m_conn_count, m_idle, m_waiting, m_events, undefined,
                   leaked, cancelled>>

\* init throws, or the client is destroyed meanwhile.
InitFails(d) ==
    /\ ~undefined
    /\ pc[d] = "init"
    /\ Destroy(d)
    /\ UNCHANGED <<m_idle, m_waiting, m_events, undefined, leaked, cancelled>>

\* A client that waits in line is destroyed, its callback with it; its id
\* stays in m_waiting, or in m_events.
CancelWait(d) ==
    LET Bury(s) == [i \in DOMAIN s |-> IF s[i] = d THEN Dead ELSE s[i]]
    IN  /\ ~undefined
        /\ pc[d] = "waiting"
        /\ Goto(d, "idle")
        /\ m_waiting' = Bury(m_waiting)
        /\ m_events' = Bury(m_events)
        /\ cancelled' = TRUE
        /\ UNCHANGED <<m_conn_count, m_idle, conn, undefined, leaked, lost>>

----------------------------------------------------------------------------
(* What a client does with its connection *)

\* Mutant: the last one in line is not woken.
WakeOne_skip ==
    IF Len(m_waiting) > 1
    THEN /\ m_events' = Append(m_events, Head(m_waiting))
         /\ m_waiting' = Tail(m_waiting)
    ELSE UNCHANGED <<m_waiting, m_events>>

\* Mutant: m_waiting.pop() is missing.
WakeOne_no_pop ==
    IF m_waiting # <<>>
    THEN m_events' = Append(m_events, Head(m_waiting)) /\ UNCHANGED m_waiting
    ELSE UNCHANGED <<m_waiting, m_events>>

\* The second half of release.
WakeOne ==
    IF m_waiting # <<>>
    THEN /\ m_events' = Append(m_events, Head(m_waiting))
         /\ m_waiting' = Tail(m_waiting)
    ELSE UNCHANGED <<m_waiting, m_events>>

release(d) ==
    /\ ~undefined
    /\ pc[d] = "holding"
    /\ m_idle' = Append(m_idle, conn[d])
    /\ conn' = [conn EXCEPT ![d] = NoConn]
    /\ Goto(d, "idle")
    /\ WakeOne
    /\ UNCHANGED <<m_conn_count, undefined, leaked, cancelled, lost>>

\* The client lets its pg_connection go out of scope without releasing it.
Drop(d) ==
    /\ ~undefined
    /\ pc[d] = "holding"
    /\ Destroy(d)
    /\ UNCHANGED <<m_idle, m_waiting, m_events, undefined, leaked, cancelled>>

\* pg_connection::operator=: e's connection is assigned to d's variable.
\* The socket d had is closed and not counted off.
Assign(d, e) ==
    /\ ~undefined
    /\ d # e
    /\ pc[d] = "holding"
    /\ pc[e] = "holding"
    /\ leaked < MaxLeaks
    /\ conn' = [conn EXCEPT ![d] = conn[e], ![e] = NoConn]
    /\ Goto(e, "idle")
    /\ leaked' = leaked + 1
    /\ lost' = TRUE
    /\ UNCHANGED <<m_conn_count, m_idle, m_waiting, m_events, undefined,
                   cancelled>>

----------------------------------------------------------------------------
(* The loop dispatches the pool's events *)

\* No callback has the id: the event is dropped.
WakeDead ==
    /\ ~undefined
    /\ m_events # <<>>
    /\ Head(m_events) = Dead
    /\ m_events' = Tail(m_events)
    /\ UNCHANGED <<m_conn_count, m_idle, m_waiting, pc, conn, undefined,
                   leaked, cancelled, lost>>

\* get_connection goes on after its co_await and takes the front of m_idle.
Wake ==
    /\ ~undefined
    /\ m_events # <<>>
    /\ Head(m_events) # Dead
    /\ m_events' = Tail(m_events)
    /\ IF m_idle # <<>>
       THEN TakeIdle(Head(m_events)) /\ UNCHANGED undefined
       ELSE undefined' = TRUE /\ UNCHANGED <<m_idle, pc, conn>>
    /\ UNCHANGED <<m_conn_count, m_waiting, leaked, cancelled, lost>>

ClientStep(d) ==
    \/ GetIdle(d) \/ GetNew(d) \/ GetInLine(d)
    \/ Connected(d) \/ ConnectFails(d)
    \/ InitDone(d) \/ InitFails(d)
    \/ CancelWait(d)
    \/ release(d) \/ Drop(d)
    \/ \E e \in Clients : Assign(d, e)

Next == (\E d \in Clients : ClientStep(d)) \/ Wake \/ WakeDead

Spec == Init /\ [][Next]_vars

\* The loop dispatches its events; a server that is connected to answers,
\* and a client that has a connection releases it at last.
Fairness ==
    /\ WF_vars(Wake \/ WakeDead)
    /\ \A d \in Clients : /\ WF_vars(Connected(d) \/ ConnectFails(d))
                          /\ WF_vars(InitDone(d) \/ InitFails(d))
                          /\ WF_vars(release(d) \/ Drop(d))

LiveSpec == Spec /\ Fairness

----------------------------------------------------------------------------
(* Properties *)

\* The counter the limit is checked against says how many sockets are open,
\* except for those that move assignment closes.
CountExact == m_conn_count = Cardinality(Live) + leaked

\* No connection is handed to two clients, and none is both idle and in use.
Exclusive ==
    /\ \A d, e \in Clients : d # e /\ conn[d] = conn[e] => conn[d] = NoConn
    /\ \A i, j \in DOMAIN m_idle : m_idle[i] = m_idle[j] => i = j
    /\ Held \cap Elems(m_idle) = {}

\* However far m_max_connections is exceeded, a client has at most one
\* connection or attempt at one to its account.
LiveBound ==
    Cardinality(Live) + Cardinality({d \in Clients : pc[d] = "connecting"})
        <= Cardinality(Clients)

\* A client that waits is in line or has its wakeup under way, once.
InLineOnce ==
    ~undefined => \A d \in Clients :
        Cardinality({i \in DOMAIN m_waiting : m_waiting[i] = d})
            + Cardinality({i \in DOMAIN m_events : m_events[i] = d})
        = IF pc[d] = "waiting" THEN 1 ELSE 0

\* While clients are in line, every idle connection has a wakeup under way,
\* unless a destroyed client's id has taken one.
NoStrandedWaiter ==
    ~cancelled /\ m_waiting # <<>> => Len(m_idle) <= Len(m_events)

\* A client in line is served, unless connections are lost or a client that
\* waits is destroyed: neither passes its turn on.
WaiterServed ==
    \A d \in Clients :
        pc[d] = "waiting" ~> pc[d] # "waiting" \/ undefined \/ lost \/ cancelled

\* The limit get_connection checks before it connects.
ConnLimit == m_conn_count <= m_max_connections

\* get_connection takes front() only of an m_idle that has one.
FrontExists == ~undefined

============================================================================
