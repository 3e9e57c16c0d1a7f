---------------------------- MODULE PgPoolProofs ----------------------------
(***************************************************************************)
(* Theorems about PgPool, for every number of clients and connections and  *)
(* every limit.                                                            *)
(***************************************************************************)
EXTENDS PgPool, FiniteSetTheorems, TLAPS

Ids == Clients \cup {Dead}

Types == /\ m_idle \in Seq(Conns)
         /\ m_waiting \in Seq(Ids)
         /\ m_events \in Seq(Ids)
         /\ pc \in [Clients -> States]
         /\ conn \in [Clients -> Conns \cup {NoConn}]
         /\ undefined \in BOOLEAN

\* The clients that have a connection are those in init or holding.
Having == \A d \in Clients : conn[d] # NoConn <=> pc[d] \in {"init", "holding"}

\* Who is in line waits, and is there once.
Lined(w, e, p) ==
    /\ \A i \in 1..Len(w) : w[i] # Dead => p[w[i]] = "waiting"
    /\ \A i \in 1..Len(e) : e[i] # Dead => p[e[i]] = "waiting"
    /\ \A i, j \in 1..Len(w) : w[i] = w[j] /\ w[i] # Dead => i = j
    /\ \A i, j \in 1..Len(e) : e[i] = e[j] /\ e[i] # Dead => i = j
    /\ \A i \in 1..Len(w), j \in 1..Len(e) : w[i] = e[j] => w[i] = Dead

\* Who waits is in line, or has its wakeup under way.
Placed(w, e, p) ==
    \A d \in Clients : p[d] = "waiting" =>
        (\E i \in 1..Len(w) : w[i] = d) \/ (\E i \in 1..Len(e) : e[i] = d)

\* No connection has two places among clients and m_idle.
Apart(idle, c) ==
    /\ \A d, e \in Clients : d # e /\ c[d] = c[e] => c[d] = NoConn
    /\ \A i, j \in 1..Len(idle) : idle[i] = idle[j] => i = j
    /\ \A d \in Clients, i \in 1..Len(idle) : c[d] # idle[i]

IndInv == /\ Types
          /\ Having
          /\ Lined(m_waiting, m_events, pc)
          /\ ~undefined => Placed(m_waiting, m_events, pc)
          /\ Apart(m_idle, conn)

----------------------------------------------------------------------------
(* Sequences *)

LEMMA HeadTail ==
  ASSUME NEW S, NEW s \in Seq(S), s # <<>>
  PROVE  /\ Tail(s) \in Seq(S)
         /\ Len(s) \in Nat \ {0} /\ Len(Tail(s)) = Len(s) - 1
         /\ Head(s) = s[1] /\ Head(s) \in S
         /\ \A i \in 1..Len(Tail(s)) : Tail(s)[i] = s[i + 1]
  OBVIOUS

LEMMA Appended ==
  ASSUME NEW S, NEW s \in Seq(S), NEW x \in S
  PROVE  /\ Append(s, x) \in Seq(S)
         /\ Len(s) \in Nat /\ Len(Append(s, x)) = Len(s) + 1
         /\ Append(s, x)[Len(s) + 1] = x
         /\ \A i \in 1..Len(s) : Append(s, x)[i] = s[i]
  OBVIOUS

LEMMA Indices ==
  ASSUME NEW S, NEW s \in Seq(S)
  PROVE  /\ DOMAIN s = 1..Len(s) /\ Len(s) \in Nat
         /\ \A i \in 1..Len(s) : s[i] \in S
  OBVIOUS

USE PgPoolAssumption

\* Destroying a client turns its ids to Dead and leaves the rest.
LEMMA Buried ==
  ASSUME NEW s \in Seq(Ids), NEW d \in Clients, NEW t,
         t = [i \in DOMAIN s |-> IF s[i] = d THEN Dead ELSE s[i]]
  PROVE  /\ t \in Seq(Ids) /\ Len(t) = Len(s)
         /\ \A i \in 1..Len(s) : t[i] = IF s[i] = d THEN Dead ELSE s[i]
  <1>1. DOMAIN s = 1..Len(s) /\ Len(s) \in Nat /\ \A i \in 1..Len(s) : s[i] \in Ids
    BY Indices
  <1>2. t \in [1..Len(s) -> Ids]
    BY <1>1 DEF Ids
  <1>3. t \in Seq(Ids) /\ Len(t) = Len(s)
    BY <1>1, <1>2
  <1> QED
    BY <1>1, <1>3

----------------------------------------------------------------------------
(* The line *)

\* A client that neither waits nor will leaves the line as it is.
LEMMA LineStays ==
  ASSUME Types, Lined(m_waiting, m_events, pc), Placed(m_waiting, m_events, pc),
         NEW d \in Clients, NEW s \in States, pc[d] # "waiting", s # "waiting",
         NEW p, p = [pc EXCEPT ![d] = s]
  PROVE  /\ p \in [Clients -> States]
         /\ Lined(m_waiting, m_events, p) /\ Placed(m_waiting, m_events, p)
  <1>1. p \in [Clients -> States] /\ p[d] = s /\ \A e \in Clients \ {d} : p[e] = pc[e]
    BY DEF Types
  <1>2. /\ \A i \in 1..Len(m_waiting) : m_waiting[i] \in Ids
        /\ \A i \in 1..Len(m_events) : m_events[i] \in Ids
    BY Indices DEF Types
  <1>3. Lined(m_waiting, m_events, p)
    BY <1>1, <1>2 DEF Lined, Ids
  <1>4. Placed(m_waiting, m_events, p)
    BY <1>1 DEF Placed
  <1> QED
    BY <1>1, <1>3, <1>4

\* A client that gets in line was not there.
LEMMA LineGrows ==
  ASSUME Types, Lined(m_waiting, m_events, pc), Placed(m_waiting, m_events, pc),
         NEW d \in Clients, pc[d] # "waiting",
         NEW p, p = [pc EXCEPT ![d] = "waiting"],
         NEW w, w = Append(m_waiting, d)
  PROVE  /\ p \in [Clients -> States] /\ w \in Seq(Ids)
         /\ Lined(w, m_events, p) /\ Placed(w, m_events, p)
  <1>1. /\ p \in [Clients -> States] /\ p[d] = "waiting"
        /\ \A e \in Clients \ {d} : p[e] = pc[e]
    BY DEF Types, States
  <1>2. /\ \A i \in 1..Len(m_waiting) : m_waiting[i] \in Ids
        /\ \A i \in 1..Len(m_events) : m_events[i] \in Ids
    BY Indices DEF Types
  <1>3. /\ w \in Seq(Ids) /\ Len(m_waiting) \in Nat /\ Len(w) = Len(m_waiting) + 1
        /\ w[Len(m_waiting) + 1] = d
        /\ \A i \in 1..Len(m_waiting) : w[i] = m_waiting[i]
    BY Appended DEF Types, Ids
  <1>4. /\ \A i \in 1..Len(m_waiting) : m_waiting[i] # d
        /\ \A i \in 1..Len(m_events) : m_events[i] # d
    BY DEF Lined
  <1>5. \A i \in 1..Len(w) : i \in 1..Len(m_waiting) \/ i = Len(m_waiting) + 1
    BY <1>3
  <1>6. Lined(w, m_events, p)
    BY <1>1, <1>2, <1>3, <1>4, <1>5 DEF Lined, Ids
  <1>7. Placed(w, m_events, p)
    <2> SUFFICES ASSUME NEW c \in Clients, p[c] = "waiting"
                 PROVE  (\E i \in 1..Len(w) : w[i] = c)
                            \/ (\E i \in 1..Len(m_events) : m_events[i] = c)
      BY DEF Placed
    <2>1. CASE c = d
      <3>1. Len(m_waiting) + 1 \in 1..Len(w)
        BY <1>3
      <3> QED
        BY <2>1, <1>3, <3>1
    <2>2. CASE c # d
      <3>1. pc[c] = "waiting"
        BY <1>1, <2>2
      <3>2. \A i \in 1..Len(m_waiting) : i \in 1..Len(w)
        BY <1>3
      <3> QED
        BY <3>1, <3>2, <1>3 DEF Placed
    <2> QED
      BY <2>1, <2>2
  <1> QED
    BY <1>1, <1>3, <1>6, <1>7

\* A wakeup moves the first in line.
LEMMA LineMoves ==
  ASSUME Types, NEW p, Lined(m_waiting, m_events, p), Placed(m_waiting, m_events, p),
         m_waiting # <<>>,
         NEW w, w = Tail(m_waiting), NEW e, e = Append(m_events, Head(m_waiting))
  PROVE  w \in Seq(Ids) /\ e \in Seq(Ids) /\ Lined(w, e, p) /\ Placed(w, e, p)
  <1> DEFINE m == Len(m_waiting)
             n == Len(m_events)
  <1>1. /\ w \in Seq(Ids) /\ m \in Nat \ {0} /\ Len(w) = m - 1
        /\ Head(m_waiting) = m_waiting[1] /\ m_waiting[1] \in Ids
        /\ \A i \in 1..Len(w) : w[i] = m_waiting[i + 1]
    BY HeadTail DEF Types
  <1>2. /\ e \in Seq(Ids) /\ n \in Nat /\ Len(e) = n + 1
        /\ e[n + 1] = m_waiting[1]
        /\ \A i \in 1..n : e[i] = m_events[i]
    BY <1>1, Appended DEF Types
  <1>3. 1 \in 1..m
    BY <1>1
  <1>4. \A i \in 1..Len(w) : i + 1 \in 1..m /\ i + 1 # 1
    BY <1>1
  <1>5. \A i \in 1..Len(e) : i \in 1..n \/ i = n + 1
    BY <1>2
  <1> HIDE DEF m, n
  <1>6. Lined(w, e, p)
    <2>1. \A i \in 1..Len(w) : w[i] # Dead => p[w[i]] = "waiting"
      BY <1>1, <1>4 DEF Lined, m
    <2>2. \A i \in 1..Len(e) : e[i] # Dead => p[e[i]] = "waiting"
      BY <1>2, <1>3, <1>5 DEF Lined, m, n
    <2>3. \A i, j \in 1..Len(w) : w[i] = w[j] /\ w[i] # Dead => i = j
      <3> SUFFICES ASSUME NEW i \in 1..Len(w), NEW j \in 1..Len(w), w[i] = w[j],
                          w[i] # Dead
                   PROVE  i = j
        OBVIOUS
      <3>1. i + 1 = j + 1
        BY <1>1, <1>4 DEF Lined, m
      <3> QED
        BY <3>1, <1>1
    <2>4. \A i, j \in 1..Len(e) : e[i] = e[j] /\ e[i] # Dead => i = j
      BY <1>2, <1>3, <1>5 DEF Lined, m, n
    <2>5. \A i \in 1..Len(w), j \in 1..Len(e) : w[i] = e[j] => w[i] = Dead
      <3> SUFFICES ASSUME NEW i \in 1..Len(w), NEW j \in 1..Len(e), w[i] = e[j],
                          w[i] # Dead
                   PROVE  FALSE
        OBVIOUS
      <3>1. CASE j \in 1..n
        BY <3>1, <1>1, <1>2, <1>4 DEF Lined, m, n
      <3>2. CASE j = n + 1
        BY <3>2, <1>1, <1>2, <1>3, <1>4 DEF Lined, m
      <3> QED
        BY <3>1, <3>2, <1>5
    <2> QED
      BY <2>1, <2>2, <2>3, <2>4, <2>5 DEF Lined
  <1>7. Placed(w, e, p)
    <2> SUFFICES ASSUME NEW d \in Clients, p[d] = "waiting"
                 PROVE  (\E i \in 1..Len(w) : w[i] = d) \/ (\E i \in 1..Len(e) : e[i] = d)
      BY DEF Placed
    <2>1. CASE \E i \in 1..n : m_events[i] = d
      <3>1. \A i \in 1..n : i \in 1..Len(e)
        BY <1>2
      <3> QED
        BY <2>1, <3>1, <1>2
    <2>2. CASE m_waiting[1] = d
      <3>1. n + 1 \in 1..Len(e)
        BY <1>2
      <3> QED
        BY <2>2, <3>1, <1>2
    <2>3. ASSUME NEW i \in 1..m, m_waiting[i] = d, i # 1
          PROVE  \E k \in 1..Len(w) : w[k] = d
      <3>1. i - 1 \in 1..Len(w) /\ (i - 1) + 1 = i
        BY <2>3, <1>1
      <3> QED
        BY <2>3, <3>1, <1>1
    <2> QED
      BY <2>1, <2>2, <2>3 DEF Placed, m, n
  <1> QED
    BY <1>1, <1>2, <1>6, <1>7

\* The first wakeup is dropped from m_events; the others stay.
LEMMA LineShrinks ==
  ASSUME Types, Lined(m_waiting, m_events, pc), m_events # <<>>,
         NEW e, e = Tail(m_events)
  PROVE  /\ e \in Seq(Ids) /\ Head(m_events) \in Ids
         /\ Lined(m_waiting, e, pc)
         /\ Head(m_events) # Dead =>
                /\ pc[Head(m_events)] = "waiting"
                /\ \A i \in 1..Len(e) : e[i] # Head(m_events)
                /\ \A i \in 1..Len(m_waiting) : m_waiting[i] # Head(m_events)
         /\ \A d \in Ids : (\E i \in 1..Len(m_events) : m_events[i] = d) =>
                d = Head(m_events) \/ (\E i \in 1..Len(e) : e[i] = d)
  <1> DEFINE n == Len(m_events)
  <1>1. /\ e \in Seq(Ids) /\ n \in Nat \ {0} /\ Len(e) = n - 1
        /\ Head(m_events) = m_events[1] /\ m_events[1] \in Ids
        /\ \A i \in 1..Len(e) : e[i] = m_events[i + 1]
    BY HeadTail DEF Types
  <1>2. 1 \in 1..n
    BY <1>1
  <1>3. \A i \in 1..Len(e) : i + 1 \in 1..n /\ i + 1 # 1
    BY <1>1
  <1>4. \A i, j \in 1..Len(e) : i + 1 = j + 1 => i = j
    BY <1>1
  <1>5. \A i \in 1..n : i = 1 \/ (i - 1 \in 1..Len(e) /\ (i - 1) + 1 = i)
    BY <1>1
  <1> HIDE DEF n
  <1>6. Lined(m_waiting, e, pc)
    BY <1>1, <1>3, <1>4 DEF Lined, n
  <1>7. Head(m_events) # Dead =>
            /\ pc[Head(m_events)] = "waiting"
            /\ \A i \in 1..Len(e) : e[i] # Head(m_events)
            /\ \A i \in 1..Len(m_waiting) : m_waiting[i] # Head(m_events)
    BY <1>1, <1>2, <1>3 DEF Lined, n
  <1>8. \A d \in Ids : (\E i \in 1..Len(m_events) : m_events[i] = d) =>
            d = Head(m_events) \/ (\E i \in 1..Len(e) : e[i] = d)
    BY <1>1, <1>5 DEF n
  <1> QED
    BY <1>1, <1>6, <1>7, <1>8

\* A client that waits is destroyed, or woken: only its own ids are touched.
LEMMA LineBuries ==
  ASSUME Types, Lined(m_waiting, m_events, pc), Placed(m_waiting, m_events, pc),
         NEW d \in Clients, NEW p, p = [pc EXCEPT ![d] = "idle"],
         NEW w, w = [i \in DOMAIN m_waiting |->
                        IF m_waiting[i] = d THEN Dead ELSE m_waiting[i]],
         NEW e, e = [i \in DOMAIN m_events |->
                        IF m_events[i] = d THEN Dead ELSE m_events[i]]
  PROVE  /\ p \in [Clients -> States] /\ w \in Seq(Ids) /\ e \in Seq(Ids)
         /\ Lined(w, e, p) /\ Placed(w, e, p)
  <1>1. /\ p \in [Clients -> States] /\ p[d] = "idle"
        /\ \A c \in Clients \ {d} : p[c] = pc[c]
    BY DEF Types, States
  <1>2. /\ w \in Seq(Ids) /\ Len(w) = Len(m_waiting)
        /\ \A i \in 1..Len(m_waiting) :
               w[i] = IF m_waiting[i] = d THEN Dead ELSE m_waiting[i]
    BY Buried DEF Types
  <1>3. /\ e \in Seq(Ids) /\ Len(e) = Len(m_events)
        /\ \A i \in 1..Len(m_events) :
               e[i] = IF m_events[i] = d THEN Dead ELSE m_events[i]
    BY Buried DEF Types
  <1>4. /\ \A i \in 1..Len(m_waiting) : m_waiting[i] \in Ids
        /\ \A i \in 1..Len(m_events) : m_events[i] \in Ids
    BY Indices DEF Types
  <1>5. Lined(w, e, p)
    BY <1>1, <1>2, <1>3, <1>4 DEF Lined, Ids
  <1>6. Placed(w, e, p)
    <2> SUFFICES ASSUME NEW c \in Clients, p[c] = "waiting"
                 PROVE  (\E i \in 1..Len(w) : w[i] = c) \/ (\E i \in 1..Len(e) : e[i] = c)
      BY DEF Placed
    <2>1. c # d /\ pc[c] = "waiting"
      BY <1>1
    <2>2. CASE \E i \in 1..Len(m_waiting) : m_waiting[i] = c
      BY <2>1, <2>2, <1>2
    <2>3. CASE \E i \in 1..Len(m_events) : m_events[i] = c
      BY <2>1, <2>3, <1>3
    <2> QED
      BY <2>1, <2>2, <2>3 DEF Placed
  <1> QED
    BY <1>1, <1>2, <1>3, <1>5, <1>6

----------------------------------------------------------------------------
(* The connections *)

\* The first idle connection goes to a client that has none.
LEMMA TakesFirst ==
  ASSUME Types, Having, Apart(m_idle, conn), NEW d \in Clients, m_idle # <<>>,
         conn[d] = NoConn, TakeIdle(d)
  PROVE  /\ m_idle' \in Seq(Conns)
         /\ conn' \in [Clients -> Conns \cup {NoConn}]
         /\ Having' /\ Apart(m_idle', conn')
  <1>1. /\ m_idle' \in Seq(Conns)
        /\ Len(m_idle) \in Nat \ {0} /\ Len(m_idle') = Len(m_idle) - 1
        /\ Head(m_idle) = m_idle[1] /\ m_idle[1] \in Conns
        /\ \A i \in 1..Len(m_idle') : m_idle'[i] = m_idle[i + 1]
    BY HeadTail DEF Types, TakeIdle
  <1>2. /\ conn' \in [Clients -> Conns \cup {NoConn}]
        /\ conn'[d] = m_idle[1] /\ \A c \in Clients \ {d} : conn'[c] = conn[c]
    BY <1>1 DEF Types, TakeIdle
  <1>3. pc'[d] = "holding" /\ \A c \in Clients \ {d} : pc'[c] = pc[c]
    BY DEF Types, TakeIdle, Goto
  <1>4. 1 \in 1..Len(m_idle)
    BY <1>1
  <1>5. \A i \in 1..Len(m_idle') : i + 1 \in 1..Len(m_idle) /\ i + 1 # 1
    BY <1>1
  <1>6. \A i, j \in 1..Len(m_idle') : i + 1 = j + 1 => i = j
    BY <1>1
  <1>7. Having'
    BY <1>1, <1>2, <1>3 DEF Having
  <1>8. Apart(m_idle', conn')
    BY <1>1, <1>2, <1>4, <1>5, <1>6 DEF Apart
  <1> QED
    BY <1>1, <1>2, <1>7, <1>8

\* A client's connection goes to the end of m_idle.
LEMMA PutsLast ==
  ASSUME Types, Having, Apart(m_idle, conn), NEW d \in Clients, pc[d] = "holding",
         Goto(d, "idle"), m_idle' = Append(m_idle, conn[d]),
         conn' = [conn EXCEPT ![d] = NoConn]
  PROVE  /\ m_idle' \in Seq(Conns)
         /\ conn' \in [Clients -> Conns \cup {NoConn}]
         /\ Having' /\ Apart(m_idle', conn')
  <1>1. conn[d] \in Conns
    BY DEF Types, Having
  <1>2. /\ m_idle' \in Seq(Conns)
        /\ Len(m_idle) \in Nat /\ Len(m_idle') = Len(m_idle) + 1
        /\ m_idle'[Len(m_idle) + 1] = conn[d]
        /\ \A i \in 1..Len(m_idle) : m_idle'[i] = m_idle[i]
    BY <1>1, Appended DEF Types
  <1>3. /\ conn' \in [Clients -> Conns \cup {NoConn}]
        /\ conn'[d] = NoConn /\ \A c \in Clients \ {d} : conn'[c] = conn[c]
    BY DEF Types
  <1>4. pc'[d] = "idle" /\ \A c \in Clients \ {d} : pc'[c] = pc[c]
    BY DEF Types, Goto
  <1>5. \A i \in 1..Len(m_idle') : i \in 1..Len(m_idle) \/ i = Len(m_idle) + 1
    BY <1>2
  <1>6. \A i \in 1..Len(m_idle) : m_idle[i] \in Conns
    BY Indices DEF Types
  <1>7. Having'
    BY <1>3, <1>4 DEF Having
  <1>8. Apart(m_idle', conn')
    BY <1>1, <1>2, <1>3, <1>5, <1>6 DEF Apart
  <1> QED
    BY <1>2, <1>3, <1>7, <1>8

\* A client loses its connection for good.
LEMMA Loses ==
  ASSUME Types, Having, Apart(m_idle, conn), NEW d \in Clients, Destroy(d)
  PROVE  /\ conn' \in [Clients -> Conns \cup {NoConn}]
         /\ Having' /\ Apart(m_idle, conn')
  <1>1. /\ conn' \in [Clients -> Conns \cup {NoConn}]
        /\ conn'[d] = NoConn /\ \A c \in Clients \ {d} : conn'[c] = conn[c]
    BY DEF Types, Destroy
  <1>2. pc'[d] = "idle" /\ \A c \in Clients \ {d} : pc'[c] = pc[c]
    BY DEF Types, Destroy, Goto
  <1>3. \A i \in 1..Len(m_idle) : m_idle[i] \in Conns
    BY Indices DEF Types
  <1> QED
    BY <1>1, <1>2, <1>3 DEF Having, Apart

\* A step that leaves the connections alone and does not take a client into or
\* out of init and holding.
LEMMA KeepsHaving ==
  ASSUME Types, Having, NEW d \in Clients, NEW s, Goto(d, s), UNCHANGED conn,
         pc[d] \in {"init", "holding"} <=> s \in {"init", "holding"}
  PROVE  Having'
  BY DEF Types, Having, Goto

----------------------------------------------------------------------------
(* The invariant is inductive *)

LEMMA InitIndInv == Init => IndInv
  <1> SUFFICES ASSUME Init PROVE IndInv
    OBVIOUS
  <1>1. Types
    <2>1. m_idle \in Seq(Conns) /\ m_waiting \in Seq(Ids) /\ m_events \in Seq(Ids)
      BY DEF Init
    <2>2. pc \in [Clients -> States] /\ conn \in [Clients -> Conns \cup {NoConn}]
      BY DEF Init, States
    <2>3. undefined \in BOOLEAN
      BY DEF Init
    <2> QED
      BY <2>1, <2>2, <2>3 DEF Types
  <1>2. Having
    BY DEF Init, Having
  <1>3. Len(m_idle) = 0 /\ Len(m_waiting) = 0 /\ Len(m_events) = 0
    BY DEF Init
  <1>4. Lined(m_waiting, m_events, pc) /\ Placed(m_waiting, m_events, pc)
    BY <1>3 DEF Init, Lined, Placed
  <1>5. Apart(m_idle, conn)
    BY <1>3 DEF Init, Apart
  <1> QED
    BY <1>1, <1>2, <1>4, <1>5 DEF IndInv

LEMMA ClientStepIndInv ==
  ASSUME IndInv, NEW d \in Clients, ClientStep(d)
  PROVE  IndInv'
  <1> USE DEF IndInv
  <1>0. ~undefined /\ undefined' = undefined
    BY DEF ClientStep, GetIdle, GetNew, GetInLine, Connected, ConnectFails, InitDone,
           InitFails, CancelWait, release, Drop, Assign
  <1>1. CASE GetIdle(d)
    <2>1. conn[d] = NoConn /\ TakeIdle(d) /\ m_idle # <<>> /\ pc[d] = "idle"
      BY <1>1 DEF GetIdle, Having
    <2>2. /\ m_idle' \in Seq(Conns) /\ conn' \in [Clients -> Conns \cup {NoConn}]
          /\ Having' /\ Apart(m_idle', conn')
      BY <2>1, TakesFirst
    <2>3. /\ pc' \in [Clients -> States]
          /\ Lined(m_waiting, m_events, pc') /\ Placed(m_waiting, m_events, pc')
      BY <1>0, <2>1, LineStays DEF TakeIdle, Goto, States
    <2> QED
      BY <1>0, <1>1, <2>2, <2>3 DEF GetIdle, Types
  <1>2. CASE GetNew(d) \/ ConnectFails(d) \/ InitDone(d)
    <2>1. PICK s \in States : /\ Goto(d, s) /\ s # "waiting" /\ pc[d] # "waiting"
                              /\ pc[d] \in {"init", "holding"} <=> s \in {"init", "holding"}
      BY <1>2 DEF GetNew, ConnectFails, InitDone, States
    <2>2. UNCHANGED <<conn, m_idle, m_waiting, m_events>>
      BY <1>2 DEF GetNew, ConnectFails, InitDone
    <2>3. Having'
      BY <2>1, <2>2, KeepsHaving
    <2>4. /\ pc' \in [Clients -> States]
          /\ Lined(m_waiting, m_events, pc') /\ Placed(m_waiting, m_events, pc')
      BY <1>0, <2>1, LineStays DEF Goto
    <2> QED
      BY <1>0, <2>2, <2>3, <2>4 DEF Types
  <1>3. CASE GetInLine(d)
    <2>1. pc[d] = "idle" /\ Goto(d, "waiting") /\ m_waiting' = Append(m_waiting, d)
      BY <1>3 DEF GetInLine
    <2>2. UNCHANGED <<conn, m_idle, m_events>>
      BY <1>3 DEF GetInLine
    <2>3. Having'
      BY <2>1, <2>2, KeepsHaving
    <2>4. /\ pc' \in [Clients -> States] /\ m_waiting' \in Seq(Ids)
          /\ Lined(m_waiting', m_events, pc') /\ Placed(m_waiting', m_events, pc')
      BY <1>0, <2>1, LineGrows DEF Goto
    <2> QED
      BY <1>0, <2>2, <2>3, <2>4 DEF Types
  <1>4. CASE Connected(d)
    <2>1. PICK c \in Conns \ Live : conn' = [conn EXCEPT ![d] = c]
      BY <1>4 DEF Connected
    <2>2. pc[d] = "connecting" /\ Goto(d, "init") /\ UNCHANGED <<m_idle, m_waiting, m_events>>
      BY <1>4 DEF Connected
    <2>3. /\ conn' \in [Clients -> Conns \cup {NoConn}]
          /\ conn'[d] = c /\ \A e \in Clients \ {d} : conn'[e] = conn[e]
      BY <2>1 DEF Types
    <2>4. pc'[d] = "init" /\ \A e \in Clients \ {d} : pc'[e] = pc[e]
      BY <2>2 DEF Types, Goto
    <2>5. Having'
      BY <2>1, <2>3, <2>4 DEF Having
    <2>6. (\A e \in Clients : conn[e] # c) /\ (\A i \in 1..Len(m_idle) : m_idle[i] # c)
      BY <2>1 DEF Live, Held, Elems
    <2>7. Apart(m_idle, conn')
      BY <2>3, <2>6 DEF Apart
    <2>8. /\ pc' \in [Clients -> States]
          /\ Lined(m_waiting, m_events, pc') /\ Placed(m_waiting, m_events, pc')
      BY <1>0, <2>2, LineStays DEF Goto, States
    <2> QED
      BY <1>0, <2>2, <2>3, <2>5, <2>7, <2>8 DEF Types
  <1>5. CASE InitFails(d) \/ Drop(d)
    <2>1. pc[d] # "waiting" /\ Destroy(d) /\ UNCHANGED <<m_idle, m_waiting, m_events>>
      BY <1>5 DEF InitFails, Drop
    <2>2. /\ conn' \in [Clients -> Conns \cup {NoConn}]
          /\ Having' /\ Apart(m_idle, conn')
      BY <2>1, Loses
    <2>3. /\ pc' \in [Clients -> States]
          /\ Lined(m_waiting, m_events, pc') /\ Placed(m_waiting, m_events, pc')
      BY <1>0, <2>1, LineStays DEF Destroy, Goto, States
    <2> QED
      BY <1>0, <2>1, <2>2, <2>3 DEF Types
  <1>6. CASE CancelWait(d)
    <2>1. pc[d] = "waiting" /\ Goto(d, "idle") /\ UNCHANGED <<conn, m_idle>>
      BY <1>6 DEF CancelWait
    <2>2. Having'
      BY <2>1, KeepsHaving
    <2>3. /\ pc' \in [Clients -> States] /\ m_waiting' \in Seq(Ids) /\ m_events' \in Seq(Ids)
          /\ Lined(m_waiting', m_events', pc') /\ Placed(m_waiting', m_events', pc')
      BY <1>0, <1>6, LineBuries DEF CancelWait, Goto
    <2> QED
      BY <1>0, <2>1, <2>2, <2>3 DEF Types
  <1>7. CASE release(d)
    <2>1. /\ pc[d] = "holding" /\ Goto(d, "idle") /\ WakeOne
          /\ m_idle' = Append(m_idle, conn[d]) /\ conn' = [conn EXCEPT ![d] = NoConn]
      BY <1>7 DEF release
    <2>2. /\ m_idle' \in Seq(Conns) /\ conn' \in [Clients -> Conns \cup {NoConn}]
          /\ Having' /\ Apart(m_idle', conn')
      BY <2>1, PutsLast
    <2>3. /\ pc' \in [Clients -> States]
          /\ Lined(m_waiting, m_events, pc') /\ Placed(m_waiting, m_events, pc')
      BY <1>0, <2>1, LineStays DEF Goto, States
    <2>4. /\ m_waiting' \in Seq(Ids) /\ m_events' \in Seq(Ids)
          /\ Lined(m_waiting', m_events', pc') /\ Placed(m_waiting', m_events', pc')
      <3>1. CASE m_waiting # <<>>
        BY <2>1, <2>3, <3>1, LineMoves DEF WakeOne
      <3>2. CASE m_waiting = <<>>
        BY <2>1, <2>3, <3>2 DEF WakeOne, Types
      <3> QED
        BY <3>1, <3>2
    <2> QED
      BY <1>0, <2>2, <2>3, <2>4 DEF Types
  <1>8. ASSUME NEW e \in Clients, Assign(d, e)
        PROVE  IndInv'
    <2>1. /\ d # e /\ pc[d] = "holding" /\ pc[e] = "holding" /\ Goto(e, "idle")
          /\ conn' = [conn EXCEPT ![d] = conn[e], ![e] = NoConn]
          /\ UNCHANGED <<m_idle, m_waiting, m_events>>
      BY <1>8 DEF Assign
    <2>2. /\ conn' \in [Clients -> Conns \cup {NoConn}]
          /\ conn'[d] = conn[e] /\ conn'[e] = NoConn
          /\ \A c \in Clients \ {d, e} : conn'[c] = conn[c]
      BY <2>1 DEF Types
    <2>3. pc'[e] = "idle" /\ \A c \in Clients \ {e} : pc'[c] = pc[c]
      BY <2>1 DEF Types, Goto
    <2>4. Having'
      BY <2>1, <2>2, <2>3 DEF Having
    <2>5. \A i \in 1..Len(m_idle) : m_idle[i] \in Conns
      BY Indices DEF Types
    <2>6. Apart(m_idle, conn')
      BY <2>1, <2>2, <2>5 DEF Apart
    <2>7. /\ pc' \in [Clients -> States]
          /\ Lined(m_waiting, m_events, pc') /\ Placed(m_waiting, m_events, pc')
      BY <1>0, <2>1, LineStays DEF Goto, States
    <2> QED
      BY <1>0, <2>1, <2>2, <2>4, <2>6, <2>7 DEF Types
  <1> QED
    BY <1>1, <1>2, <1>3, <1>4, <1>5, <1>6, <1>7, <1>8 DEF ClientStep

LEMMA WakeIndInv ==
  ASSUME IndInv, Wake \/ WakeDead
  PROVE  IndInv'
  <1> USE DEF IndInv
  <1>0. ~undefined /\ m_events # <<>> /\ m_events' = Tail(m_events) /\ UNCHANGED m_waiting
    BY DEF Wake, WakeDead
  <1> DEFINE h == Head(m_events)
  <1>1. /\ m_events' \in Seq(Ids) /\ h \in Ids
        /\ Lined(m_waiting, m_events', pc)
        /\ h # Dead => /\ pc[h] = "waiting"
                       /\ \A i \in 1..Len(m_events') : m_events'[i] # h
                       /\ \A i \in 1..Len(m_waiting) : m_waiting[i] # h
        /\ \A d \in Ids : (\E i \in 1..Len(m_events) : m_events[i] = d) =>
               d = h \/ (\E i \in 1..Len(m_events') : m_events'[i] = d)
    BY <1>0, LineShrinks
  <1>2. \A d \in Clients \ {h} : pc[d] = "waiting" =>
            \/ \E i \in 1..Len(m_waiting) : m_waiting[i] = d
            \/ \E i \in 1..Len(m_events') : m_events'[i] = d
    BY <1>0, <1>1 DEF Placed, Ids
  <1> HIDE DEF h
  <1>3. CASE WakeDead
    <2>1. h = Dead /\ UNCHANGED <<pc, conn, m_idle, undefined>>
      BY <1>3 DEF WakeDead, h
    <2>2. Placed(m_waiting, m_events', pc)
      BY <1>2, <2>1 DEF Placed
    <2> QED
      BY <1>0, <1>1, <2>1, <2>2 DEF Types, Having
  <1>4. CASE Wake /\ m_idle = <<>>
    <2>1. undefined' = TRUE /\ UNCHANGED <<m_idle, pc, conn>>
      BY <1>4 DEF Wake
    <2> QED
      BY <1>0, <1>1, <2>1 DEF Types, Having
  <1>5. CASE Wake /\ m_idle # <<>>
    <2>1. h # Dead /\ TakeIdle(h) /\ UNCHANGED undefined /\ m_idle # <<>>
      BY <1>5 DEF Wake, h
    <2>2. h \in Clients /\ conn[h] = NoConn
      BY <1>1, <2>1 DEF Ids, Having
    <2>3. /\ m_idle' \in Seq(Conns) /\ conn' \in [Clients -> Conns \cup {NoConn}]
          /\ Having' /\ Apart(m_idle', conn')
      BY <2>1, <2>2, TakesFirst
    <2>4. /\ pc' \in [Clients -> States] /\ pc'[h] = "holding"
          /\ \A d \in Clients \ {h} : pc'[d] = pc[d]
      BY <2>1, <2>2 DEF TakeIdle, Goto, Types, States
    <2>5. /\ \A i \in 1..Len(m_waiting) : m_waiting[i] \in Ids
          /\ \A i \in 1..Len(m_events') : m_events'[i] \in Ids
      BY <1>1, Indices DEF Types
    <2>6. Lined(m_waiting, m_events', pc')
      BY <1>1, <2>1, <2>4, <2>5 DEF Lined, Ids
    <2>7. Placed(m_waiting, m_events', pc')
      BY <1>2, <2>4 DEF Placed
    <2> QED
      BY <1>0, <1>1, <2>1, <2>3, <2>4, <2>6, <2>7 DEF Types
  <1> QED
    BY <1>3, <1>4, <1>5

LEMMA StutterIndInv ==
  ASSUME IndInv, UNCHANGED vars
  PROVE  IndInv'
  BY DEF IndInv, Types, Having, vars

\* The pool's bookkeeping, from which the properties below follow.
THEOREM Inductive == Spec => []IndInv
  <1>1. IndInv /\ [Next]_vars => IndInv'
    BY ClientStepIndInv, WakeIndInv, StutterIndInv DEF Next
  <1> QED
    BY InitIndInv, <1>1, PTL DEF Spec

----------------------------------------------------------------------------
(* Theorems *)

\* No connection is handed to two clients, and none is both idle and in use,
\* whatever fails, is dropped, is assigned or is destroyed, and however far
\* get_connection exceeds the limit.
THEOREM NeverShared == Spec => []Exclusive
  <1>1. ASSUME IndInv PROVE Exclusive
    <2>1. Apart(m_idle, conn) /\ DOMAIN m_idle = 1..Len(m_idle)
      BY <1>1, Indices DEF IndInv, Types
    <2> QED
      BY <2>1 DEF Apart, Exclusive, Held, Elems
  <1> QED
    BY <1>1, Inductive, PTL

\* How often an id occurs in a sequence that has it at most once.
LEMMA Occurrences ==
  ASSUME NEW s \in Seq(Ids), NEW d,
         \A i, j \in 1..Len(s) : s[i] = d /\ s[j] = d => i = j
  PROVE  Cardinality({i \in DOMAIN s : s[i] = d})
             = IF \E i \in 1..Len(s) : s[i] = d THEN 1 ELSE 0
  <1>1. DOMAIN s = 1..Len(s)
    BY Indices
  <1>2. CASE \E i \in 1..Len(s) : s[i] = d
    <2>1. PICK k \in 1..Len(s) : s[k] = d
      BY <1>2
    <2>2. {i \in DOMAIN s : s[i] = d} = {k}
      BY <1>1, <2>1
    <2>3. Cardinality({k}) = 1
      BY FS_Singleton
    <2> QED
      BY <1>2, <2>2, <2>3
  <1>3. CASE ~\E i \in 1..Len(s) : s[i] = d
    <2>1. {i \in DOMAIN s : s[i] = d} = {}
      BY <1>1, <1>3
    <2>2. Cardinality({}) = 0
      BY FS_EmptySet
    <2> QED
      BY <1>3, <2>1, <2>2
  <1> QED
    BY <1>2, <1>3

\* A client that waits in get_connection is in m_waiting or has its wakeup under
\* way, once, and no other is: no wakeup is lost or given twice.
THEOREM AlwaysInLine == Spec => []InLineOnce
  <1>1. ASSUME IndInv PROVE InLineOnce
    <2> SUFFICES ASSUME ~undefined, NEW d \in Clients
                 PROVE  Cardinality({i \in DOMAIN m_waiting : m_waiting[i] = d})
                            + Cardinality({i \in DOMAIN m_events : m_events[i] = d})
                        = IF pc[d] = "waiting" THEN 1 ELSE 0
      BY DEF InLineOnce
    <2> DEFINE inW == \E i \in 1..Len(m_waiting) : m_waiting[i] = d
               inE == \E i \in 1..Len(m_events) : m_events[i] = d
    <2>1. /\ Types /\ Lined(m_waiting, m_events, pc) /\ Placed(m_waiting, m_events, pc)
          /\ d # Dead
      BY <1>1 DEF IndInv
    <2>2. Cardinality({i \in DOMAIN m_waiting : m_waiting[i] = d}) = IF inW THEN 1 ELSE 0
      <3>1. m_waiting \in Seq(Ids)
            /\ \A i, j \in 1..Len(m_waiting) : m_waiting[i] = d /\ m_waiting[j] = d => i = j
        BY <2>1 DEF Types, Lined
      <3> QED
        BY <3>1, Occurrences, Zenon
    <2>3. Cardinality({i \in DOMAIN m_events : m_events[i] = d}) = IF inE THEN 1 ELSE 0
      <3>1. m_events \in Seq(Ids)
            /\ \A i, j \in 1..Len(m_events) : m_events[i] = d /\ m_events[j] = d => i = j
        BY <2>1 DEF Types, Lined
      <3> QED
        BY <3>1, Occurrences, Zenon
    <2>4. /\ ~(inW /\ inE) /\ (inW \/ inE => pc[d] = "waiting")
          /\ (pc[d] = "waiting" => inW \/ inE)
      BY <2>1 DEF Lined, Placed
    <2> HIDE DEF inW, inE
    <2> QED
      BY <2>2, <2>3, <2>4
  <1> QED
    BY <1>1, Inductive, PTL

----------------------------------------------------------------------------
(* No idle connection is kept from the line *)

\* Without cancellations there is no Dead id to use a wakeup up.
Turns == /\ ~cancelled =>
                /\ \A i \in 1..Len(m_waiting) : m_waiting[i] # Dead
                /\ \A i \in 1..Len(m_events) : m_events[i] # Dead
         /\ NoStrandedWaiter

LEMMA TurnsStep ==
  ASSUME IndInv, Turns, [Next]_vars
  PROVE  Turns'
  <1>1. /\ m_idle \in Seq(Conns) /\ m_waiting \in Seq(Ids) /\ m_events \in Seq(Ids)
        /\ Len(m_idle) \in Nat /\ Len(m_waiting) \in Nat /\ Len(m_events) \in Nat
    BY Indices DEF IndInv, Types
  <1>2. ASSUME UNCHANGED <<m_waiting, m_events, cancelled>>,
               m_idle' = m_idle \/ (m_idle # <<>> /\ m_idle' = Tail(m_idle))
        PROVE  Turns'
    <2>1. Len(m_idle') <= Len(m_idle) /\ Len(m_idle') \in Nat
      BY <1>1, <1>2, HeadTail
    <2> QED
      BY <1>1, <1>2, <2>1 DEF Turns, NoStrandedWaiter
  <1>3. ASSUME NEW d \in Clients, GetInLine(d) PROVE Turns'
    <2>1. /\ m_idle' = <<>> /\ m_waiting' = Append(m_waiting, d)
          /\ UNCHANGED <<m_events, cancelled>>
      BY <1>3 DEF GetInLine
    <2>2. /\ Len(m_waiting') = Len(m_waiting) + 1 /\ m_waiting'[Len(m_waiting) + 1] = d
          /\ \A i \in 1..Len(m_waiting) : m_waiting'[i] = m_waiting[i]
      BY <1>1, <2>1, Appended DEF Ids
    <2>3. \A i \in 1..Len(m_waiting') : i \in 1..Len(m_waiting) \/ i = Len(m_waiting) + 1
      BY <1>1, <2>2
    <2>4. Len(m_idle') = 0 /\ d # Dead
      BY <2>1
    <2> QED
      BY <1>1, <2>1, <2>2, <2>3, <2>4 DEF Turns, NoStrandedWaiter
  <1>4. ASSUME NEW d \in Clients, CancelWait(d) PROVE Turns'
    BY <1>4 DEF CancelWait, Turns, NoStrandedWaiter
  <1>5. ASSUME NEW d \in Clients, release(d) PROVE Turns'
    <2>1. m_idle' = Append(m_idle, conn[d]) /\ WakeOne /\ UNCHANGED cancelled
      BY <1>5 DEF release
    <2>2. conn[d] \in Conns
      BY <1>5 DEF release, IndInv, Types, Having
    <2>3. Len(m_idle') = Len(m_idle) + 1
      BY <1>1, <2>1, <2>2, Appended
    <2>4. CASE m_waiting # <<>>
      <3>1. m_events' = Append(m_events, Head(m_waiting)) /\ m_waiting' = Tail(m_waiting)
        BY <2>1, <2>4 DEF WakeOne
      <3>2. /\ Len(m_waiting) \in Nat \ {0} /\ Len(m_waiting') = Len(m_waiting) - 1
            /\ Head(m_waiting) = m_waiting[1] /\ Head(m_waiting) \in Ids
            /\ \A i \in 1..Len(m_waiting') : m_waiting'[i] = m_waiting[i + 1]
        BY <1>1, <2>4, <3>1, HeadTail
      <3>3. /\ Len(m_events') = Len(m_events) + 1
            /\ m_events'[Len(m_events) + 1] = m_waiting[1]
            /\ \A i \in 1..Len(m_events) : m_events'[i] = m_events[i]
        BY <1>1, <3>1, <3>2, Appended
      <3>4. /\ 1 \in 1..Len(m_waiting)
            /\ \A i \in 1..Len(m_waiting') : i + 1 \in 1..Len(m_waiting)
            /\ \A i \in 1..Len(m_events') : i \in 1..Len(m_events) \/ i = Len(m_events) + 1
        BY <1>1, <3>2, <3>3
      <3>5. ~cancelled' => Len(m_idle') <= Len(m_events')
        BY <1>1, <2>1, <2>3, <2>4, <3>3 DEF Turns, NoStrandedWaiter
      <3>6. ~cancelled' => /\ \A i \in 1..Len(m_waiting') : m_waiting'[i] # Dead
                           /\ \A i \in 1..Len(m_events') : m_events'[i] # Dead
        BY <2>1, <3>2, <3>3, <3>4 DEF Turns
      <3> QED
        BY <3>5, <3>6 DEF Turns, NoStrandedWaiter
    <2>5. CASE m_waiting = <<>>
      BY <2>1, <2>5 DEF WakeOne, Turns, NoStrandedWaiter
    <2> QED
      BY <2>4, <2>5
  <1>6. ASSUME Wake \/ WakeDead PROVE Turns'
    <2>1. /\ m_events # <<>> /\ m_events' = Tail(m_events)
          /\ UNCHANGED <<m_waiting, cancelled>>
      BY <1>6 DEF Wake, WakeDead
    <2>2. /\ Len(m_events) \in Nat \ {0} /\ Len(m_events') = Len(m_events) - 1
          /\ Head(m_events) = m_events[1]
          /\ \A i \in 1..Len(m_events') : m_events'[i] = m_events[i + 1]
      BY <1>1, <2>1, HeadTail
    <2>3. 1 \in 1..Len(m_events) /\ \A i \in 1..Len(m_events') : i + 1 \in 1..Len(m_events)
      BY <2>2
    <2>4. ~cancelled => Wake
      BY <1>6, <2>2, <2>3 DEF Turns, WakeDead
    <2>5. Wake => \/ m_idle = <<>> /\ m_idle' = m_idle
                  \/ m_idle # <<>> /\ m_idle' = Tail(m_idle)
      BY DEF Wake, TakeIdle
    <2>6. Wake => Len(m_idle') = 0 \/ Len(m_idle') = Len(m_idle) - 1
      BY <1>1, <2>5, HeadTail
    <2>7. ~cancelled' => /\ \A i \in 1..Len(m_waiting') : m_waiting'[i] # Dead
                         /\ \A i \in 1..Len(m_events') : m_events'[i] # Dead
      BY <2>1, <2>2, <2>3 DEF Turns
    <2>8. NoStrandedWaiter'
      BY <1>1, <2>1, <2>2, <2>4, <2>6 DEF Turns, NoStrandedWaiter
    <2> QED
      BY <2>7, <2>8 DEF Turns
  <1>7. ASSUME NEW d \in Clients,
               \/ GetIdle(d) \/ GetNew(d) \/ Connected(d) \/ ConnectFails(d)
               \/ InitDone(d) \/ InitFails(d) \/ Drop(d) \/ \E e \in Clients : Assign(d, e)
        PROVE  Turns'
    BY <1>2, <1>7 DEF GetIdle, TakeIdle, GetNew, Connected, ConnectFails, InitDone,
                      InitFails, Drop, Assign
  <1>8. CASE UNCHANGED vars
    BY <1>2, <1>8 DEF vars
  <1> QED
    BY <1>3, <1>4, <1>5, <1>6, <1>7, <1>8 DEF Next, ClientStep

\* While clients wait in line every idle connection has a wakeup under way, for
\* as long as no client that waits is destroyed.
THEOREM NeverStranded == Spec => []NoStrandedWaiter
  <1>1. Init => Turns
    BY DEF Init, Turns, NoStrandedWaiter
  <1>2. IndInv /\ Turns /\ [Next]_vars => Turns'
    BY TurnsStep
  <1>3. Turns => NoStrandedWaiter
    BY DEF Turns
  <1> QED
    BY <1>1, <1>2, <1>3, Inductive, PTL DEF Spec

----------------------------------------------------------------------------
(* The counter *)

Counted == m_conn_count \in Int /\ leaked \in Nat /\ CountExact

\* What is counted, by who has it.
LEMMA LiveMembers ==
  ASSUME Types
  PROVE  /\ Live \subseteq Conns /\ IsFiniteSet(Live) /\ Cardinality(Live) \in Nat
         /\ \A c : c \in Live <=> \/ c \in Conns /\ \E d \in Clients : conn[d] = c
                                  \/ \E i \in 1..Len(m_idle) : m_idle[i] = c
  <1>1. \A i \in 1..Len(m_idle) : m_idle[i] \in Conns
    BY Indices DEF Types
  <1>2. Live \subseteq Conns
    BY <1>1 DEF Live, Held, Elems
  <1>3. IsFiniteSet(Live) /\ Cardinality(Live) \in Nat
    BY <1>2, FS_Subset, FS_CardinalityType
  <1> QED
    BY <1>2, <1>3 DEF Live, Held, Elems

\* A connection that moves between m_idle and a client is counted all the time.
LEMMA TakeKeepsLive ==
  ASSUME IndInv, IndInv', NEW d \in Clients, m_idle # <<>>, conn[d] = NoConn, TakeIdle(d)
  PROVE  Live' = Live
  <1>1. /\ Len(m_idle) \in Nat \ {0} /\ Len(m_idle') = Len(m_idle) - 1
        /\ Head(m_idle) = m_idle[1] /\ m_idle[1] \in Conns
        /\ \A i \in 1..Len(m_idle') : m_idle'[i] = m_idle[i + 1]
    BY HeadTail DEF IndInv, Types, TakeIdle
  <1>2. conn'[d] = m_idle[1] /\ \A c \in Clients \ {d} : conn'[c] = conn[c]
    BY <1>1 DEF IndInv, Types, TakeIdle
  <1>3. /\ 1 \in 1..Len(m_idle)
        /\ \A i \in 1..Len(m_idle') : i + 1 \in 1..Len(m_idle)
        /\ \A i \in 1..Len(m_idle) : i = 1 \/ (i - 1 \in 1..Len(m_idle') /\ (i - 1) + 1 = i)
    BY <1>1
  <1>4. ASSUME NEW c \in Live PROVE c \in Live'
    <2>1. c \in Conns
      BY LiveMembers DEF IndInv
    <2>2. CASE \E e \in Clients : conn[e] = c
      <3>1. PICK e \in Clients : conn[e] = c
        BY <2>2
      <3>2. e # d
        BY <2>1, <3>1
      <3> QED
        BY <1>2, <2>1, <3>1, <3>2 DEF Live, Held
    <2>3. CASE \E i \in 1..Len(m_idle) : m_idle[i] = c
      <3>1. PICK i \in 1..Len(m_idle) : m_idle[i] = c
        BY <2>3
      <3>2. CASE i = 1
        BY <1>2, <2>1, <3>1, <3>2 DEF Live, Held
      <3>3. CASE i # 1
        <4>1. i - 1 \in 1..Len(m_idle') /\ m_idle'[i - 1] = c
          BY <1>1, <1>3, <3>1, <3>3
        <4> QED
          BY <4>1 DEF Live, Elems
      <3> QED
        BY <3>2, <3>3
    <2> QED
      BY <2>2, <2>3, LiveMembers DEF IndInv
  <1>5. ASSUME NEW c \in Live' PROVE c \in Live
    <2>1. CASE c \in Held'
      <3>1. PICK e \in Clients : c \in Conns /\ conn'[e] = c
        BY <2>1 DEF Held
      <3> QED
        BY <1>1, <1>2, <1>3, <3>1 DEF Live, Held, Elems
    <2>2. CASE c \in Elems(m_idle')
      <3>1. PICK i \in 1..Len(m_idle') : m_idle'[i] = c
        BY <2>2 DEF Elems
      <3>2. i + 1 \in 1..Len(m_idle) /\ m_idle[i + 1] = c
        BY <1>1, <1>3, <3>1
      <3> QED
        BY <3>2 DEF Live, Elems
    <2> QED
      BY <2>1, <2>2 DEF Live
  <1> QED
    BY <1>4, <1>5

LEMMA ReleaseKeepsLive ==
  ASSUME IndInv, NEW d \in Clients, release(d)
  PROVE  Live' = Live
  <1>1. conn[d] \in Conns /\ pc[d] = "holding"
    BY DEF release, IndInv, Types, Having
  <1>2. /\ Len(m_idle) \in Nat /\ Len(m_idle') = Len(m_idle) + 1
        /\ m_idle'[Len(m_idle) + 1] = conn[d]
        /\ \A i \in 1..Len(m_idle) : m_idle'[i] = m_idle[i]
    BY <1>1, Appended DEF release, IndInv, Types
  <1>3. conn'[d] = NoConn /\ \A c \in Clients \ {d} : conn'[c] = conn[c]
    BY DEF release, IndInv, Types
  <1>4. /\ \A i \in 1..Len(m_idle') : i \in 1..Len(m_idle) \/ i = Len(m_idle) + 1
        /\ Len(m_idle) + 1 \in 1..Len(m_idle')
        /\ \A i \in 1..Len(m_idle) : i \in 1..Len(m_idle')
    BY <1>2
  <1>5. ASSUME NEW c \in Live PROVE c \in Live'
    <2>1. CASE c \in Held
      <3>1. PICK e \in Clients : c \in Conns /\ conn[e] = c
        BY <2>1 DEF Held
      <3>2. CASE e = d
        BY <1>2, <1>4, <3>1, <3>2 DEF Live, Elems
      <3>3. CASE e # d
        BY <1>3, <3>1, <3>3 DEF Live, Held
      <3> QED
        BY <3>2, <3>3
    <2>2. CASE c \in Elems(m_idle)
      BY <1>2, <1>4, <2>2 DEF Live, Elems
    <2> QED
      BY <2>1, <2>2 DEF Live
  <1>6. ASSUME NEW c \in Live' PROVE c \in Live
    <2>1. CASE c \in Held'
      BY <1>3, <2>1 DEF Live, Held
    <2>2. CASE c \in Elems(m_idle')
      BY <1>1, <1>2, <1>4, <2>2 DEF Live, Held, Elems
    <2> QED
      BY <2>1, <2>2 DEF Live
  <1> QED
    BY <1>5, <1>6

\* A client's connection is in no other place, so that losing it lowers the
\* number by one.
LEMMA LosesOne ==
  ASSUME IndInv, NEW d \in Clients, conn[d] \in Conns, UNCHANGED m_idle,
         NEW e \in Clients,
         conn' = [conn EXCEPT ![d] = NoConn]
             \/ (d # e /\ conn' = [conn EXCEPT ![d] = conn[e], ![e] = NoConn])
  PROVE  Cardinality(Live') = Cardinality(Live) - 1
  <1>1. conn[d] \in Live
    BY DEF Live, Held
  <1>2. \A i \in 1..Len(m_idle) : m_idle[i] # conn[d]
    BY DEF IndInv, Apart
  <1>3. \A c \in Clients \ {d} : conn[c] # conn[d]
    BY DEF IndInv, Apart
  <1>4. Live' = Live \ {conn[d]}
    <2>1. CASE conn' = [conn EXCEPT ![d] = NoConn]
      <3>1. conn'[d] = NoConn /\ \A c \in Clients \ {d} : conn'[c] = conn[c]
        BY <2>1 DEF IndInv, Types
      <3> QED
        BY <1>2, <1>3, <3>1 DEF Live, Held, Elems
    <2>2. CASE d # e /\ conn' = [conn EXCEPT ![d] = conn[e], ![e] = NoConn]
      <3>1. /\ conn'[d] = conn[e] /\ conn'[e] = NoConn
            /\ \A c \in Clients \ {d, e} : conn'[c] = conn[c]
        BY <2>2 DEF IndInv, Types
      <3>2. Held' = Held \ {conn[d]}
        BY <1>3, <2>2, <3>1 DEF Held
      <3>3. conn[d] \notin Elems(m_idle) /\ Elems(m_idle') = Elems(m_idle)
        BY <1>2 DEF Elems
      <3> QED
        BY <3>2, <3>3 DEF Live
    <2> QED
      BY <2>1, <2>2
  <1> QED
    BY <1>1, <1>4, LiveMembers, FS_RemoveElement DEF IndInv

LEMMA CountedStep ==
  ASSUME IndInv, IndInv', Counted, [Next]_vars
  PROVE  Counted'
  <1>0. Cardinality(Live) \in Nat
    BY LiveMembers DEF IndInv
  <1>1. ASSUME UNCHANGED <<m_conn_count, leaked>>, Live' = Live
        PROVE  Counted'
    BY <1>1 DEF Counted, CountExact
  <1>2. ASSUME UNCHANGED <<m_conn_count, leaked, conn, m_idle>>
        PROVE  Counted'
    BY <1>1, <1>2 DEF Live, Held, Elems
  <1>3. ASSUME NEW d \in Clients, GetIdle(d) PROVE Counted'
    <2>1. conn[d] = NoConn
      BY <1>3 DEF GetIdle, IndInv, Having
    <2>2. TakeIdle(d) /\ m_idle # <<>> /\ UNCHANGED <<m_conn_count, leaked>>
      BY <1>3 DEF GetIdle
    <2> QED
      BY <1>1, <2>1, <2>2, TakeKeepsLive
  <1>4. ASSUME NEW d \in Clients, Connected(d) PROVE Counted'
    <2>1. PICK c \in Conns \ Live : conn' = [conn EXCEPT ![d] = c]
      BY <1>4 DEF Connected
    <2>2. conn[d] = NoConn
      BY <1>4 DEF Connected, IndInv, Having
    <2>3. m_conn_count' = m_conn_count + 1 /\ UNCHANGED <<m_idle, leaked>>
      BY <1>4 DEF Connected
    <2>4. conn'[d] = c /\ \A e \in Clients \ {d} : conn'[e] = conn[e]
      BY <2>1 DEF IndInv, Types
    <2>5. Held' = Held \cup {c}
      BY <2>2, <2>4 DEF Held
    <2>6. Live' = Live \cup {c}
      BY <2>3, <2>5 DEF Live, Elems
    <2>7. Cardinality(Live') = Cardinality(Live) + 1
      BY <2>6, LiveMembers, FS_AddElement DEF IndInv
    <2> QED
      BY <1>0, <2>3, <2>7 DEF Counted, CountExact
  <1>5. ASSUME NEW d \in Clients, InitFails(d) \/ Drop(d) PROVE Counted'
    <2>1. /\ conn' = [conn EXCEPT ![d] = NoConn] /\ m_conn_count' = m_conn_count - 1
          /\ UNCHANGED <<m_idle, leaked>>
      BY <1>5 DEF InitFails, Drop, Destroy
    <2>2. conn[d] \in Conns
      BY <1>5 DEF InitFails, Drop, IndInv, Types, Having
    <2>3. Cardinality(Live') = Cardinality(Live) - 1
      BY <2>1, <2>2, LosesOne
    <2> QED
      BY <1>0, <2>1, <2>3 DEF Counted, CountExact
  <1>6. ASSUME NEW d \in Clients, release(d) PROVE Counted'
    BY <1>1, <1>6, ReleaseKeepsLive DEF release
  <1>7. ASSUME NEW d \in Clients, NEW e \in Clients, Assign(d, e) PROVE Counted'
    <2>1. /\ d # e /\ conn' = [conn EXCEPT ![d] = conn[e], ![e] = NoConn]
          /\ leaked' = leaked + 1 /\ UNCHANGED <<m_idle, m_conn_count>>
      BY <1>7 DEF Assign
    <2>2. conn[d] \in Conns
      BY <1>7 DEF Assign, IndInv, Types, Having
    <2>3. Cardinality(Live') = Cardinality(Live) - 1
      BY <2>1, <2>2, LosesOne
    <2> QED
      BY <1>0, <2>1, <2>3 DEF Counted, CountExact
  <1>8. CASE Wake
    <2>1. CASE m_idle = <<>>
      BY <1>2, <1>8, <2>1 DEF Wake
    <2>2. CASE m_idle # <<>>
      <3>1. Head(m_events) \in Clients /\ pc[Head(m_events)] = "waiting"
        BY <1>8, LineShrinks DEF Wake, IndInv, Ids
      <3>2. conn[Head(m_events)] = NoConn
        BY <3>1 DEF IndInv, Having
      <3>3. TakeIdle(Head(m_events)) /\ UNCHANGED <<m_conn_count, leaked>>
        BY <1>8, <2>2 DEF Wake
      <3> QED
        BY <1>1, <2>2, <3>1, <3>2, <3>3, TakeKeepsLive
    <2> QED
      BY <2>1, <2>2
  <1>9. CASE WakeDead \/ UNCHANGED vars
    BY <1>2, <1>9 DEF WakeDead, vars
  <1>10. ASSUME NEW d \in Clients,
                \/ GetNew(d) \/ GetInLine(d) \/ ConnectFails(d) \/ InitDone(d)
                \/ CancelWait(d)
         PROVE  Counted'
    BY <1>2, <1>10 DEF GetNew, GetInLine, ConnectFails, InitDone, CancelWait
  <1> QED
    BY <1>3, <1>4, <1>5, <1>6, <1>7, <1>8, <1>9, <1>10 DEF Next, ClientStep

\* The counter that get_connection compares with the limit is the number of open
\* connections and of those that move assignment closed without counting.
THEOREM CountCorrect == Spec => []CountExact
  <1>1. Init => Counted
    <2> SUFFICES ASSUME Init PROVE Counted
      OBVIOUS
    <2>1. Live = {}
      BY DEF Init, Live, Held, Elems
    <2> QED
      BY <2>1, FS_EmptySet DEF Init, Counted, CountExact
  <1>2. IndInv /\ IndInv' /\ Counted /\ [Next]_vars => Counted'
    BY CountedStep
  <1>3. Counted => CountExact
    BY DEF Counted
  <1> QED
    BY <1>1, <1>2, <1>3, Inductive, PTL DEF Spec

----------------------------------------------------------------------------
(* How many connections there can be *)

Connecting == {d \in Clients : pc[d] = "connecting"}

\* A client without a connection is at most connecting.
LEMMA HeldBound ==
  ASSUME IndInv, NEW d \in Clients, pc[d] = "idle"
  PROVE  Cardinality(Held) + Cardinality(Connecting \cup {d}) <= Cardinality(Clients)
<1> DEFINE Owners == {e \in Clients : conn[e] # NoConn}
           New == Connecting \cup {d}
           f == [e \in Owners |-> conn[e]]
<1>1. f \in Surjection(Owners, Held)
  BY DEF IndInv, Types, Held, Surjection
<1>2. Owners \subseteq Clients /\ New \subseteq Clients
  BY DEF Connecting
<1>3. Owners \cap New = {}
  BY DEF IndInv, Having, Connecting
<1> HIDE DEF Owners, New, f
<1>4. IsFiniteSet(Owners) /\ IsFiniteSet(New)
  BY <1>2, FS_Subset
<1>5. IsFiniteSet(Held) /\ Cardinality(Held) <= Cardinality(Owners)
  BY <1>1, <1>4, FS_Surjection
<1>6. Cardinality(Owners \cup New) = Cardinality(Owners) + Cardinality(New) - 0
  BY <1>3, <1>4, FS_Union, FS_EmptySet
<1>7. Cardinality(Owners \cup New) <= Cardinality(Clients)
  <2>1. Owners \cup New \in SUBSET Clients
    BY <1>2
  <2> QED
    BY <2>1, FS_Subset
<1>8. /\ Cardinality(Owners) \in Nat /\ Cardinality(New) \in Nat
      /\ Cardinality(Held) \in Nat /\ Cardinality(Clients) \in Nat
      /\ Cardinality(Owners \cup New) \in Nat
  BY <1>4, <1>5, FS_CardinalityType, FS_Union
<1>9. Cardinality(Held) + Cardinality(New) <= Cardinality(Clients)
  BY <1>5, <1>6, <1>7, <1>8
<1> QED
  BY <1>9 DEF New

\* What a step does to the two numbers, as far as it is not a new attempt.
Fewer == /\ Cardinality(Live') + Cardinality(Connecting')
                <= Cardinality(Live) + Cardinality(Connecting)

LEMMA FewerStep ==
  ASSUME IndInv, IndInv', [Next]_vars, \A d \in Clients : ~GetNew(d)
  PROVE  Fewer
<1>1. /\ IsFiniteSet(Connecting) /\ IsFiniteSet(Connecting')
      /\ Cardinality(Connecting) \in Nat /\ Cardinality(Connecting') \in Nat
      /\ IsFiniteSet(Live) /\ Cardinality(Live) \in Nat /\ Cardinality(Live') \in Nat
  <2>1. Connecting \in SUBSET Clients /\ Connecting' \in SUBSET Clients
    BY DEF Connecting
  <2>2. IsFiniteSet(Live) /\ Cardinality(Live) \in Nat
    BY LiveMembers DEF IndInv
  <2>3. IsFiniteSet(Live')
    <3>1. Live' \in SUBSET Conns
      <4>1. \A i \in 1..Len(m_idle') : m_idle'[i] \in Conns
        BY Indices DEF IndInv, Types
      <4> QED
        BY <4>1 DEF Live, Held, Elems
    <3> QED
      BY <3>1, FS_Subset
  <2> QED
    BY <2>1, <2>2, <2>3, FS_Subset, FS_CardinalityType
<1>2. ASSUME Live' = Live, Connecting' \subseteq Connecting
      PROVE  Fewer
  <2>1. Cardinality(Connecting') <= Cardinality(Connecting)
    BY <1>1, <1>2, FS_Subset
  <2> QED
    BY <1>1, <1>2, <2>1 DEF Fewer
<1>3. ASSUME Cardinality(Live') = Cardinality(Live) - 1, Connecting' \subseteq Connecting
      PROVE  Fewer
  <2>1. Cardinality(Connecting') <= Cardinality(Connecting)
    BY <1>1, <1>3, FS_Subset
  <2> QED
    BY <1>1, <1>3, <2>1 DEF Fewer
<1>4. ASSUME NEW d \in Clients, NEW s \in States, s # "connecting", Goto(d, s)
      PROVE  Connecting' \subseteq Connecting
  BY <1>4 DEF Goto, IndInv, Types, Connecting
<1>5. ASSUME UNCHANGED <<conn, m_idle>> PROVE Live' = Live
  BY <1>5 DEF Live, Held, Elems
<1>6. ASSUME NEW d \in Clients, GetIdle(d) PROVE Fewer
  <2>1. conn[d] = NoConn
    BY <1>6 DEF GetIdle, IndInv, Having
  <2>2. Live' = Live
    BY <1>6, <2>1, TakeKeepsLive DEF GetIdle
  <2> QED
    BY <1>2, <1>4, <1>6, <2>2 DEF GetIdle, TakeIdle, States
<1>7. ASSUME NEW d \in Clients, Connected(d) PROVE Fewer
  <2>1. PICK c \in Conns \ Live : conn' = [conn EXCEPT ![d] = c]
    BY <1>7 DEF Connected
  <2>2. conn[d] = NoConn
    BY <1>7 DEF Connected, IndInv, Having
  <2>3. conn'[d] = c /\ \A e \in Clients \ {d} : conn'[e] = conn[e]
    BY <2>1 DEF IndInv, Types
  <2>4. Held' = Held \cup {c}
    BY <2>2, <2>3 DEF Held
  <2>5. Live' = Live \cup {c}
    BY <1>7, <2>4 DEF Connected, Live, Elems
  <2>6. Cardinality(Live') = Cardinality(Live) + 1
    BY <1>1, <2>5, FS_AddElement
  <2>7. Connecting' = Connecting \ {d} /\ d \in Connecting
    BY <1>7 DEF Connected, Goto, IndInv, Types, Connecting
  <2>8. Cardinality(Connecting') = Cardinality(Connecting) - 1
    BY <1>1, <2>7, FS_RemoveElement
  <2> QED
    BY <1>1, <2>6, <2>8 DEF Fewer
<1>8. ASSUME NEW d \in Clients, InitFails(d) \/ Drop(d) PROVE Fewer
  <2>1. conn[d] \in Conns
    BY <1>8 DEF InitFails, Drop, IndInv, Types, Having
  <2>2. Cardinality(Live') = Cardinality(Live) - 1
    BY <1>8, <2>1, LosesOne DEF InitFails, Drop, Destroy
  <2> QED
    BY <1>3, <1>4, <1>8, <2>2 DEF InitFails, Drop, Destroy, States
<1>9. ASSUME NEW d \in Clients, release(d) PROVE Fewer
  BY <1>2, <1>4, <1>9, ReleaseKeepsLive DEF release, States
<1>10. ASSUME NEW d \in Clients, NEW e \in Clients, Assign(d, e) PROVE Fewer
  <2>1. conn[d] \in Conns
    BY <1>10 DEF Assign, IndInv, Types, Having
  <2>2. Cardinality(Live') = Cardinality(Live) - 1
    BY <1>10, <2>1, LosesOne DEF Assign
  <2> QED
    BY <1>3, <1>4, <1>10, <2>2 DEF Assign, States
<1>11. CASE Wake
  <2>1. CASE m_idle = <<>>
    BY <1>2, <1>5, <1>11, <2>1 DEF Wake, Connecting
  <2>2. CASE m_idle # <<>>
    <3>1. Head(m_events) \in Clients /\ pc[Head(m_events)] = "waiting"
      BY <1>11, LineShrinks DEF Wake, IndInv, Ids
    <3>2. conn[Head(m_events)] = NoConn
      BY <3>1 DEF IndInv, Having
    <3>3. TakeIdle(Head(m_events))
      BY <1>11, <2>2 DEF Wake
    <3>4. Live' = Live
      BY <2>2, <3>1, <3>2, <3>3, TakeKeepsLive
    <3> QED
      BY <1>2, <1>4, <3>1, <3>3, <3>4 DEF TakeIdle, States
  <2> QED
    BY <2>1, <2>2
<1>12. CASE WakeDead \/ UNCHANGED vars
  BY <1>2, <1>5, <1>12 DEF WakeDead, vars, Connecting
<1>13. ASSUME NEW d \in Clients,
              GetInLine(d) \/ ConnectFails(d) \/ InitDone(d) \/ CancelWait(d)
       PROVE  Fewer
  BY <1>2, <1>4, <1>5, <1>13 DEF GetInLine, ConnectFails, InitDone, CancelWait, States
<1> QED
  BY <1>6, <1>7, <1>8, <1>9, <1>10, <1>11, <1>12, <1>13 DEF Next, ClientStep

\* However many attempts to connect overtake the check of the limit, there are
\* never more connections and attempts than clients: a client connects only while
\* m_idle is empty.
THEOREM ConnectionsBounded == Spec => []LiveBound
<1>1. Init => LiveBound
  <2> SUFFICES ASSUME Init PROVE LiveBound
    OBVIOUS
  <2>1. Live = {} /\ Connecting = {}
    BY DEF Init, Live, Held, Elems, Connecting
  <2>2. Cardinality(Live) = 0 /\ Cardinality(Connecting) = 0 /\ Cardinality(Clients) \in Nat
    BY <2>1, FS_EmptySet, FS_CardinalityType
  <2> QED
    BY <2>2 DEF LiveBound, Connecting
<1>2. IndInv /\ IndInv' /\ LiveBound /\ [Next]_vars => LiveBound'
  <2> SUFFICES ASSUME IndInv, IndInv', LiveBound, [Next]_vars PROVE LiveBound'
    OBVIOUS
  <2>1. ASSUME NEW d \in Clients, GetNew(d) PROVE LiveBound'
    <3>1. pc[d] = "idle" /\ m_idle = <<>> /\ UNCHANGED <<m_idle, conn>>
      BY <2>1 DEF GetNew
    <3>2. Live' = Held
      BY <3>1 DEF Live, Held, Elems
    <3>3. Connecting' = Connecting \cup {d}
      BY <2>1 DEF GetNew, Goto, IndInv, Types, Connecting
    <3>4. Cardinality(Live') + Cardinality(Connecting') <= Cardinality(Clients)
      BY <3>1, <3>2, <3>3, HeldBound
    <3> QED
      BY <3>4 DEF LiveBound, Connecting
  <2>2. CASE \A d \in Clients : ~GetNew(d)
    <3>1. Fewer
      BY <2>2, FewerStep
    <3>2. /\ Cardinality(Live) \in Nat /\ Cardinality(Clients) \in Nat
          /\ Cardinality(Connecting) \in Nat
      BY LiveMembers, FS_CardinalityType, FS_Subset DEF IndInv, Connecting
    <3>3. Cardinality(Live) + Cardinality(Connecting) <= Cardinality(Clients)
      BY DEF LiveBound, Connecting
    <3>4. Live' \in SUBSET Conns /\ Connecting' \in SUBSET Clients
      <4>1. \A i \in 1..Len(m_idle') : m_idle'[i] \in Conns
        BY Indices DEF IndInv, Types
      <4> QED
        BY <4>1 DEF Live, Held, Elems, Connecting
    <3>5. Cardinality(Live') \in Nat /\ Cardinality(Connecting') \in Nat
      BY <3>4, FS_Subset, FS_CardinalityType
    <3>6. Cardinality(Live') + Cardinality(Connecting') <= Cardinality(Clients)
      BY <3>1, <3>2, <3>3, <3>5 DEF Fewer
    <3> QED
      BY <3>6 DEF LiveBound, Connecting
  <2> QED
    BY <2>1, <2>2
<1> QED
  BY <1>1, <1>2, Inductive, PTL DEF Spec

============================================================================
