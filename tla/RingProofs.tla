----------------------------- MODULE RingProofs -----------------------------
(***************************************************************************)
(* Theorems about the operations of EventLoop on their way through the     *)
(* submission queue, the kernel, the completion queue, m_events and the    *)
(* callbacks, on top of the inductive invariant of EventLoopProofs.        *)
(***************************************************************************)
EXTENDS EventLoopProofs, FiniteSetTheorems

\* The operations that a queue and a set of events report on.
Ops(s) == {s[i].m_status : i \in 1..Len(s)}

OpsIn(S) == {e.m_status : e \in S}

Distinct(s) == \A i, j \in 1..Len(s) : s[i].m_status = s[j].m_status => i = j

\* The operations in the five places, pairwise apart.
Disjoint(q, k, r, v, t) ==
    /\ q \cap k = {} /\ q \cap r = {} /\ q \cap v = {} /\ q \cap t = {}
    /\ k \cap r = {} /\ k \cap v = {} /\ k \cap t = {}
    /\ r \cap v = {} /\ r \cap t = {}
    /\ v \cap t = {}

\* Each operation is in one place, once, and those places are finite.
Once ==
    /\ Distinct(sq) /\ Distinct(cq) /\ Distinct(m_events)
    /\ \A e, f \in inflight : e.m_status = f.m_status => e = f
    /\ Disjoint(Ops(sq), OpsIn(inflight), Ops(cq), Ops(m_events), Stored)
    /\ IsFiniteSet(inflight)
    /\ IsFiniteSet({c \in Callbacks : has_status(cb[c])})

AllOps == {e.m_status : e \in OnTheWay} \cup Stored

----------------------------------------------------------------------------
(* Queues of distinct operations *)

LEMMA OpsAppend ==
  ASSUME NEW s \in Seq(Event), NEW e \in Event, Distinct(s), e.m_status \notin Ops(s)
  PROVE  Distinct(Append(s, e)) /\ Ops(Append(s, e)) = Ops(s) \cup {e.m_status}
<1> DEFINE t == Append(s, e)
<1>1. /\ Len(s) \in Nat /\ Len(t) = Len(s) + 1 /\ t[Len(s) + 1] = e
      /\ \A i \in 1..Len(s) : t[i] = s[i]
  OBVIOUS
<1>2. /\ \A i \in 1..Len(t) : i \in 1..Len(s) \/ i = Len(s) + 1
      /\ \A i \in 1..Len(s) : i \in 1..Len(t)
      /\ Len(s) + 1 \in 1..Len(t)
  BY <1>1
<1> HIDE DEF t
<1>3. \A i \in 1..Len(s) : s[i].m_status # e.m_status
  BY DEF Ops
<1>4. Distinct(t)
  <2> SUFFICES ASSUME NEW i \in 1..Len(t), NEW j \in 1..Len(t), t[i].m_status = t[j].m_status
               PROVE  i = j
    BY DEF Distinct
  <2> QED
    BY <1>1, <1>2, <1>3 DEF Distinct
<1>5. Ops(t) = Ops(s) \cup {e.m_status}
  BY <1>1, <1>2 DEF Ops
<1> QED
  BY <1>4, <1>5 DEF t

LEMMA OpsTail ==
  ASSUME NEW s \in Seq(Event), s # <<>>, Distinct(s)
  PROVE  /\ Head(s) \in Event /\ Head(s) \in Elems(s)
         /\ Head(s).m_status \in Ops(s)
         /\ Distinct(Tail(s)) /\ Ops(Tail(s)) = Ops(s) \ {Head(s).m_status}
<1> DEFINE t == Tail(s)
<1>1. /\ Len(s) \in Nat \ {0} /\ Len(t) = Len(s) - 1 /\ Head(s) = s[1] /\ Head(s) \in Event
      /\ \A i \in 1..Len(t) : t[i] = s[i + 1]
  BY TailFacts
<1>2. /\ \A i \in 1..Len(t) : i + 1 \in 1..Len(s) /\ i + 1 # 1
      /\ \A i \in 1..Len(s) : i = 1 \/ (i - 1 \in 1..Len(t) /\ (i - 1) + 1 = i)
      /\ 1 \in 1..Len(s)
      /\ \A i, j \in 1..Len(t) : i + 1 = j + 1 => i = j
  BY <1>1
<1> HIDE DEF t
<1>3. Distinct(t)
  <2> SUFFICES ASSUME NEW i \in 1..Len(t), NEW j \in 1..Len(t), t[i].m_status = t[j].m_status
               PROVE  i = j
    BY DEF Distinct
  <2>1. s[i + 1].m_status = s[j + 1].m_status
    BY <1>1
  <2>2. i + 1 \in 1..Len(s) /\ j + 1 \in 1..Len(s)
    BY <1>2
  <2>3. i + 1 = j + 1
    BY <2>1, <2>2 DEF Distinct
  <2> QED
    BY <1>2, <2>3
<1>4. ASSUME NEW i \in 1..Len(t) PROVE t[i].m_status # s[1].m_status
  <2>1. t[i] = s[i + 1] /\ i + 1 \in 1..Len(s) /\ i + 1 # 1 /\ 1 \in 1..Len(s)
    BY <1>1, <1>2
  <2> QED
    BY <2>1 DEF Distinct
<1>5. ASSUME NEW i \in 1..Len(s), i # 1 PROVE \E j \in 1..Len(t) : t[j] = s[i]
  <2>1. i - 1 \in 1..Len(t) /\ (i - 1) + 1 = i
    BY <1>2, <1>5
  <2>2. t[i - 1] = s[(i - 1) + 1]
    BY <1>1, <2>1
  <2> QED
    BY <2>1, <2>2
<1>6. Ops(t) = Ops(s) \ {s[1].m_status}
  <2>1. ASSUME NEW o \in Ops(t) PROVE o \in Ops(s) /\ o # s[1].m_status
    <3>1. PICK i \in 1..Len(t) : o = t[i].m_status
      BY <2>1 DEF Ops
    <3>2. t[i] = s[i + 1] /\ i + 1 \in 1..Len(s)
      BY <1>1, <1>2
    <3> QED
      BY <1>4, <3>1, <3>2 DEF Ops
  <2>2. ASSUME NEW o \in Ops(s), o # s[1].m_status PROVE o \in Ops(t)
    <3>1. PICK i \in 1..Len(s) : o = s[i].m_status
      BY <2>2 DEF Ops
    <3> QED
      BY <1>5, <2>2, <3>1 DEF Ops
  <2> QED
    BY <2>1, <2>2
<1>7. Head(s) \in Elems(s) /\ Head(s).m_status \in Ops(s)
  BY <1>1, <1>2 DEF Ops, Elems
<1> QED
  BY <1>1, <1>3, <1>6, <1>7 DEF t

LEMMA OpsSplit ==
  ASSUME NEW s \in Seq(Event), Distinct(s), NEW k \in 0..Len(s)
  PROVE  /\ Distinct(SubSeq(s, k + 1, Len(s)))
         /\ OpsIn({s[i] : i \in 1..k}) \subseteq Ops(s)
         /\ Ops(SubSeq(s, k + 1, Len(s))) = Ops(s) \ OpsIn({s[i] : i \in 1..k})
         /\ \A e, f \in {s[i] : i \in 1..k} : e.m_status = f.m_status => e = f
         /\ IsFiniteSet({s[i] : i \in 1..k})
         /\ {s[i] : i \in 1..k} \subseteq Event
<1> DEFINE t == SubSeq(s, k + 1, Len(s))
           P == {s[i] : i \in 1..k}
<1>1. /\ Len(s) \in Nat /\ k \in Nat /\ k <= Len(s) /\ Len(t) = Len(s) - k
      /\ \A i \in 1..Len(t) : t[i] = s[i + k]
  OBVIOUS
<1>2. /\ \A i \in 1..Len(t) : i + k \in 1..Len(s) /\ i + k \notin 1..k
      /\ \A i \in 1..Len(s) : i \in 1..k \/ (i - k \in 1..Len(t) /\ (i - k) + k = i)
      /\ \A i \in 1..k : i \in 1..Len(s)
      /\ \A i, j \in 1..Len(t) : i + k = j + k => i = j
  BY <1>1
<1> HIDE DEF t
<1>3. Distinct(t)
  <2> SUFFICES ASSUME NEW i \in 1..Len(t), NEW j \in 1..Len(t), t[i].m_status = t[j].m_status
               PROVE  i = j
    BY DEF Distinct
  <2>1. s[i + k].m_status = s[j + k].m_status
    BY <1>1
  <2>2. i + k \in 1..Len(s) /\ j + k \in 1..Len(s)
    BY <1>2
  <2>3. i + k = j + k
    BY <2>1, <2>2 DEF Distinct
  <2> QED
    BY <1>2, <2>3
<1>4. ASSUME NEW i \in 1..Len(t), NEW j \in 1..k PROVE t[i].m_status # s[j].m_status
  <2>1. /\ t[i] = s[i + k] /\ i + k \in 1..Len(s) /\ i + k \notin 1..k
        /\ j \in 1..Len(s)
    BY <1>1, <1>2
  <2>2. i + k # j
    BY <2>1
  <2> QED
    BY <2>1, <2>2 DEF Distinct
<1>5. ASSUME NEW i \in 1..Len(s), i \notin 1..k PROVE \E j \in 1..Len(t) : t[j] = s[i]
  <2>1. i - k \in 1..Len(t) /\ (i - k) + k = i
    BY <1>2, <1>5
  <2>2. t[i - k] = s[(i - k) + k]
    BY <1>1, <2>1
  <2> QED
    BY <2>1, <2>2
<1>6. OpsIn(P) = {s[i].m_status : i \in 1..k}
  BY DEF OpsIn
<1>7. OpsIn(P) \subseteq Ops(s)
  BY <1>2, <1>6 DEF Ops
<1>8. Ops(t) = Ops(s) \ OpsIn(P)
  <2>1. ASSUME NEW o \in Ops(t) PROVE o \in Ops(s) /\ o \notin OpsIn(P)
    <3>1. PICK i \in 1..Len(t) : o = t[i].m_status
      BY <2>1 DEF Ops
    <3>2. t[i] = s[i + k] /\ i + k \in 1..Len(s)
      BY <1>1, <1>2
    <3>3. o \in Ops(s)
      BY <3>1, <3>2 DEF Ops
    <3> QED
      BY <1>4, <1>6, <3>1, <3>3
  <2>2. ASSUME NEW o \in Ops(s), o \notin OpsIn(P) PROVE o \in Ops(t)
    <3>1. PICK i \in 1..Len(s) : o = s[i].m_status
      BY <2>2 DEF Ops
    <3>2. i \notin 1..k
      BY <1>6, <2>2, <3>1
    <3> QED
      BY <1>5, <3>1, <3>2 DEF Ops
  <2> QED
    BY <2>1, <2>2
<1>9. \A e, f \in P : e.m_status = f.m_status => e = f
  BY <1>2 DEF Distinct
<1>10. IsFiniteSet(P)
  <2>1. [i \in 1..k |-> s[i]] \in Surjection(1..k, P)
    BY DEF Surjection
  <2>2. IsFiniteSet(1..k)
    BY <1>1, FS_Interval
  <2> QED
    BY <2>1, <2>2, FS_Surjection
<1>11. P \subseteq Event
  BY <1>2
<1> QED
  BY <1>3, <1>7, <1>8, <1>9, <1>10, <1>11 DEF t

\* A queue of distinct operations has as many as it is long.
LEMMA OpsCount ==
  ASSUME NEW s \in Seq(Event), Distinct(s)
  PROVE  IsFiniteSet(Ops(s)) /\ Cardinality(Ops(s)) = Len(s)
<1> DEFINE f == [i \in 1..Len(s) |-> s[i].m_status]
<1>1. f \in Surjection(1..Len(s), Ops(s)) /\ f \in Injection(1..Len(s), Ops(s))
  BY DEF Surjection, Injection, IsInjective, Ops, Distinct
<1>2. IsFiniteSet(1..Len(s)) /\ Cardinality(1..Len(s)) = Len(s)
  <2>1. Len(s) \in Nat
    OBVIOUS
  <2> QED
    BY <2>1, FS_Interval
<1> QED
  BY <1>1, <1>2, FS_Surjection

----------------------------------------------------------------------------
(* The five places *)

StoredAt == {c \in Callbacks : has_status(cb[c])}

LEMMA AllOpsPlaces ==
  AllOps = Ops(sq) \cup OpsIn(inflight) \cup Ops(cq) \cup Ops(m_events) \cup Stored
  BY DEF AllOps, OnTheWay, Elems, Ops, OpsIn

\* A name that is free is that of no operation anywhere.
LEMMA FreshOp ==
  ASSUME NEW m, NEW n \in FreeOpIds
  PROVE  /\ [inc |-> m, n |-> n] \notin AllOps
         /\ \A d \in Coroutines : issued[d] # NoStatus => issued[d] # [inc |-> m, n |-> n]
<1> DEFINE o == [inc |-> m, n |-> n]
           Names == {e.m_status : e \in OnTheWay} \cup Stored
                        \cup ({issued[d] : d \in Coroutines} \ {NoStatus})
<1>1. o.n = n
  OBVIOUS
<1>2. \A p \in Names : p.n # n
  BY DEF FreeOpIds
<1>3. o \notin Names
  BY <1>1, <1>2
<1> QED
  BY <1>3 DEF AllOps

\* A step that changes one callback changes what is stored there, at most.
LEMMA CallbackChange ==
  ASSUME IndInv, NEW c \in Callbacks, NEW x, cb' = [cb EXCEPT ![c] = x],
         NEW o, x.m_status_opt = o, IsFiniteSet(StoredAt)
  PROVE  /\ Stored' \subseteq Stored \cup {o}
         /\ o # NoStatus => o \in Stored'
         /\ \A p \in Stored : p \in Stored' \/ p = cb[c].m_status_opt
         /\ o = NoStatus \/ o = cb[c].m_status_opt => Stored' \subseteq Stored
         /\ IsFiniteSet(StoredAt')
<1>1. /\ cb'[c].m_status_opt = o
      /\ \A k \in Callbacks \ {c} : cb'[k] = cb[k]
  BY DEF IndInv, Registry, TypeOK
<1>2. \A p : p \in Stored' <=> p # NoStatus /\ \E k \in Callbacks : cb'[k].m_status_opt = p
  BY DEF Stored
<1>3. \A p : p \in Stored <=> p # NoStatus /\ \E k \in Callbacks : cb[k].m_status_opt = p
  BY DEF Stored
<1>4. StoredAt' \subseteq StoredAt \cup {c}
  BY <1>1 DEF StoredAt, has_status
<1>5. IsFiniteSet(StoredAt')
  <2>1. IsFiniteSet(StoredAt \cup {c})
    BY FS_AddElement
  <2> QED
    BY <1>4, <2>1, FS_Subset
<1>6. Stored' \subseteq Stored \cup {o}
  BY <1>1, <1>2, <1>3
<1>7. o # NoStatus => o \in Stored'
  BY <1>1, <1>2
<1>8. \A p \in Stored : p \in Stored' \/ p = cb[c].m_status_opt
  BY <1>1, <1>2, <1>3
<1>9. o = NoStatus \/ o = cb[c].m_status_opt => Stored' \subseteq Stored
  BY <1>1, <1>2, <1>3
<1> QED
  BY <1>5, <1>6, <1>7, <1>8, <1>9

\* co_await stores no status.
LEMMA AwaitStored ==
  ASSUME IndInv, NEW d \in Coroutines, NEW c \in Callbacks, Await(d, c), IsFiniteSet(StoredAt)
  PROVE  /\ Stored' \subseteq Stored /\ IsFiniteSet(StoredAt')
         /\ \A p \in Stored : p \in Stored' \/ p = cb[c].m_status_opt
<1>1. PICK x : /\ cb' = [cb EXCEPT ![c] = x]
               /\ x.m_status_opt = NoStatus \/ x.m_status_opt = cb[c].m_status_opt
  BY DEF Await, AwaitReady, AwaitSuspend, AwaitThrow, reset, set_handle
<1> QED
  BY <1>1, CallbackChange

\* What a dispatch does to the callback it finds, if it finds one.
LEMMA DispatchStored ==
  ASSUME IndInv, Dispatch, IsFiniteSet(StoredAt)
  PROVE  /\ Stored' \subseteq Stored \cup {Head(m_events).m_status}
         /\ IsFiniteSet(StoredAt')
         /\ \A p \in Stored : p \in Stored' \/ p.inc = Head(m_events).m_status.inc
<1> DEFINE ev == Head(m_events)
           c == m_callbacks[ev.m_id]
<1>1. ev \in Event /\ ev \in OnTheWay
  BY TailFacts, ElemsTail DEF Dispatch, IndInv, Registry, TypeOK, OnTheWay
<1>2. CASE NotifyUnknown(ev)
  BY <1>2 DEF NotifyUnknown, Stored, StoredAt
<1>3. CASE c # NoCallback /\ (NotifyStored(ev, c) \/ NotifyResumes(ev, c))
  <2>1. c \in Callbacks /\ ev.m_status.inc = inc[c]
    BY <1>1, <1>3, EventLoopAssumption
    DEF IndInv, Registry, TypeOK, BusConsistent, Identity, Event, TrueIds
  <2>2. \/ cb' = [cb EXCEPT ![c] = [m_status_opt |-> ev.m_status, m_suspended |-> Noop]]
        \/ cb' = [cb EXCEPT ![c] = [m_status_opt |-> NoStatus, m_suspended |-> Noop]]
    BY <1>3 DEF NotifyStored, NotifyResumes, notify, resume, reset
  <2>3. PICK x : /\ cb' = [cb EXCEPT ![c] = x]
                 /\ x.m_status_opt = ev.m_status \/ x.m_status_opt = NoStatus
    BY <2>2
  <2>4. /\ Stored' \subseteq Stored \cup {x.m_status_opt}
        /\ IsFiniteSet(StoredAt')
        /\ \A p \in Stored : p \in Stored' \/ p = cb[c].m_status_opt
    BY <2>1, <2>3, CallbackChange
  <2>5. NoStatus \notin Stored' 
    BY DEF Stored
  <2>6. \A p \in Stored : p = cb[c].m_status_opt => p.inc = inc[c]
    BY <2>1 DEF Stored, IndInv, TrueIds, has_status
  <2> QED
    BY <2>1, <2>3, <2>4, <2>5, <2>6
<1> QED
  BY <1>2, <1>3 DEF Dispatch, Notify

\* No step reports an operation a second time.
LEMMA OnceStep ==
  ASSUME IndInv, Once, [Next]_vars
  PROVE  Once'
<1> USE EventLoopAssumption
<1>1. /\ sq \in Seq(Event) /\ cq \in Seq(Event) /\ m_events \in Seq(Event)
      /\ inflight \subseteq Event /\ IsFiniteSet(StoredAt)
  BY DEF IndInv, Registry, TypeOK, Once, StoredAt
<1>2. ASSUME UNCHANGED <<sq, inflight, cq, m_events>>,
             Stored' \subseteq Stored, IsFiniteSet(StoredAt')
      PROVE  Once'
  <2>1. Disjoint(Ops(sq), OpsIn(inflight), Ops(cq), Ops(m_events), Stored')
    BY <1>2 DEF Once, Disjoint
  <2> QED
    BY <1>2, <2>1 DEF Once, StoredAt
<1>3. ASSUME NEW d \in Coroutines, NEW c \in Callbacks,
             Construct(d, c) \/ Destruct(d, c)
      PROVE  Once'
  <2>1. cb' = [cb EXCEPT ![c] = Fresh] /\ UNCHANGED <<sq, inflight, cq, m_events>>
    BY <1>3 DEF Construct, Destruct, loopVars, ringVars
  <2>2. Fresh.m_status_opt = NoStatus
    BY DEF Fresh
  <2> QED
    BY <1>1, <1>2, <2>1, <2>2, CallbackChange
<1>4. ASSUME NEW d \in Coroutines, NEW c \in Callbacks, AwaitSignal(d, c)
      PROVE  Once'
  BY <1>1, <1>2, <1>4, AwaitStored DEF AwaitSignal, loopVars, ringVars
<1>5. ASSUME NEW d \in Coroutines, NEW e \in Coroutines, Cancel(d, e)
      PROVE  Once'
  <2>1. /\ waits[e] \in Callbacks /\ cb' = [cb EXCEPT ![waits[e]] = reset(cb[waits[e]])]
        /\ UNCHANGED <<sq, inflight, cq, m_events>>
    BY <1>5 DEF Cancel, Unawait, IndInv, Registry, TypeOK, loopVars, ringVars
  <2>2. reset(cb[waits[e]]).m_status_opt = NoStatus
    BY DEF reset
  <2>3. Stored' \subseteq Stored /\ IsFiniteSet(StoredAt')
    BY <1>1, <2>1, <2>2, CallbackChange
  <2> QED
    BY <1>2, <2>1, <2>3
<1>6. ASSUME NEW d \in Coroutines, NEW c \in Callbacks, OnIo(d, c)
      PROVE  Once'
  <2>1. PICK n \in FreeOpIds : QueueSqe(c, [inc |-> inc[c], n |-> n])
    BY <1>6 DEF OnIo
  <2> DEFINE o == [inc |-> inc[c], n |-> n]
             ev == [m_id |-> m_id[c], m_status |-> o]
  <2>2. /\ sq' = Append(sq, ev) /\ UNCHANGED <<inflight, cq, m_events>>
        /\ ev \in Event /\ ev.m_status = o
    BY <1>6, <2>1 DEF OnIo, QueueSqe, FreeOpIds, IndInv, Registry, TypeOK, Identity,
                      Event, Op, loopVars
  <2>3. o \notin AllOps
    BY FreshOp
  <2>4. Stored' \subseteq Stored /\ IsFiniteSet(StoredAt')
    BY <1>1, <1>6, AwaitStored DEF OnIo
  <2> HIDE DEF o, ev
  <2>5. Distinct(sq') /\ Ops(sq') = Ops(sq) \cup {o}
    BY <1>1, <2>2, <2>3, AllOpsPlaces, OpsAppend DEF Once
  <2>6. Disjoint(Ops(sq'), OpsIn(inflight), Ops(cq), Ops(m_events), Stored')
    BY <2>3, <2>4, <2>5, AllOpsPlaces DEF Once, Disjoint
  <2> QED
    BY <2>2, <2>4, <2>5, <2>6 DEF Once, StoredAt
<1>7. ASSUME NEW d \in Coroutines, NEW t \in triggers, Activate(d, t)
      PROVE  Once'
  <2>1. PICK n \in FreeOpIds :
            add_event([m_id |-> t.m_id, m_status |-> [inc |-> t.inc, n |-> n]])
    BY <1>7 DEF Activate
  <2> DEFINE o == [inc |-> t.inc, n |-> n]
             ev == [m_id |-> t.m_id, m_status |-> o]
  <2>2. /\ m_events' = Append(m_events, ev) /\ UNCHANGED <<inflight, cq, sq, cb>>
        /\ ev \in Event /\ ev.m_status = o
    BY <1>7, <2>1 DEF Activate, add_event, FreeOpIds, IndInv, Registry, TypeOK,
                      Event, Op, busVars, ringVars
  <2>3. o \notin AllOps
    BY FreshOp
  <2> HIDE DEF o, ev
  <2>4. Distinct(m_events') /\ Ops(m_events') = Ops(m_events) \cup {o}
    BY <1>1, <2>2, <2>3, AllOpsPlaces, OpsAppend DEF Once
  <2>5. Disjoint(Ops(sq), OpsIn(inflight), Ops(cq), Ops(m_events'), Stored)
    BY <2>3, <2>4, AllOpsPlaces DEF Once, Disjoint
  <2> QED
    BY <2>2, <2>4, <2>5 DEF Once, Stored
<1>8. CASE Dispatch
  <2>1. m_events # <<>> /\ m_events' = Tail(m_events) /\ UNCHANGED <<sq, inflight, cq>>
    BY <1>8 DEF Dispatch, ringVars
  <2> DEFINE o == Head(m_events).m_status
  <2>2. /\ o \in Ops(m_events)
        /\ Distinct(m_events') /\ Ops(m_events') = Ops(m_events) \ {o}
    BY <1>1, <2>1, OpsTail DEF Once
  <2>3. Stored' \subseteq Stored \cup {o} /\ IsFiniteSet(StoredAt')
    BY <1>1, <1>8, DispatchStored
  <2> HIDE DEF o
  <2>4. Disjoint(Ops(sq), OpsIn(inflight), Ops(cq), Ops(m_events'), Stored')
    BY <2>2, <2>3 DEF Once, Disjoint
  <2> QED
    BY <2>1, <2>2, <2>3, <2>4 DEF Once, StoredAt
<1>9. CASE PollSubmit
  <2>1. PICK k \in 0..Len(sq) :
          /\ inflight' = inflight \cup {sq[i] : i \in 1..k}
          /\ sq' = SubSeq(sq, k + 1, Len(sq))
    BY <1>9 DEF PollSubmit, Submit
  <2>2. UNCHANGED <<cq, m_events, cb>>
    BY <1>9 DEF PollSubmit, busVars
  <2> DEFINE P == {sq[i] : i \in 1..k}
  <2>3. /\ Distinct(sq') /\ OpsIn(P) \subseteq Ops(sq) /\ Ops(sq') = Ops(sq) \ OpsIn(P)
        /\ \A e, f \in P : e.m_status = f.m_status => e = f
        /\ IsFiniteSet(P) /\ P \subseteq Event
    BY <1>1, <2>1, OpsSplit DEF Once
  <2>4. inflight' = inflight \cup P
    BY <2>1
  <2> HIDE DEF P
  <2>5. IsFiniteSet(inflight')
    BY <2>3, <2>4, FS_Union DEF Once
  <2>6. OpsIn(inflight') = OpsIn(inflight) \cup OpsIn(P)
    BY <2>4 DEF OpsIn
  <2>7. \A e \in inflight, f \in P : e.m_status # f.m_status
    BY <2>3 DEF Once, Disjoint, OpsIn
  <2>8. \A e, f \in inflight' : e.m_status = f.m_status => e = f
    BY <2>3, <2>4, <2>7 DEF Once
  <2>9. Disjoint(Ops(sq'), OpsIn(inflight'), Ops(cq), Ops(m_events), Stored)
    BY <2>3, <2>6 DEF Once, Disjoint
  <2> QED
    BY <2>2, <2>3, <2>5, <2>8, <2>9 DEF Once, Stored
<1>10. CASE PollReap
  <2>1. /\ cq # <<>> /\ cq' = Tail(cq) /\ m_events' = Append(m_events, Head(cq))
        /\ UNCHANGED <<sq, inflight, cb>>
    BY <1>10 DEF PollReap, add_event, io_uring_cqe_seen, busVars
  <2> DEFINE o == Head(cq).m_status
  <2>2. /\ Head(cq) \in Event /\ o \in Ops(cq)
        /\ Distinct(cq') /\ Ops(cq') = Ops(cq) \ {o}
    BY <1>1, <2>1, OpsTail DEF Once
  <2>3. Distinct(m_events') /\ Ops(m_events') = Ops(m_events) \cup {o}
    <3>1. o \notin Ops(m_events)
      BY <2>2 DEF Once, Disjoint
    <3> QED
      BY <1>1, <2>1, <2>2, <3>1, OpsAppend DEF Once
  <2> HIDE DEF o
  <2>4. Disjoint(Ops(sq), OpsIn(inflight), Ops(cq'), Ops(m_events'), Stored)
    BY <2>2, <2>3 DEF Once, Disjoint
  <2> QED
    BY <2>1, <2>2, <2>3, <2>4 DEF Once, Stored
<1>11. ASSUME NEW e \in inflight, Complete(e)
       PROVE  Once'
  <2>1. /\ inflight' = inflight \ {e} /\ cq' = Append(cq, e)
        /\ UNCHANGED <<sq, m_events, cb>>
    BY <1>11 DEF Complete, loopVars, busVars
  <2>2. e \in Event /\ e.m_status \in OpsIn(inflight) /\ e.m_status \notin Ops(cq)
    BY <1>1, <1>11 DEF Once, Disjoint, OpsIn
  <2>3. Distinct(cq') /\ Ops(cq') = Ops(cq) \cup {e.m_status}
    BY <1>1, <2>1, <2>2, OpsAppend DEF Once
  <2>4. OpsIn(inflight') = OpsIn(inflight) \ {e.m_status}
    BY <1>11, <2>1 DEF OpsIn, Once
  <2>5. IsFiniteSet(inflight')
    BY <2>1, FS_RemoveElement DEF Once
  <2>6. Disjoint(Ops(sq), OpsIn(inflight'), Ops(cq'), Ops(m_events), Stored)
    BY <2>2, <2>3, <2>4 DEF Once, Disjoint
  <2> QED
    BY <2>1, <2>3, <2>5, <2>6 DEF Once, Stored
<1>12. ASSUME UNCHANGED <<sq, inflight, cq, m_events, cb>> PROVE Once'
  BY <1>1, <1>2, <1>12 DEF Stored, StoredAt
<1>13. ASSUME NEW d \in Coroutines,
              \/ \E c \in Callbacks : OnIoNullSqe(d, c)
              \/ \E e \in Coroutines : Start(d, e)
              \/ Finish(d) \/ Stop(d)
       PROVE  Once'
  BY <1>12, <1>13 DEF OnIoNullSqe, Start, Finish, Stop, loopVars, ringVars, busVars
<1>14. CASE PollThrow \/ UNCHANGED vars
  BY <1>12, <1>14 DEF PollThrow, vars, loopVars, ringVars, busVars
<1> QED
  BY <1>3, <1>4, <1>5, <1>6, <1>7, <1>8, <1>9, <1>10, <1>11, <1>13, <1>14
  DEF Next, CoroutineStep, LoopStep

LEMMA OnceInit == Init => Once
<1> SUFFICES ASSUME Init PROVE Once
  OBVIOUS
<1>1. sq = <<>> /\ cq = <<>> /\ m_events = <<>> /\ inflight = {}
  BY DEF Init
<1>2. Stored = {} /\ {c \in Callbacks : has_status(cb[c])} = {}
  BY DEF Init, Stored, Fresh, has_status
<1>3. Ops(sq) = {} /\ Ops(cq) = {} /\ Ops(m_events) = {} /\ OpsIn(inflight) = {}
  BY <1>1 DEF Ops, OpsIn
<1>4. Distinct(sq) /\ Distinct(cq) /\ Distinct(m_events)
  BY <1>1 DEF Distinct
<1> QED
  BY <1>1, <1>2, <1>3, <1>4, FS_EmptySet DEF Once, Disjoint

\* The places together are inductive with what EventLoopProofs shows.
THEOREM OnceInductive == Spec => []Once
<1>1. IndInv /\ Once /\ [Next]_vars => Once'
  BY OnceStep
<1> QED
  BY <1>1, OnceInit, Inductive, PTL DEF Spec

\* Each of two sets that share nothing adds its own number to the whole.
LEMMA CountApart ==
  ASSUME NEW S, NEW T, IsFiniteSet(S), IsFiniteSet(T), S \cap T = {}
  PROVE  /\ IsFiniteSet(S \cup T) /\ Cardinality(S \cup T) = Cardinality(S) + Cardinality(T)
         /\ Cardinality(S) \in Nat /\ Cardinality(T) \in Nat
<1>1. Cardinality(S) \in Nat /\ Cardinality(T) \in Nat
  BY FS_CardinalityType
<1>2. Cardinality(S \cap T) = 0
  BY FS_EmptySet
<1>3. /\ IsFiniteSet(S \cup T)
      /\ Cardinality(S \cup T) = Cardinality(S) + Cardinality(T) - Cardinality(S \cap T)
  BY FS_Union
<1> QED
  BY <1>1, <1>2, <1>3

\* io_uring_submit, the kernel, io_service::poll and event_bus::notify pass an
\* operation on from place to place: none is reported twice.
THEOREM NeverDuplicates == Spec => []NoDuplicate
<1>1. IndInv /\ Once => NoDuplicate
  <2> SUFFICES ASSUME IndInv, Once PROVE NoDuplicate
    OBVIOUS
  <2>1. /\ IsFiniteSet(Ops(sq)) /\ Cardinality(Ops(sq)) = Len(sq)
        /\ IsFiniteSet(Ops(cq)) /\ Cardinality(Ops(cq)) = Len(cq)
        /\ IsFiniteSet(Ops(m_events)) /\ Cardinality(Ops(m_events)) = Len(m_events)
    BY OpsCount DEF IndInv, Registry, TypeOK, Once
  <2>2. IsFiniteSet(OpsIn(inflight)) /\ Cardinality(OpsIn(inflight)) = Cardinality(inflight)
    <3> DEFINE f == [e \in inflight |-> e.m_status]
    <3>1. /\ f \in Surjection(inflight, OpsIn(inflight))
          /\ f \in Injection(inflight, OpsIn(inflight))
      BY DEF Surjection, Injection, IsInjective, OpsIn, Once
    <3> QED
      BY <3>1, FS_Surjection DEF Once
  <2>3. IsFiniteSet(Stored) /\ Cardinality(Stored) = Cardinality(StoredAt)
    <3> DEFINE f == [c \in StoredAt |-> cb[c].m_status_opt]
    <3>1. f \in Surjection(StoredAt, Stored)
      BY DEF Surjection, Stored, StoredAt, has_status
    <3>2. ASSUME NEW c \in StoredAt PROVE c \in Callbacks /\ c = m_callbacks[cb[c].m_status_opt.inc]
      <4>1. c \in Callbacks /\ has_status(cb[c])
        BY DEF StoredAt
      <4>2. m_id[c] # 0
        BY <4>1 DEF IndInv, Waiting, EmptyStorage, Fresh, has_status
      <4> QED
        BY <4>1, <4>2 DEF IndInv, TrueIds, Registry, Identity, BusConsistent
    <3>3. f \in Injection(StoredAt, Stored)
      BY <3>1, <3>2 DEF Surjection, Injection, IsInjective
    <3>4. IsFiniteSet(StoredAt)
      BY DEF Once, StoredAt
    <3> QED
      BY <3>1, <3>3, <3>4, FS_Surjection
  <2> DEFINE q == Ops(sq)
             k == OpsIn(inflight)
             r == Ops(cq)
             v == Ops(m_events)
             t == Stored
  <2>4. /\ q \cap k = {} /\ (q \cup k) \cap r = {} /\ (q \cup k \cup r) \cap v = {}
        /\ (q \cup k \cup r \cup v) \cap t = {}
    BY DEF Once, Disjoint
  <2>5. AllOps = q \cup k \cup r \cup v \cup t
    BY AllOpsPlaces
  <2>6. /\ IsFiniteSet(q) /\ IsFiniteSet(k) /\ IsFiniteSet(r) /\ IsFiniteSet(v)
        /\ IsFiniteSet(t)
    BY <2>1, <2>2, <2>3
  <2> HIDE DEF q, k, r, v, t
  <2>7. /\ IsFiniteSet(q \cup k) /\ Cardinality(q \cup k) = Cardinality(q) + Cardinality(k)
        /\ Cardinality(q) \in Nat /\ Cardinality(k) \in Nat
    BY <2>4, <2>6, CountApart
  <2>8. /\ IsFiniteSet(q \cup k \cup r)
        /\ Cardinality(q \cup k \cup r) = Cardinality(q \cup k) + Cardinality(r)
        /\ Cardinality(r) \in Nat
    BY <2>4, <2>6, <2>7, CountApart
  <2>9. /\ IsFiniteSet(q \cup k \cup r \cup v)
        /\ Cardinality(q \cup k \cup r \cup v) = Cardinality(q \cup k \cup r) + Cardinality(v)
        /\ Cardinality(v) \in Nat
    BY <2>4, <2>6, <2>8, CountApart
  <2>10. /\ Cardinality(AllOps) = Cardinality(q \cup k \cup r \cup v) + Cardinality(t)
         /\ Cardinality(t) \in Nat
    BY <2>4, <2>5, <2>6, <2>9, CountApart
  <2>11. Cardinality(AllOps) = Len(sq) + Cardinality(inflight) + Len(cq) + Len(m_events)
                                   + Cardinality(StoredAt)
    BY <2>1, <2>2, <2>3, <2>7, <2>8, <2>9, <2>10 DEF q, k, r, v, t
  <2> QED
    BY <2>11 DEF NoDuplicate, AllOps, StoredAt
<1> QED
  BY <1>1, OnceInductive, Inductive, PTL

----------------------------------------------------------------------------
(* What a suspended coroutine waits for *)

\* Only a dispatch takes something off the way, and only the head of m_events.
LEMMA StaysOnTheWay ==
  ASSUME IndInv, [Next]_vars, NEW e \in OnTheWay
  PROVE  e \in OnTheWay' \/ (Dispatch /\ e = Head(m_events))
<1>1. /\ sq \in Seq(Event) /\ cq \in Seq(Event) /\ m_events \in Seq(Event)
      /\ inflight \subseteq Event
  BY DEF IndInv, Registry, TypeOK
<1>2. ASSUME NEW d \in Coroutines, NEW c \in Callbacks, OnIo(d, c)
      PROVE  e \in OnTheWay'
  <2>1. PICK x : sq' = Append(sq, x)
    BY <1>2 DEF OnIo, QueueSqe
  <2>2. UNCHANGED <<inflight, cq, m_events>>
    BY <1>2 DEF OnIo, loopVars
  <2>3. Elems(sq') = Elems(sq) \cup {x}
    BY <1>1, <2>1, ElemsAppend
  <2> QED
    BY <2>2, <2>3 DEF OnTheWay
<1>3. ASSUME NEW d \in Coroutines, NEW t \in triggers, Activate(d, t)
      PROVE  e \in OnTheWay'
  <2>1. PICK x : m_events' = Append(m_events, x)
    BY <1>3 DEF Activate, add_event
  <2>2. UNCHANGED <<inflight, cq, sq>>
    BY <1>3 DEF Activate, ringVars
  <2>3. Elems(m_events') = Elems(m_events) \cup {x}
    BY <1>1, <2>1, ElemsAppend
  <2> QED
    BY <2>2, <2>3 DEF OnTheWay
<1>4. CASE Dispatch
  <2>1. /\ m_events # <<>> /\ m_events' = Tail(m_events)
        /\ UNCHANGED <<inflight, cq, sq>>
    BY <1>4 DEF Dispatch, ringVars
  <2>2. Elems(m_events) = Elems(m_events') \cup {Head(m_events)}
    BY <1>1, <2>1, ElemsTail
  <2> QED
    BY <1>4, <2>1, <2>2 DEF OnTheWay
<1>5. CASE PollSubmit
  <2>1. PICK k \in 0..Len(sq) :
          /\ inflight' = inflight \cup {sq[i] : i \in 1..k}
          /\ sq' = SubSeq(sq, k + 1, Len(sq))
    BY <1>5 DEF PollSubmit, Submit
  <2>2. UNCHANGED <<cq, m_events>>
    BY <1>5 DEF PollSubmit
  <2>3. Elems(sq) = {sq[i] : i \in 1..k} \cup Elems(sq')
    BY <1>1, <2>1, ElemsSubSeq
  <2> QED
    BY <2>1, <2>2, <2>3 DEF OnTheWay
<1>6. CASE PollReap
  <2>1. /\ cq # <<>> /\ cq' = Tail(cq) /\ m_events' = Append(m_events, Head(cq))
        /\ UNCHANGED <<inflight, sq>>
    BY <1>6 DEF PollReap, add_event, io_uring_cqe_seen
  <2>2. Elems(cq) = Elems(cq') \cup {Head(cq)}
    BY <1>1, <2>1, ElemsTail
  <2>3. Elems(m_events') = Elems(m_events) \cup {Head(cq)}
    BY <1>1, <2>1, ElemsAppend
  <2> QED
    BY <2>1, <2>2, <2>3 DEF OnTheWay
<1>7. ASSUME NEW f \in inflight, Complete(f) PROVE e \in OnTheWay'
  <2>1. /\ inflight' = inflight \ {f} /\ cq' = Append(cq, f)
        /\ UNCHANGED <<sq, m_events>>
    BY <1>7 DEF Complete, loopVars
  <2>2. Elems(cq') = Elems(cq) \cup {f}
    BY <1>1, <2>1, ElemsAppend
  <2> QED
    BY <2>1, <2>2 DEF OnTheWay
<1>8. ASSUME UNCHANGED <<sq, inflight, cq, m_events>> PROVE e \in OnTheWay'
  BY <1>8 DEF OnTheWay
<1>9. ASSUME NEW d \in Coroutines,
              \/ \E c \in Callbacks : \/ Construct(d, c) \/ Destruct(d, c)
                                      \/ AwaitSignal(d, c) \/ OnIoNullSqe(d, c)
              \/ \E f \in Coroutines : Start(d, f) \/ Cancel(d, f)
              \/ Finish(d) \/ Stop(d)
       PROVE  e \in OnTheWay'
  BY <1>8, <1>9 DEF Construct, Destruct, AwaitSignal, OnIoNullSqe, Start, Cancel,
                     Finish, Stop, loopVars, ringVars
<1>10. CASE PollThrow \/ UNCHANGED vars
  BY <1>8, <1>10 DEF PollThrow, vars, loopVars, ringVars
<1> QED
  BY <1>2, <1>3, <1>4, <1>5, <1>6, <1>7, <1>9, <1>10
  DEF Next, CoroutineStep, LoopStep

\* A step ends a wait, starts one, or leaves it with its operation and listener.
LEMMA WaitKept ==
  ASSUME IndInv, [Next]_vars, NEW d \in Coroutines, waits[d] # NoCallback,
         waits'[d] # NoCallback
  PROVE  /\ waits'[d] = waits[d] /\ issued'[d] = issued[d]
         /\ m_id'[waits[d]] = m_id[waits[d]] /\ inc'[waits[d]] = inc[waits[d]]
         /\ doubled \subseteq doubled' /\ abandoned \subseteq abandoned'
<1> USE EventLoopAssumption
<1>1. /\ waits[d] \in Callbacks /\ m_id[waits[d]] # 0
      /\ waits \in [Coroutines -> Callbacks \cup {NoCallback}]
      /\ issued \in [Coroutines -> Op \cup {NoStatus}]
      /\ m_id \in [Callbacks -> 0..MaxConstructs] /\ inc \in [Callbacks -> 0..MaxConstructs]
  BY DEF IndInv, Registry, TypeOK, WaitsLive
<1>2. ASSUME NEW e \in Coroutines, Running(e) PROVE e # d
  <2>1. stack \in Seq(Coroutines) /\ stack # <<>> /\ stack[1] = e /\ 1 \in 1..Len(stack)
    BY <1>2, TailFacts DEF Running, IndInv, Registry, TypeOK
  <2> QED
    BY <2>1 DEF IndInv, Waiting, StackAwake
<1>3. ASSUME NEW e \in Coroutines, NEW c \in Callbacks, Construct(e, c) \/ Destruct(e, c)
      PROVE  /\ waits' = waits /\ issued' = issued /\ c # waits[d]
             /\ \E n : m_id' = [m_id EXCEPT ![c] = n]
             /\ inc' = inc \/ \E n : inc' = [inc EXCEPT ![c] = n]
             /\ UNCHANGED <<doubled, abandoned>>
  BY <1>1, <1>3 DEF Construct, Destruct, register_event_callback, coroVars, history
<1>4. ASSUME NEW e \in Coroutines, NEW c \in Callbacks, AwaitSignal(e, c) \/ OnIo(e, c)
      PROVE  /\ e # d /\ UNCHANGED <<m_id, inc, abandoned>> /\ doubled \subseteq doubled'
             /\ waits' = waits \/ waits' = [waits EXCEPT ![e] = c]
             /\ issued' = issued \/ \E o : issued' = [issued EXCEPT ![e] = o]
  <2>1. Running(e) /\ Await(e, c) /\ UNCHANGED <<m_id, inc, abandoned>>
    BY <1>4 DEF AwaitSignal, OnIo
  <2>2. doubled \subseteq doubled' /\ (waits' = waits \/ waits' = [waits EXCEPT ![e] = c])
    BY <2>1 DEF Await, AwaitReady, AwaitSuspend, AwaitThrow
  <2>3. issued' = issued \/ \E o : issued' = [issued EXCEPT ![e] = o]
    BY <1>4 DEF AwaitSignal, OnIo
  <2> QED
    BY <1>2, <2>1, <2>2, <2>3
<1>5. ASSUME NEW e \in Coroutines, NEW f \in Coroutines, Cancel(e, f)
      PROVE  /\ waits' = [waits EXCEPT ![f] = NoCallback]
             /\ issued' = [issued EXCEPT ![f] = NoStatus]
             /\ UNCHANGED <<m_id, inc, doubled>> /\ abandoned \subseteq abandoned'
  BY <1>5 DEF Cancel
<1>6. ASSUME Dispatch
      PROVE  /\ UNCHANGED <<m_id, inc, doubled, abandoned>>
             /\ \/ UNCHANGED <<waits, issued>>
                \/ \E f : /\ waits' = [waits EXCEPT ![f] = NoCallback]
                          /\ issued' = [issued EXCEPT ![f] = NoStatus]
  BY <1>6 DEF Dispatch, Notify, NotifyUnknown, NotifyStored, NotifyResumes
<1>7. ASSUME UNCHANGED <<waits, issued, m_id, inc, doubled, abandoned>>
      PROVE  /\ waits'[d] = waits[d] /\ issued'[d] = issued[d]
             /\ m_id'[waits[d]] = m_id[waits[d]] /\ inc'[waits[d]] = inc[waits[d]]
             /\ doubled \subseteq doubled' /\ abandoned \subseteq abandoned'
  BY <1>7
<1>8. ASSUME NEW e \in Coroutines,
             \/ \E c \in Callbacks : OnIoNullSqe(e, c)
             \/ \E t \in triggers : Activate(e, t)
             \/ \E f \in Coroutines : Start(e, f)
             \/ Finish(e) \/ Stop(e)
      PROVE  UNCHANGED <<waits, issued, m_id, inc, doubled, abandoned>>
  BY <1>8 DEF OnIoNullSqe, Activate, Start, Finish, Stop, coroVars, busVars, history
<1>9. ASSUME \/ PollSubmit \/ PollReap \/ PollThrow \/ UNCHANGED vars
             \/ \E e \in inflight : Complete(e)
      PROVE  UNCHANGED <<waits, issued, m_id, inc, doubled, abandoned>>
  BY <1>9 DEF PollSubmit, PollReap, PollThrow, Complete, vars, coroVars, busVars, history
<1>10. CASE \E e \in Coroutines, c \in Callbacks : Construct(e, c) \/ Destruct(e, c)
  BY <1>1, <1>3, <1>10
<1>11. CASE \E e \in Coroutines, c \in Callbacks : AwaitSignal(e, c) \/ OnIo(e, c)
  BY <1>1, <1>4, <1>11
<1>12. CASE \E e \in Coroutines, f \in Coroutines : Cancel(e, f)
  BY <1>1, <1>5, <1>12
<1>13. CASE Dispatch
  BY <1>1, <1>6, <1>13
<1> QED
  BY <1>7, <1>8, <1>9, <1>10, <1>11, <1>12, <1>13 DEF Next, CoroutineStep, LoopStep

\* A wait on a listener starts with its operation queued under the listener's id.
LEMMA WaitStarts ==
  ASSUME IndInv, [Next]_vars, NEW d \in Coroutines, waits[d] = NoCallback,
         waits'[d] \in Listeners
  PROVE  /\ [m_id |-> m_id'[waits'[d]], m_status |-> issued'[d]] \in OnTheWay'
         /\ OnIo(d, waits'[d]) /\ AwaitSuspend(d, waits'[d])
<1> USE EventLoopAssumption
<1>1. /\ waits \in [Coroutines -> Callbacks \cup {NoCallback}] /\ NoCallback \notin Listeners
      /\ issued \in [Coroutines -> Op \cup {NoStatus}] /\ sq \in Seq(Event)
  BY DEF IndInv, Registry, TypeOK, Callbacks
<1>2. ASSUME waits' = waits \/ \E f : waits' = [waits EXCEPT ![f] = NoCallback]
      PROVE  FALSE
  BY <1>1, <1>2
<1>3. PICK e \in Coroutines, c \in Callbacks :
          /\ AwaitSignal(e, c) \/ OnIo(e, c)
          /\ AwaitSuspend(e, c)
  <2>1. ASSUME NEW e \in Coroutines,
               \/ \E c \in Callbacks : Construct(e, c) \/ Destruct(e, c) \/ OnIoNullSqe(e, c)
               \/ \E t \in triggers : Activate(e, t)
               \/ \E f \in Coroutines : Start(e, f) \/ Cancel(e, f)
               \/ Finish(e) \/ Stop(e)
        PROVE  FALSE
    BY <1>2, <2>1 DEF Construct, Destruct, OnIoNullSqe, Activate, Start, Cancel, Finish,
                      Stop, coroVars
  <2>2. CASE Dispatch
    BY <1>2, <2>2 DEF Dispatch, Notify, NotifyUnknown, NotifyStored, NotifyResumes
  <2>3. CASE \/ PollSubmit \/ PollReap \/ PollThrow \/ UNCHANGED vars
             \/ \E e \in inflight : Complete(e)
    BY <1>2, <2>3 DEF PollSubmit, PollReap, PollThrow, Complete, vars, coroVars
  <2>4. PICK e \in Coroutines, c \in Callbacks : AwaitSignal(e, c) \/ OnIo(e, c)
    BY <2>1, <2>2, <2>3 DEF Next, CoroutineStep, LoopStep
  <2>5. ~AwaitReady(e, c) /\ ~AwaitThrow(e, c)
    BY <1>2 DEF AwaitReady, AwaitThrow
  <2> QED
    BY <2>4, <2>5 DEF AwaitSignal, OnIo, Await
<1>4. waits' = [waits EXCEPT ![e] = c]
  BY <1>3 DEF AwaitSuspend
<1>5. e = d /\ waits'[d] = c
  BY <1>1, <1>4
<1>6. OnIo(d, c)
  BY <1>3, <1>5 DEF AwaitSignal
<1>7. PICK n \in FreeOpIds : /\ QueueSqe(c, [inc |-> inc[c], n |-> n])
                             /\ issued' = [issued EXCEPT ![d] = [inc |-> inc[c], n |-> n]]
  BY <1>5, <1>6 DEF OnIo
<1>8. /\ issued'[d] = [inc |-> inc[c], n |-> n] /\ m_id' = m_id
      /\ sq' = Append(sq, [m_id |-> m_id[c], m_status |-> [inc |-> inc[c], n |-> n]])
  BY <1>1, <1>6, <1>7 DEF OnIo, QueueSqe
<1>9. [m_id |-> m_id[c], m_status |-> issued'[d]] \in Elems(sq')
  BY <1>1, <1>8, ElemsAppend
<1> QED
  BY <1>3, <1>5, <1>6, <1>8, <1>9 DEF OnTheWay

LEMMA NoLostStep ==
  ASSUME IndInv, IndInv', NoLostCompletion, [Next]_vars
  PROVE  NoLostCompletion'
<1> USE EventLoopAssumption
<1> SUFFICES ASSUME NEW d \in Coroutines, waits'[d] \in Listeners,
                    inc'[waits'[d]] \notin doubled'
             PROVE  [m_id |-> m_id'[waits'[d]], m_status |-> issued'[d]] \in OnTheWay'
  BY DEF NoLostCompletion
<1>1. CASE waits[d] = NoCallback
  BY <1>1, WaitStarts
<1>2. CASE waits[d] # NoCallback
  <2> DEFINE c == waits[d]
             e == [m_id |-> m_id[c], m_status |-> issued[d]]
  <2>0. waits'[d] # NoCallback
    BY DEF Callbacks
  <2>1. /\ waits'[d] = c /\ issued'[d] = issued[d] /\ m_id'[c] = m_id[c]
        /\ inc'[c] = inc[c] /\ doubled \subseteq doubled'
    BY <1>2, <2>0, WaitKept
  <2>2. c \in Listeners /\ c \in Callbacks /\ inc[c] \notin doubled /\ m_id[c] # 0
    BY <2>1 DEF IndInv, Registry, WaitsLive, Callbacks
  <2>3. e \in OnTheWay
    BY <2>2 DEF NoLostCompletion
  <2>4. ASSUME Dispatch, e = Head(m_events) PROVE FALSE
    <3>1. m_callbacks[e.m_id] = c /\ c # NoCallback
      BY <1>2, <2>2 DEF IndInv, Registry, BusConsistent
    <3>2. cb[c].m_suspended = d /\ has_handle(cb[c])
      BY <1>2, <2>2, NoopAssumption DEF IndInv, Waiting, WaiterKnown, has_handle
    <3>3. NotifyResumes(e, c)
      BY <2>4, <3>1, <3>2 DEF Dispatch, Notify, NotifyUnknown, NotifyStored
    <3>4. waits' = [waits EXCEPT ![d] = NoCallback]
      BY <3>2, <3>3 DEF NotifyResumes
    <3> QED
      BY <2>0, <3>4 DEF IndInv, Registry, TypeOK
  <2>5. e \in OnTheWay'
    BY <2>3, <2>4, StaysOnTheWay
  <2> QED
    BY <2>1, <2>5
<1> QED
  BY <1>1, <1>2

\* The completion that a coroutine suspended in I/O waits for is under way until
\* the step that resumes the coroutine.
THEOREM NeverLosesCompletion == Spec => []NoLostCompletion
<1>1. Init => NoLostCompletion
  BY EventLoopAssumption DEF Init, NoLostCompletion, Callbacks
<1>2. IndInv /\ IndInv' /\ NoLostCompletion /\ [Next]_vars => NoLostCompletion'
  BY NoLostStep
<1> QED
  BY <1>1, <1>2, Inductive, PTL DEF Spec

----------------------------------------------------------------------------
(* Whose operations are anywhere *)

\* Operations and triggers are of constructions that have been, and no trigger is
\* that of a listener.
Aged ==
    /\ \A o \in AllOps : o.inc <= births
    /\ \A t \in triggers : t.inc <= births
    /\ \A t \in triggers, c \in Listeners : m_id[c] # 0 => t.inc # inc[c]

\* Only a dispatch stores a status, that of the event it takes.
LEMMA StoredStep ==
  ASSUME IndInv, Once, [Next]_vars
  PROVE  \/ Stored' \subseteq Stored
         \/ Dispatch /\ Stored' \subseteq Stored \cup {Head(m_events).m_status}
<1>1. IsFiniteSet(StoredAt)
  BY DEF Once, StoredAt
<1>2. ASSUME NEW d \in Coroutines, NEW c \in Callbacks, Construct(d, c) \/ Destruct(d, c)
      PROVE  Stored' \subseteq Stored
  <2>1. cb' = [cb EXCEPT ![c] = Fresh] /\ Fresh.m_status_opt = NoStatus
    BY <1>2 DEF Construct, Destruct, Fresh
  <2> QED
    BY <1>1, <2>1, CallbackChange
<1>3. ASSUME NEW d \in Coroutines, NEW c \in Callbacks, AwaitSignal(d, c) \/ OnIo(d, c)
      PROVE  Stored' \subseteq Stored
  BY <1>1, <1>3, AwaitStored DEF AwaitSignal, OnIo
<1>4. ASSUME NEW d \in Coroutines, NEW e \in Coroutines, Cancel(d, e)
      PROVE  Stored' \subseteq Stored
  <2>1. /\ waits[e] \in Callbacks /\ cb' = [cb EXCEPT ![waits[e]] = reset(cb[waits[e]])]
        /\ reset(cb[waits[e]]).m_status_opt = NoStatus
    BY <1>4 DEF Cancel, Unawait, reset, IndInv, Registry, TypeOK
  <2>2. PICK c \in Callbacks :
           \E x : cb' = [cb EXCEPT ![c] = x] /\ x.m_status_opt = NoStatus
    BY <2>1
  <2> QED
    BY <1>1, <2>2, CallbackChange
<1>5. ASSUME cb' = cb PROVE Stored' \subseteq Stored
  BY <1>5 DEF Stored
<1>6. ASSUME NEW d \in Coroutines,
             \/ \E c \in Callbacks : OnIoNullSqe(d, c)
             \/ \E t \in triggers : Activate(d, t)
             \/ \E e \in Coroutines : Start(d, e)
             \/ Finish(d) \/ Stop(d)
      PROVE  cb' = cb
  BY <1>6 DEF OnIoNullSqe, Activate, Start, Finish, Stop, busVars
<1>7. ASSUME \/ PollSubmit \/ PollReap \/ PollThrow \/ UNCHANGED vars
             \/ \E e \in inflight : Complete(e)
      PROVE  cb' = cb
  BY <1>7 DEF PollSubmit, PollReap, PollThrow, Complete, vars, busVars
<1>8. Dispatch => Stored' \subseteq Stored \cup {Head(m_events).m_status}
  BY <1>1, DispatchStored
<1> QED
  BY <1>2, <1>3, <1>4, <1>5, <1>6, <1>7, <1>8 DEF Next, CoroutineStep, LoopStep

\* Where an operation that was nowhere before comes from.
LEMMA AllOpsStep ==
  ASSUME IndInv, Once, [Next]_vars, NEW o \in AllOps'
  PROVE  \/ o \in AllOps
         \/ \E c \in Listeners, d \in Coroutines :
                m_id[c] # 0 /\ o.inc = inc[c] /\ OnIo(d, c)
         \/ \E t \in triggers : o.inc = t.inc
<1>1. CASE o \in Stored'
  <2>1. Dispatch => Head(m_events) \in OnTheWay
    BY ElemsTail DEF Dispatch, IndInv, Registry, TypeOK, OnTheWay
  <2> QED
    BY <1>1, <2>1, StoredStep DEF AllOps
<1>2. CASE \E e \in OnTheWay' : o = e.m_status
  <2>1. PICK e \in OnTheWay' : o = e.m_status
    BY <1>2
  <2>2. CASE OnTheWay' \subseteq OnTheWay
    BY <2>1, <2>2 DEF AllOps
  <2>3. ASSUME NEW c \in Listeners, NEW n \in OpIds, NEW d \in Coroutines,
               m_id[c] # 0, OnIo(d, c),
               OnTheWay' = OnTheWay \cup
                   {[m_id |-> m_id[c], m_status |-> [inc |-> inc[c], n |-> n]]}
        PROVE  \/ o \in AllOps
               \/ \E k \in Listeners, f \in Coroutines :
                      m_id[k] # 0 /\ o.inc = inc[k] /\ OnIo(f, k)
    <3>1. e \in OnTheWay \/ o = [inc |-> inc[c], n |-> n]
      BY <2>1, <2>3
    <3>2. o = [inc |-> inc[c], n |-> n] => o.inc = inc[c]
      OBVIOUS
    <3> QED
      BY <2>1, <2>3, <3>1, <3>2 DEF AllOps
  <2>4. ASSUME NEW t \in triggers, NEW n \in OpIds,
               OnTheWay' = OnTheWay \cup
                   {[m_id |-> t.m_id, m_status |-> [inc |-> t.inc, n |-> n]]}
        PROVE  o \in AllOps \/ o.inc = t.inc
    <3>1. e \in OnTheWay \/ o = [inc |-> t.inc, n |-> n]
      BY <2>1, <2>4
    <3> QED
      BY <2>1, <3>1 DEF AllOps
  <2> QED
    BY <2>2, <2>3, <2>4, OnTheWayStep DEF IndInv, Registry
<1> QED
  BY <1>1, <1>2 DEF AllOps

LEMMA AgedStep ==
  ASSUME IndInv, Once, Aged, [Next]_vars
  PROVE  Aged'
<1> USE EventLoopAssumption
<1>1. /\ births \in Nat /\ m_id \in [Callbacks -> 0..MaxConstructs]
      /\ inc \in [Callbacks -> 0..MaxConstructs]
      /\ triggers \subseteq [m_id : 1..MaxConstructs, inc : 1..MaxConstructs]
      /\ \A c \in Callbacks : m_id[c] # 0 => inc[c] <= births
      /\ Listeners \subseteq Callbacks
  BY DEF IndInv, Registry, TypeOK, Identity, Callbacks
<1>2. \A o \in AllOps' : o.inc <= births
  BY <1>1, AllOpsStep DEF Aged
<1>3. \A o \in AllOps : o.inc \in Nat
  <2>1. \A e \in OnTheWay : e \in Event
    BY DEF OnTheWay, Elems, IndInv, Registry, TypeOK
  <2>2. \A o \in Stored : o \in Op
    BY DEF Stored, IndInv, Registry, TypeOK, Callback
  <2> QED
    BY <2>1, <2>2 DEF AllOps, Event, Op
<1>4. ASSUME UNCHANGED <<births, triggers, inc, m_id>> PROVE Aged'
  BY <1>2, <1>4 DEF Aged
<1>5. ASSUME NEW d \in Coroutines, NEW c \in Callbacks, Construct(d, c) PROVE Aged'
  <2>1. /\ births' = births + 1 /\ inc' = [inc EXCEPT ![c] = births + 1]
        /\ \E n : m_id' = [m_id EXCEPT ![c] = n]
        /\ \A t \in triggers' : t \in triggers \/ (c \in Signals /\ t.inc = births + 1)
    <3>1. /\ births' = births + 1 /\ inc' = [inc EXCEPT ![c] = births + 1]
          /\ m_id' = [m_id EXCEPT ![c] = m_id_counter + 1]
      BY <1>5 DEF Construct, register_event_callback
    <3>2. triggers' = IF c \in Signals
                      THEN triggers \cup {[m_id |-> m_id'[c], inc |-> births + 1]}
                      ELSE triggers
      BY <1>5 DEF Construct
    <3>3. ASSUME NEW t \in triggers', t \notin triggers
          PROVE  c \in Signals /\ t.inc = births + 1
      <4>1. c \in Signals /\ t = [m_id |-> m_id'[c], inc |-> births + 1]
        BY <3>2, <3>3
      <4> QED
        BY <4>1
    <3>4. \E n : m_id' = [m_id EXCEPT ![c] = n]
      BY <3>1
    <3> QED
      BY <3>1, <3>3, <3>4
  <2>2. \A o \in AllOps' : o.inc <= births + 1
    <3>1. ASSUME NEW o \in AllOps' PROVE o.inc \in Nat
      <4>1. o \in AllOps \/ (\E k \in Listeners : o.inc = inc[k]) \/ \E t \in triggers : o.inc = t.inc
        BY AllOpsStep
      <4> QED
        BY <1>1, <1>3, <4>1
    <3> QED
      BY <1>1, <1>2, <3>1
  <2>3. \A t \in triggers : t.inc \in Nat /\ t.inc <= births
    BY <1>1 DEF Aged
  <2>4. \A t \in triggers' : t.inc <= births + 1
    BY <1>1, <2>1, <2>3
  <2>5. \A t \in triggers', k \in Listeners : m_id'[k] # 0 => t.inc # inc'[k]
    <3> SUFFICES ASSUME NEW t \in triggers', NEW k \in Listeners, m_id'[k] # 0
                 PROVE  t.inc # inc'[k]
      OBVIOUS
    <3>1. k = c => inc'[k] = births + 1 /\ c \notin Signals
      BY <1>1, <2>1
    <3>2. k # c => inc'[k] = inc[k] /\ m_id[k] # 0 /\ inc[k] <= births /\ inc[k] \in Nat
      BY <1>1, <2>1
    <3> QED
      BY <1>1, <2>1, <2>3, <3>1, <3>2 DEF Aged
  <2> QED
    BY <2>1, <2>2, <2>4, <2>5 DEF Aged
<1>6. ASSUME NEW d \in Coroutines, NEW c \in Callbacks, Destruct(d, c) PROVE Aged'
  <2>1. UNCHANGED <<births, triggers, inc>> /\ m_id' = [m_id EXCEPT ![c] = 0]
    BY <1>6 DEF Destruct, history
  <2> QED
    BY <1>1, <1>2, <2>1 DEF Aged
<1>7. ASSUME NEW d \in Coroutines,
             \/ \E c \in Callbacks : AwaitSignal(d, c) \/ OnIo(d, c) \/ OnIoNullSqe(d, c)
             \/ \E t \in triggers : Activate(d, t)
             \/ \E e \in Coroutines : Start(d, e) \/ Cancel(d, e)
             \/ Finish(d) \/ Stop(d)
      PROVE  UNCHANGED <<births, triggers, inc, m_id>>
  BY <1>7 DEF AwaitSignal, OnIo, OnIoNullSqe, Activate, Start, Cancel, Finish, Stop,
              busVars, history
<1>8. ASSUME \/ Dispatch \/ PollSubmit \/ PollReap \/ PollThrow \/ UNCHANGED vars
             \/ \E e \in inflight : Complete(e)
      PROVE  UNCHANGED <<births, triggers, inc, m_id>>
  BY <1>8 DEF Dispatch, PollSubmit, PollReap, PollThrow, Complete, vars, busVars, history
<1> QED
  BY <1>4, <1>5, <1>6, <1>7, <1>8 DEF Next, CoroutineStep, LoopStep

\* A construction that stays clean was clean, and a listener that is there after a
\* step is the one that was there or a new one.
LEMMA ListenerStep ==
  ASSUME IndInv, [Next]_vars, NEW c \in Callbacks, m_id'[c] # 0
  PROVE  /\ doubled \subseteq doubled' /\ abandoned \subseteq abandoned'
         /\ \/ m_id[c] # 0 /\ m_id'[c] = m_id[c] /\ inc'[c] = inc[c]
            \/ m_id[c] = 0 /\ inc'[c] = births + 1 /\ births' = births + 1
<1> USE EventLoopAssumption
<1>1. m_id \in [Callbacks -> 0..MaxConstructs] /\ inc \in [Callbacks -> 0..MaxConstructs]
  BY DEF IndInv, Registry, TypeOK
<1>2. ASSUME NEW d \in Coroutines, NEW k \in Callbacks, Construct(d, k)
      PROVE  /\ UNCHANGED <<doubled, abandoned>> /\ m_id[k] = 0
             /\ inc' = [inc EXCEPT ![k] = births + 1] /\ births' = births + 1
             /\ \E n : m_id' = [m_id EXCEPT ![k] = n]
  BY <1>2 DEF Construct, register_event_callback
<1>3. ASSUME NEW d \in Coroutines, NEW k \in Callbacks, Destruct(d, k)
      PROVE  UNCHANGED <<doubled, abandoned, inc>> /\ m_id' = [m_id EXCEPT ![k] = 0]
  BY <1>3 DEF Destruct, history
<1>4. ASSUME NEW d \in Coroutines, NEW k \in Callbacks, AwaitSignal(d, k) \/ OnIo(d, k)
      PROVE  UNCHANGED <<m_id, inc, abandoned>> /\ doubled \subseteq doubled'
  <2>1. Await(d, k) /\ UNCHANGED <<m_id, inc, abandoned>>
    BY <1>4 DEF AwaitSignal, OnIo
  <2> QED
    BY <2>1 DEF Await, AwaitReady, AwaitSuspend, AwaitThrow
<1>5. ASSUME NEW d \in Coroutines, NEW e \in Coroutines, Cancel(d, e)
      PROVE  UNCHANGED <<m_id, inc, doubled>> /\ abandoned \subseteq abandoned'
  BY <1>5 DEF Cancel
<1>6. ASSUME NEW d \in Coroutines,
             \/ \E k \in Callbacks : OnIoNullSqe(d, k)
             \/ \E t \in triggers : Activate(d, t)
             \/ \E f \in Coroutines : Start(d, f)
             \/ Finish(d) \/ Stop(d)
      PROVE  UNCHANGED <<m_id, inc, doubled, abandoned>>
  BY <1>6 DEF OnIoNullSqe, Activate, Start, Finish, Stop, busVars, history
<1>7. ASSUME \/ Dispatch \/ PollSubmit \/ PollReap \/ PollThrow \/ UNCHANGED vars
             \/ \E e \in inflight : Complete(e)
      PROVE  UNCHANGED <<m_id, inc, doubled, abandoned>>
  BY <1>7 DEF Dispatch, PollSubmit, PollReap, PollThrow, Complete, vars, busVars, history
<1>8. CASE \E d \in Coroutines, k \in Callbacks : Construct(d, k)
  BY <1>1, <1>2, <1>8
<1>9. CASE \E d \in Coroutines, k \in Callbacks : Destruct(d, k)
  BY <1>1, <1>3, <1>9
<1>10. CASE UNCHANGED <<m_id, inc>> /\ doubled \subseteq doubled' /\ abandoned \subseteq abandoned'
  BY <1>10
<1> QED
  BY <1>4, <1>5, <1>6, <1>7, <1>8, <1>9, <1>10 DEF Next, CoroutineStep, LoopStep

\* A wait ends when its coroutine is destroyed or resumed.
LEMMA WaitEnds ==
  ASSUME IndInv, [Next]_vars, NEW d \in Coroutines, waits[d] # NoCallback,
         waits'[d] = NoCallback
  PROVE  \/ inc[waits[d]] \in abandoned'
         \/ /\ Dispatch /\ NotifyResumes(Head(m_events), waits[d])
            /\ m_callbacks[Head(m_events).m_id] = waits[d]
<1> USE EventLoopAssumption
<1>1. /\ waits[d] \in Callbacks
      /\ waits \in [Coroutines -> Callbacks \cup {NoCallback}]
  BY DEF IndInv, Registry, TypeOK
<1>2. waits' # waits
  OBVIOUS
<1>3. ASSUME NEW e \in Coroutines,
             \/ \E c \in Callbacks : Construct(e, c) \/ Destruct(e, c) \/ OnIoNullSqe(e, c)
             \/ \E t \in triggers : Activate(e, t)
             \/ \E f \in Coroutines : Start(e, f)
             \/ Finish(e) \/ Stop(e)
      PROVE  FALSE
  BY <1>2, <1>3 DEF Construct, Destruct, OnIoNullSqe, Activate, Start, Finish, Stop, coroVars
<1>4. ASSUME NEW e \in Coroutines, NEW c \in Callbacks, AwaitSignal(e, c) \/ OnIo(e, c)
      PROVE  FALSE
  <2>1. waits' = [waits EXCEPT ![e] = c]
    BY <1>2, <1>4 DEF AwaitSignal, OnIo, Await, AwaitReady, AwaitSuspend, AwaitThrow
  <2> QED
    BY <1>1, <2>1
<1>5. ASSUME NEW e \in Coroutines, NEW f \in Coroutines, Cancel(e, f)
      PROVE  inc[waits[d]] \in abandoned'
  BY <1>1, <1>5 DEF Cancel
<1>6. ASSUME Dispatch
      PROVE  /\ NotifyResumes(Head(m_events), waits[d])
             /\ m_callbacks[Head(m_events).m_id] = waits[d]
  <2> DEFINE ev == Head(m_events)
             k == m_callbacks[ev.m_id]
  <2>1. k # NoCallback /\ NotifyResumes(ev, k)
    BY <1>2, <1>6 DEF Dispatch, Notify, NotifyUnknown, NotifyStored
  <2>2. ev \in Event
    BY <1>6, TailFacts DEF Dispatch, IndInv, Registry, TypeOK
  <2>3. k \in Callbacks
    BY <2>1, <2>2 DEF IndInv, Registry, TypeOK, Event
  <2>4. waits' = [waits EXCEPT ![cb[k].m_suspended] = NoCallback] /\ has_handle(cb[k])
    BY <2>1 DEF NotifyResumes
  <2>5. cb[k].m_suspended = d
    BY <1>1, <2>4
  <2>6. waits[d] = k
    BY <2>3, <2>4, <2>5 DEF IndInv, Waiting, HandleLive
  <2> QED
    BY <2>1, <2>6
<1>7. ASSUME \/ PollSubmit \/ PollReap \/ PollThrow \/ UNCHANGED vars
             \/ \E e \in inflight : Complete(e)
      PROVE  FALSE
  BY <1>2, <1>7 DEF PollSubmit, PollReap, PollThrow, Complete, vars, coroVars
<1> QED
  BY <1>3, <1>4, <1>5, <1>6, <1>7 DEF Next, CoroutineStep, LoopStep

\* A clean listener: constructed, no wait on it destroyed and none doubled.
Clean(c) == m_id[c] # 0 /\ inc[c] \notin abandoned \cup doubled

\* Every operation made through a clean listener has its coroutine waiting.
Awaited ==
    \A c \in Listeners : Clean(c) =>
        \A o \in AllOps : o.inc = inc[c] =>
            \E d \in Coroutines : waits[d] = c /\ issued[d] = o

\* An operation whose result resumes a coroutine is then in no place.
LEMMA ResumeTakes ==
  ASSUME IndInv, Once, Dispatch, NEW c \in Callbacks, NotifyResumes(Head(m_events), c)
  PROVE  Head(m_events).m_status \notin AllOps'
<1> DEFINE o == Head(m_events).m_status
<1>1. /\ m_events \in Seq(Event) /\ m_events # <<>> /\ m_events' = Tail(m_events)
      /\ UNCHANGED <<sq, inflight, cq>> /\ IsFiniteSet(StoredAt) /\ Distinct(m_events)
  BY DEF Dispatch, ringVars, IndInv, Registry, TypeOK, Once, StoredAt
<1>2. o \in Ops(m_events) /\ Ops(m_events') = Ops(m_events) \ {o}
  BY <1>1, OpsTail
<1>3. Stored' \subseteq Stored
  <2>1. cb' = [cb EXCEPT ![c] = [m_status_opt |-> NoStatus, m_suspended |-> Noop]]
    BY DEF NotifyResumes, resume, reset
  <2> DEFINE y == [m_status_opt |-> NoStatus, m_suspended |-> Noop]
  <2>2. y.m_status_opt = NoStatus
    OBVIOUS
  <2> HIDE DEF y
  <2>3. cb' = [cb EXCEPT ![c] = y]
    BY <2>1 DEF y
  <2> QED
    BY <1>1, <2>2, <2>3, CallbackChange
<1>4. AllOps' = (Ops(sq) \cup OpsIn(inflight) \cup Ops(cq) \cup Ops(m_events) \cup Stored)'
  BY DEF AllOps, OnTheWay, Elems, Ops, OpsIn
<1>5. Ops(sq)' = Ops(sq) /\ OpsIn(inflight)' = OpsIn(inflight) /\ Ops(cq)' = Ops(cq)
  BY <1>1
<1> HIDE DEF o
<1>6. o \notin Ops(sq) /\ o \notin OpsIn(inflight) /\ o \notin Ops(cq) /\ o \notin Stored
  BY <1>2 DEF Once, Disjoint
<1> QED
  BY <1>2, <1>3, <1>4, <1>5, <1>6 DEF o

\* A coroutine that waits on a clean listener is the only one.
LEMMA SoleWaiter ==
  ASSUME IndInv, NEW c \in Callbacks, Clean(c), NEW d \in Coroutines, waits[d] = c
  PROVE  cb[c].m_suspended = d /\ has_handle(cb[c]) /\ ~has_status(cb[c])
<1>1. cb[c].m_suspended = d
  BY EventLoopAssumption DEF Clean, IndInv, Waiting, WaiterKnown
<1> QED
  BY <1>1, NoopAssumption DEF IndInv, Waiting, NoSleepOnStatus, has_handle

\* Live listeners are told apart by their construction.
LEMMA SameListener ==
  ASSUME IndInv, NEW c \in Callbacks, NEW k \in Callbacks, m_id[c] # 0, m_id[k] # 0,
         inc[c] = inc[k]
  PROVE  c = k
BY DEF IndInv, Registry, Identity, BusConsistent

LEMMA AwaitedStep ==
  ASSUME IndInv, Once, Aged, Awaited, [Next]_vars
  PROVE  Awaited'
<1> USE EventLoopAssumption
<1>0. Listeners \subseteq Callbacks
  BY DEF Callbacks
<1> SUFFICES ASSUME NEW c \in Listeners, m_id'[c] # 0, inc'[c] \notin abandoned' \cup doubled',
                    NEW o \in AllOps', o.inc = inc'[c]
             PROVE  \E d \in Coroutines : waits'[d] = c /\ issued'[d] = o
  BY DEF Awaited, Clean
<1>1. /\ doubled \subseteq doubled' /\ abandoned \subseteq abandoned'
      /\ \/ m_id[c] # 0 /\ inc'[c] = inc[c]
         \/ m_id[c] = 0 /\ inc'[c] = births + 1
  BY <1>0, ListenerStep
<1>2. \/ o \in AllOps
      \/ \E k \in Listeners, d \in Coroutines : m_id[k] # 0 /\ o.inc = inc[k] /\ OnIo(d, k)
      \/ \E t \in triggers : o.inc = t.inc
  BY AllOpsStep
<1>3. m_id[c] # 0 /\ inc'[c] = inc[c]
  <2>1. o.inc <= births
    <3>1. \A k \in Listeners : m_id[k] # 0 => inc[k] <= births
      BY <1>0 DEF IndInv, Registry, Identity
    <3> QED
      BY <1>2, <3>1 DEF Aged
  <2>2. births \in Nat
    BY DEF IndInv, Registry, TypeOK
  <2> QED
    BY <1>1, <2>1, <2>2
<1>4. Clean(c) /\ c \in Callbacks /\ o.inc = inc[c]
  BY <1>0, <1>1, <1>3 DEF Clean
<1>5. CASE o \in AllOps
  <2>1. PICK d \in Coroutines : waits[d] = c /\ issued[d] = o
    BY <1>4, <1>5 DEF Awaited
  <2>2. waits[d] # NoCallback
    BY <1>4, <2>1
  <2>3. CASE waits'[d] # NoCallback
    BY <2>1, <2>2, <2>3, WaitKept
  <2>4. CASE waits'[d] = NoCallback
    <3> DEFINE ev == Head(m_events)
    <3>1. Dispatch /\ NotifyResumes(ev, c) /\ m_callbacks[ev.m_id] = c
      BY <1>3, <2>1, <2>2, <2>4, WaitEnds
    <3>2. ev \in OnTheWay /\ ev \in Event
      BY <3>1, ElemsTail, TailFacts DEF Dispatch, IndInv, Registry, TypeOK, OnTheWay
    <3>3. ev.m_status \in AllOps /\ ev.m_status.inc = inc[c]
      <4>1. m_id[c] = ev.m_id
        BY <1>4, <3>1, <3>2 DEF IndInv, Registry, BusConsistent, Event
      <4> QED
        BY <1>3, <1>4, <3>2, <4>1 DEF AllOps, IndInv, Registry, Identity, TrueIds
    <3>4. PICK f \in Coroutines : waits[f] = c /\ issued[f] = ev.m_status
      BY <1>4, <3>3 DEF Awaited
    <3>5. f = d
      BY <1>4, <2>1, <3>4, SoleWaiter
    <3>6. o \notin AllOps'
      BY <1>4, <2>1, <3>1, <3>4, <3>5, ResumeTakes
    <3> QED
      BY <3>6
  <2> QED
    BY <2>3, <2>4
<1>6. ASSUME NEW k \in Listeners, NEW d \in Coroutines, m_id[k] # 0, o.inc = inc[k],
             OnIo(d, k), o \notin AllOps
      PROVE  waits'[d] = c /\ issued'[d] = o
  <2>1. k = c /\ OnIo(d, c)
    BY <1>0, <1>3, <1>4, <1>6, SameListener
  <2>2. ~AwaitThrow(d, c)
    BY <1>3 DEF AwaitThrow
  <2>3. ~AwaitReady(d, c)
    <3> SUFFICES ASSUME has_status(cb[c]) PROVE FALSE
      BY DEF AwaitReady
    <3>1. cb[c].m_status_opt \in AllOps /\ cb[c].m_status_opt.inc = inc[c]
      BY <1>4 DEF AllOps, Stored, has_status, IndInv, TrueIds
    <3>2. PICK f \in Coroutines : waits[f] = c
      BY <1>4, <3>1 DEF Awaited
    <3> QED
      BY <1>4, <3>2, SoleWaiter
  <2>4. waits' = [waits EXCEPT ![d] = c]
    BY <2>1, <2>2, <2>3 DEF OnIo, Await, AwaitSuspend
  <2>5. waits'[d] = c
    BY <2>4 DEF IndInv, Registry, TypeOK
  <2>6. PICK n \in FreeOpIds : /\ QueueSqe(c, [inc |-> inc[c], n |-> n])
                               /\ issued' = [issued EXCEPT ![d] = [inc |-> inc[c], n |-> n]]
    BY <2>1, <2>5 DEF OnIo
  <2> DEFINE p == [inc |-> inc[c], n |-> n]
             ev == [m_id |-> m_id[c], m_status |-> p]
  <2>7. issued'[d] = p
    BY <2>6 DEF IndInv, Registry, TypeOK
  <2>8. sq' = Append(sq, ev) /\ UNCHANGED <<inflight, cq, m_events>> /\ sq \in Seq(Event)
    BY <2>1, <2>6 DEF OnIo, QueueSqe, loopVars, IndInv, Registry, TypeOK
  <2>9. Elems(sq') = Elems(sq) \cup {ev}
    BY <2>8, ElemsAppend
  <2>10. OnTheWay' \subseteq OnTheWay \cup {ev}
    BY <2>8, <2>9 DEF OnTheWay
  <2>11. Stored' \subseteq Stored
    BY <1>4, <2>1, AwaitStored DEF OnIo, Once, StoredAt
  <2>12. ev.m_status = p
    OBVIOUS
  <2> HIDE DEF p, ev
  <2>13. o = p
    BY <1>6, <2>10, <2>11, <2>12 DEF AllOps
  <2> QED
    BY <2>5, <2>7, <2>13
<1>7. ~ \E t \in triggers : o.inc = t.inc
  BY <1>3, <1>4 DEF Aged
<1> QED
  BY <1>2, <1>5, <1>6, <1>7

\* Results, and whose they are: the three parts together.
THEOREM AwaitedInductive == Spec => [](Aged /\ Awaited)
<1>1. Init => Aged /\ Awaited
  <2> SUFFICES ASSUME Init PROVE AllOps = {} /\ triggers = {}
    BY DEF Aged, Awaited
  <2>1. OnTheWay = {}
    BY DEF Init, OnTheWay, Elems
  <2>2. Stored = {}
    BY DEF Init, Stored, Fresh
  <2> QED
    BY <2>1, <2>2 DEF AllOps, Init
<1>2. IndInv /\ Once /\ Aged /\ Awaited /\ [Next]_vars => Aged' /\ Awaited'
  BY AgedStep, AwaitedStep
<1> QED
  BY <1>1, <1>2, Inductive, OnceInductive, PTL DEF Spec

\* Through a listener whose waits were all carried to their end, a coroutine
\* receives the result of its own operation and of no other.
THEOREM CompletionsOwn == Spec => []OwnCompletion
<1>1. ASSUME IndInv, Awaited, NoLostCompletion
      PROVE  OwnCompletion
  <2> SUFFICES ASSUME NEW c \in Listeners, Clean(c)
               PROVE  {o \in AllOps : o.inc = inc[c]}
                          = {issued[d] : d \in {e \in Coroutines : waits[e] = c}}
    BY DEF OwnCompletion, Clean, AllOps
  <2>1. ASSUME NEW d \in Coroutines, waits[d] = c
        PROVE  issued[d] \in AllOps /\ issued[d].inc = inc[c]
    <3>1. [m_id |-> m_id[c], m_status |-> issued[d]] \in OnTheWay
      BY <1>1, <2>1 DEF NoLostCompletion, Clean
    <3> DEFINE e == [m_id |-> m_id[c], m_status |-> issued[d]]
    <3>2. e.m_id = m_id[c] /\ e.m_status = issued[d]
      OBVIOUS
    <3> HIDE DEF e
    <3>3. e.m_id = e.m_status.inc
      BY <1>1, <3>1 DEF IndInv, TrueIds, e
    <3> QED
      BY <1>1, <3>1, <3>2, <3>3 DEF e, AllOps, Clean, IndInv, Registry, Identity, Callbacks
  <2>2. ASSUME NEW o \in AllOps, o.inc = inc[c]
        PROVE  \E d \in Coroutines : waits[d] = c /\ issued[d] = o
    BY <1>1, <2>2 DEF Awaited
  <2> QED
    BY <2>1, <2>2
<1> QED
  BY <1>1, Inductive, AwaitedInductive, NeverLosesCompletion, PTL

----------------------------------------------------------------------------
(* What fills the submission queue *)

\* An operation in the queue is that of a listener which is still there, unless
\* somebody abandoned the wait for it.
Ringed ==
    \A o \in Ops(sq) : o.inc \notin abandoned \cup doubled =>
        \E c \in Listeners : m_id[c] # 0 /\ inc[c] = o.inc

Waiters == {d \in Coroutines : waits[d] # NoCallback}

\* The process went down on a queue that was full, and few coroutines sleep.
Loaded ==
    /\ crash = "null_sqe" => Len(sq) = SQ_ENTRIES
    /\ IsFiniteSet(Waiters)

\* An entry of the queue was there or is the running coroutine's.
LEMMA SqStep ==
  ASSUME IndInv, Once, [Next]_vars, NEW o \in Ops(sq')
  PROVE  \/ o \in Ops(sq)
         \/ \E c \in Listeners, d \in Coroutines :
                m_id[c] # 0 /\ o.inc = inc[c] /\ OnIo(d, c)
<1>1. sq \in Seq(Event) /\ Distinct(sq)
  BY DEF IndInv, Registry, TypeOK, Once
<1>2. ASSUME NEW d \in Coroutines, NEW c \in Callbacks, OnIo(d, c)
      PROVE  o \in Ops(sq) \/ (c \in Listeners /\ m_id[c] # 0 /\ o.inc = inc[c])
  <2>1. PICK n \in FreeOpIds : QueueSqe(c, [inc |-> inc[c], n |-> n])
    BY <1>2 DEF OnIo
  <2> DEFINE p == [inc |-> inc[c], n |-> n]
             ev == [m_id |-> m_id[c], m_status |-> p]
  <2>2. /\ c \in Listeners /\ m_id[c] # 0 /\ sq' = Append(sq, ev)
        /\ ev.m_status = p /\ p.inc = inc[c]
    BY <1>2, <2>1 DEF OnIo, QueueSqe
  <2>3. PICK i \in 1..Len(sq') : o = sq'[i].m_status
    BY DEF Ops
  <2> HIDE DEF p, ev
  <2>4. /\ Len(sq) \in Nat /\ Len(sq') = Len(sq) + 1 /\ sq'[Len(sq) + 1] = ev
        /\ \A j \in 1..Len(sq) : sq'[j] = sq[j]
    BY <1>1, <2>2
  <2>5. i \in 1..Len(sq) \/ i = Len(sq) + 1
    BY <2>4
  <2> QED
    BY <2>2, <2>3, <2>4, <2>5 DEF Ops
<1>3. ASSUME PollSubmit PROVE o \in Ops(sq)
  <2>1. PICK k \in 0..Len(sq) : sq' = SubSeq(sq, k + 1, Len(sq))
    BY <1>3 DEF PollSubmit, Submit
  <2> QED
    BY <1>1, <2>1, OpsSplit
<1>4. ASSUME sq' = sq PROVE o \in Ops(sq)
  BY <1>4
<1>5. ASSUME NEW d \in Coroutines,
              \/ \E c \in Callbacks : \/ Construct(d, c) \/ Destruct(d, c)
                                      \/ AwaitSignal(d, c) \/ OnIoNullSqe(d, c)
              \/ \E t \in triggers : Activate(d, t)
              \/ \E f \in Coroutines : Start(d, f) \/ Cancel(d, f)
              \/ Finish(d) \/ Stop(d)
       PROVE  sq' = sq
  BY <1>5 DEF Construct, Destruct, AwaitSignal, OnIoNullSqe, Activate, Start, Cancel,
              Finish, Stop, ringVars
<1>6. ASSUME \/ Dispatch \/ PollReap \/ PollThrow \/ UNCHANGED vars
             \/ \E e \in inflight : Complete(e)
      PROVE  sq' = sq
  BY <1>6 DEF Dispatch, PollReap, PollThrow, Complete, vars, ringVars
<1> QED
  BY <1>2, <1>3, <1>4, <1>5, <1>6 DEF Next, CoroutineStep, LoopStep

\* A listener goes away only when nobody waits on it, so with nothing queued.
LEMMA ListenerStays ==
  ASSUME IndInv, Awaited, [Next]_vars, NEW c \in Listeners, Clean(c),
         NEW o \in AllOps, o.inc = inc[c]
  PROVE  m_id'[c] = m_id[c] /\ inc'[c] = inc[c]
<1> USE EventLoopAssumption
<1>1. /\ m_id \in [Callbacks -> 0..MaxConstructs] /\ inc \in [Callbacks -> 0..MaxConstructs]
      /\ c \in Callbacks /\ m_id[c] # 0
  BY DEF IndInv, Registry, TypeOK, Callbacks, Clean
<1>2. PICK e \in Coroutines : waits[e] = c
  BY DEF Awaited
<1>3. ASSUME NEW d \in Coroutines, NEW k \in Callbacks, Construct(d, k) \/ Destruct(d, k)
      PROVE  m_id'[c] = m_id[c] /\ inc'[c] = inc[c]
  <2>1. k # c
    BY <1>1, <1>2, <1>3 DEF Construct, Destruct
  <2>2. /\ \E n : m_id' = [m_id EXCEPT ![k] = n]
        /\ inc' = inc \/ \E n : inc' = [inc EXCEPT ![k] = n]
    BY <1>3 DEF Construct, Destruct, register_event_callback, history
  <2> QED
    BY <1>1, <2>1, <2>2
<1>4. ASSUME NEW d \in Coroutines,
             \/ \E k \in Callbacks : AwaitSignal(d, k) \/ OnIo(d, k) \/ OnIoNullSqe(d, k)
             \/ \E t \in triggers : Activate(d, t)
             \/ \E f \in Coroutines : Start(d, f) \/ Cancel(d, f)
             \/ Finish(d) \/ Stop(d)
      PROVE  UNCHANGED <<m_id, inc>>
  BY <1>4 DEF AwaitSignal, OnIo, OnIoNullSqe, Activate, Start, Cancel, Finish, Stop,
              busVars, history
<1>5. ASSUME \/ Dispatch \/ PollSubmit \/ PollReap \/ PollThrow \/ UNCHANGED vars
             \/ \E x \in inflight : Complete(x)
      PROVE  UNCHANGED <<m_id, inc>>
  BY <1>5 DEF Dispatch, PollSubmit, PollReap, PollThrow, Complete, vars, busVars, history
<1> QED
  BY <1>3, <1>4, <1>5 DEF Next, CoroutineStep, LoopStep

\* What was abandoned or doubled stays so.
LEMMA FlawsStay ==
  ASSUME [Next]_vars
  PROVE  doubled \subseteq doubled' /\ abandoned \subseteq abandoned'
<1>1. ASSUME NEW d \in Coroutines, NEW k \in Callbacks, AwaitSignal(d, k) \/ OnIo(d, k)
      PROVE  doubled \subseteq doubled' /\ abandoned' = abandoned
  <2>1. Await(d, k) /\ abandoned' = abandoned
    BY <1>1 DEF AwaitSignal, OnIo
  <2> QED
    BY <2>1 DEF Await, AwaitReady, AwaitSuspend, AwaitThrow
<1>2. ASSUME NEW d \in Coroutines,
             \/ \E k \in Callbacks : Construct(d, k) \/ Destruct(d, k) \/ OnIoNullSqe(d, k)
             \/ \E t \in triggers : Activate(d, t)
             \/ \E f \in Coroutines : Start(d, f) \/ Cancel(d, f)
             \/ Finish(d) \/ Stop(d)
      PROVE  doubled' = doubled /\ abandoned \subseteq abandoned'
  BY <1>2 DEF Construct, Destruct, OnIoNullSqe, Activate, Start, Cancel, Finish, Stop, history
<1>3. ASSUME \/ Dispatch \/ PollSubmit \/ PollReap \/ PollThrow \/ UNCHANGED vars
             \/ \E e \in inflight : Complete(e)
      PROVE  doubled' = doubled /\ abandoned' = abandoned
  BY <1>3 DEF Dispatch, PollSubmit, PollReap, PollThrow, Complete, vars, history
<1> QED
  BY <1>1, <1>2, <1>3 DEF Next, CoroutineStep, LoopStep

LEMMA RingedStep ==
  ASSUME IndInv, Once, Awaited, Ringed, [Next]_vars
  PROVE  Ringed'
<1> SUFFICES ASSUME NEW o \in Ops(sq'), o.inc \notin abandoned' \cup doubled'
             PROVE  \E c \in Listeners : m_id'[c] # 0 /\ inc'[c] = o.inc
  BY DEF Ringed
<1>1. o.inc \notin abandoned \cup doubled
  BY FlawsStay
<1>2. CASE o \in Ops(sq)
  <2>1. PICK c \in Listeners : m_id[c] # 0 /\ inc[c] = o.inc
    BY <1>1, <1>2 DEF Ringed
  <2>2. Clean(c) /\ o \in AllOps
    BY <1>1, <1>2, <2>1, AllOpsPlaces DEF Clean
  <2>3. m_id'[c] = m_id[c] /\ inc'[c] = inc[c]
    BY <2>1, <2>2, ListenerStays
  <2> QED
    BY <2>1, <2>3
<1>3. ASSUME NEW c \in Listeners, NEW d \in Coroutines, m_id[c] # 0, o.inc = inc[c],
             OnIo(d, c)
      PROVE  m_id'[c] # 0 /\ inc'[c] = o.inc
  BY <1>3 DEF OnIo
<1> QED
  BY <1>2, <1>3, SqStep

LEMMA LoadedStep ==
  ASSUME IndInv, Loaded, [Next]_vars
  PROVE  Loaded'
<1> USE EventLoopAssumption
<1>1. waits \in [Coroutines -> Callbacks \cup {NoCallback}]
  BY DEF IndInv, Registry, TypeOK
<1>2. \/ waits' = waits
      \/ \E d \in Coroutines, c \in Callbacks : waits' = [waits EXCEPT ![d] = c]
      \/ \E d : waits' = [waits EXCEPT ![d] = NoCallback]
  <2>1. ASSUME NEW d \in Coroutines,
               \/ \E k \in Callbacks : Construct(d, k) \/ Destruct(d, k) \/ OnIoNullSqe(d, k)
               \/ \E t \in triggers : Activate(d, t)
               \/ \E f \in Coroutines : Start(d, f)
               \/ Finish(d) \/ Stop(d)
        PROVE  waits' = waits
    BY <2>1 DEF Construct, Destruct, OnIoNullSqe, Activate, Start, Finish, Stop, coroVars
  <2>2. ASSUME NEW d \in Coroutines, NEW k \in Callbacks, AwaitSignal(d, k) \/ OnIo(d, k)
        PROVE  waits' = waits \/ waits' = [waits EXCEPT ![d] = k]
    BY <2>2, AwaitWaits DEF AwaitSignal, OnIo, IndInv, Registry
  <2>3. ASSUME NEW d \in Coroutines, NEW e \in Coroutines, Cancel(d, e)
        PROVE  waits' = [waits EXCEPT ![e] = NoCallback]
    BY <2>3 DEF Cancel
  <2>4. ASSUME Dispatch
        PROVE  waits' = waits \/ \E d : waits' = [waits EXCEPT ![d] = NoCallback]
    BY <2>4 DEF Dispatch, Notify, NotifyUnknown, NotifyStored, NotifyResumes
  <2>5. ASSUME \/ PollSubmit \/ PollReap \/ PollThrow \/ UNCHANGED vars
               \/ \E e \in inflight : Complete(e)
        PROVE  waits' = waits
    BY <2>5 DEF PollSubmit, PollReap, PollThrow, Complete, vars, coroVars
  <2> QED
    BY <2>1, <2>2, <2>3, <2>4, <2>5 DEF Next, CoroutineStep, LoopStep
<1>3. IsFiniteSet(Waiters')
  <2>1. \E d : Waiters' \subseteq Waiters \cup {d}
    BY <1>1, <1>2 DEF Waiters
  <2>2. PICK d : Waiters' \subseteq Waiters \cup {d}
    BY <2>1
  <2>3. IsFiniteSet(Waiters \cup {d})
    BY FS_AddElement DEF Loaded
  <2> QED
    BY <2>2, <2>3, FS_Subset
<1>4. crash' = "null_sqe" => Len(sq') = SQ_ENTRIES
  <2>1. ASSUME NEW d \in Coroutines,
               \/ \E k \in Callbacks : \/ Construct(d, k) \/ Destruct(d, k)
                                       \/ AwaitSignal(d, k) \/ OnIo(d, k)
               \/ \E t \in triggers : Activate(d, t)
               \/ \E f \in Coroutines : Start(d, f) \/ Cancel(d, f)
               \/ Finish(d) \/ Stop(d)
        PROVE  crash' = "none"
    BY <2>1 DEF Construct, Destruct, AwaitSignal, OnIo, Activate, Start, Cancel, Finish, Stop,
                Running, loopVars
  <2>2. ASSUME NEW d \in Coroutines, NEW k \in Callbacks, OnIoNullSqe(d, k)
        PROVE  Len(sq') = SQ_ENTRIES
    BY <2>2 DEF OnIoNullSqe, ringVars
  <2>3. ASSUME \/ Dispatch \/ PollSubmit \/ PollReap \/ PollThrow
               \/ \E e \in inflight : Complete(e)
        PROVE  crash' # "null_sqe"
    BY <2>3 DEF Dispatch, PollSubmit, PollReap, PollThrow, Complete, InRun, loopVars
  <2>4. ASSUME UNCHANGED vars PROVE UNCHANGED <<crash, sq>>
    BY <2>4 DEF vars, loopVars, ringVars
  <2> QED
    BY <2>1, <2>2, <2>3, <2>4 DEF Next, CoroutineStep, LoopStep, Loaded
<1> QED
  BY <1>3, <1>4 DEF Loaded

\* A program that abandons no operation and awaits no callback twice overruns the
\* submission queue, so that get_sqe writes through NULL, only with at least as
\* many coroutines suspended in I/O as the ring has entries.
THEOREM OverflowMeansLoad == Spec => []OverflowNeedsLoad
<1>1. Init => Ringed /\ Loaded
  <2> SUFFICES ASSUME Init PROVE Ringed /\ Loaded
    OBVIOUS
  <2>1. Ops(sq) = {} /\ Waiters = {} /\ crash = "none"
    BY DEF Init, Ops, Waiters
  <2> QED
    BY <2>1, FS_EmptySet DEF Ringed, Loaded
<1>2. IndInv /\ Once /\ Awaited /\ Ringed /\ Loaded /\ [Next]_vars => Ringed' /\ Loaded'
  BY RingedStep, LoadedStep
<1>3. ASSUME IndInv, Once, Awaited, Ringed, Loaded
      PROVE  OverflowNeedsLoad
  <2> SUFFICES ASSUME crash = "null_sqe", abandoned = {}, doubled = {}
               PROVE  Cardinality({d \in Coroutines : waits[d] \in Listeners}) >= SQ_ENTRIES
    BY DEF OverflowNeedsLoad
  <2> DEFINE W == {d \in Coroutines : waits[d] \in Listeners}
             V == {d \in W : issued[d] \in Ops(sq)}
             f == [d \in V |-> issued[d]]
  <2>1. IsFiniteSet(W)
    <3>1. W \subseteq Waiters
      BY EventLoopAssumption DEF Waiters, Callbacks
    <3> QED
      BY <1>3, <3>1, FS_Subset DEF Loaded
  <2>2. ASSUME NEW o \in Ops(sq) PROVE \E d \in V : f[d] = o
    <3>1. PICK c \in Listeners : m_id[c] # 0 /\ inc[c] = o.inc
      BY <1>3 DEF Ringed
    <3>2. Clean(c) /\ o \in AllOps
      BY <3>1, AllOpsPlaces DEF Clean
    <3>3. PICK d \in Coroutines : waits[d] = c /\ issued[d] = o
      BY <1>3, <3>1, <3>2 DEF Awaited
    <3> QED
      BY <3>3
  <2>3. f \in Surjection(V, Ops(sq))
    <3>1. f \in [V -> Ops(sq)]
      OBVIOUS
    <3> QED
      BY <2>2, <3>1 DEF Surjection
  <2>4. IsFiniteSet(V) /\ Cardinality(V) <= Cardinality(W)
    BY <2>1, FS_Subset
  <2>5. Cardinality(Ops(sq)) <= Cardinality(V)
    BY <2>3, <2>4, FS_Surjection
  <2>6. Cardinality(Ops(sq)) = SQ_ENTRIES
    BY <1>3, OpsCount DEF IndInv, Registry, TypeOK, Once, Loaded
  <2>7. Cardinality(V) \in Nat /\ Cardinality(W) \in Nat
    BY <2>1, <2>4, FS_CardinalityType
  <2> HIDE DEF W, V
  <2>8. Cardinality(W) >= SQ_ENTRIES
    BY <2>4, <2>5, <2>6, <2>7, EventLoopAssumption
  <2> QED
    BY <2>8 DEF W
<1> QED
  BY <1>1, <1>2, <1>3, Inductive, OnceInductive, AwaitedInductive, PTL DEF Spec

============================================================================
