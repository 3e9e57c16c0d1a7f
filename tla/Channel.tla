------------------------------ MODULE Channel ------------------------------
(***************************************************************************)
(* What async_queue promises its users: a queue with one consumer, which   *)
(* blocks only on an empty queue, is let go only when there is an item and *)
(* does not stay blocked beside one.  No events, no callback, no statuses. *)
(***************************************************************************)
EXTENDS Sequences

CONSTANT Items

VARIABLES
    queue,      \* items sent and not yet received
    reader      \* "on": at the queue; "off": elsewhere; "blocked"

vars == <<queue, reader>>

Init == queue = <<>> /\ reader = "on"

Send(i) == queue' = Append(queue, i) /\ UNCHANGED reader

Receive ==
    /\ reader = "on"
    /\ queue # <<>>
    /\ queue' = Tail(queue)
    /\ UNCHANGED reader

Block ==
    /\ reader = "on"
    /\ queue = <<>>
    /\ reader' = "blocked"
    /\ UNCHANGED queue

Unblock ==
    /\ reader = "blocked"
    /\ queue # <<>>
    /\ reader' = "on"
    /\ UNCHANGED queue

\* The reader turns to other work, giving up its wait if it was blocked.
TurnAway == reader \in {"on", "blocked"} /\ reader' = "off" /\ UNCHANGED queue

ComeBack == reader = "off" /\ reader' = "on" /\ UNCHANGED queue

Next ==
    \/ \E i \in Items : Send(i)
    \/ Receive
    \/ Block
    \/ Unblock
    \/ TurnAway
    \/ ComeBack

Spec == Init /\ [][Next]_vars /\ WF_vars(Unblock)

============================================================================
