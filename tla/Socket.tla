------------------------------- MODULE Socket -------------------------------
(***************************************************************************)
(* cppevent_net: socket.  One coroutine reads (read, read_c, peek, seek,   *)
(* skip) and one writes (write, flush); the two share nothing but the      *)
(* descriptor.  Two readers, or two writers, at once are the double await  *)
(* of EventLoop.                                                           *)
(*                                                                         *)
(* A step is what a coroutine does between two suspensions.  The kernel    *)
(* and the peer are external.  The peer's bytes are 1, 2, 3, ... in the    *)
(* order it sends them, and the bytes handed to write are numbered in the  *)
(* same way.                                                               *)
(***************************************************************************)
EXTENDS ByteBuffer

CONSTANTS
    MaxSent,        \* bound on the bytes the peer sends
    MaxWritten,     \* bound on the bytes handed to write
    MaxSize,        \* bound on the size of one read, skip or write
    NoCall

ReadCall == [kind : {"read", "skip", "read_c", "peek"}, size : 0..MaxSize,
             total : 0..MaxSize, fully : BOOLEAN]

WriteCall == [kind : {"write", "flush"}, size : 0..MaxSize, total : 0..MaxSize]

ASSUME SocketAssumption ==
    /\ MaxSent \in Nat
    /\ MaxWritten \in Nat
    /\ MaxSize \in Nat \ {0}
    /\ Bytes = 1..(MaxSent + MaxWritten)
    /\ NoCall \notin ReadCall \cup WriteCall

VARIABLES
    m_in_buffer, m_out_buffer,
    reader,     \* the call suspended in recv_incoming, or NoCall
    writer,     \* the call suspended in on_send, or NoCall
    dest,       \* the bytes the reading call has delivered so far
    outcome,    \* how the last reading call ended
    sent, closed,   \* the peer: bytes sent; end of the stream sent
    received,   \* bytes of the peer the kernel has handed to recv
    wire,       \* bytes the kernel has taken from on_send
    \* History.
    taken,      \* bytes that left m_in_buffer
    handed,     \* bytes handed to write
    failed      \* has a send failed?

readVars == <<m_in_buffer, reader, dest, outcome, received, taken>>
writeVars == <<m_out_buffer, writer, wire, handed, failed>>
peerVars == <<sent, closed>>
vars == <<readVars, writeVars, peerVars>>

TypeOK ==
    /\ m_in_buffer \in Buffer
    /\ m_out_buffer \in Buffer
    /\ reader \in ReadCall \cup {NoCall}
    /\ writer \in WriteCall \cup {NoCall}
    /\ dest \in Seq(Bytes \cup {Blank})
    /\ outcome \in {"none", "full", "short", "error"}
    /\ sent \in 0..MaxSent
    /\ closed \in BOOLEAN
    /\ received \in 0..MaxSent
    /\ wire \in Seq(Bytes \cup {Blank})
    /\ taken \in Nat
    /\ handed \in 0..MaxWritten
    /\ failed \in BOOLEAN

Init ==
    /\ m_in_buffer = EmptyBuffer
    /\ m_out_buffer = EmptyBuffer
    /\ reader = NoCall
    /\ writer = NoCall
    /\ dest = <<>>
    /\ outcome = "none"
    /\ sent = 0 /\ closed = FALSE /\ received = 0
    /\ wire = <<>>
    /\ taken = 0 /\ handed = 0 /\ failed = FALSE

----------------------------------------------------------------------------
(* Reading *)

\* The call ends.
Return(how) == reader' = NoCall /\ outcome' = how

\* The rounds of read and skip up to the next suspension: what the buffer b
\* has is taken; for more, recv_incoming is called again.
Round(call, got, b) ==
    LET n == read_size(b, call.size - call.total)
        total == call.total + n
    IN  /\ m_in_buffer' = read_rest(b, call.size - call.total)
        /\ dest' = IF call.kind = "read" THEN got \o chunk(b, n) ELSE got
        /\ taken' = taken + n
        /\ IF total < call.size
           THEN reader' = [call EXCEPT !.total = total] /\ UNCHANGED outcome
           ELSE Return("full")

\* socket::read and socket::skip.
ReadOrSkip(kind, size, fully) ==
    /\ reader = NoCall
    /\ Round([kind |-> kind, size |-> size, total |-> 0, fully |-> fully],
             <<>>, m_in_buffer)
    /\ UNCHANGED <<received, writeVars, peerVars>>

\* The end of read_c, with a byte in the buffer b.
TakeOne(b) ==
    /\ dest' = chunk(b, 1)
    /\ m_in_buffer' = increment_read_p(b, 1)
    /\ taken' = taken + 1
    /\ Return("full")

\* socket::read_c and socket::peek, with the buffer empty or not.
ReadC(fully) ==
    /\ reader = NoCall
    /\ IF available(m_in_buffer) > 0
       THEN TakeOne(m_in_buffer)
       ELSE /\ reader' = [kind |-> "read_c", size |-> 1, total |-> 0,
                          fully |-> fully]
            /\ dest' = <<>>
            /\ UNCHANGED <<m_in_buffer, taken, outcome>>
    /\ UNCHANGED <<received, writeVars, peerVars>>

Peek ==
    /\ reader = NoCall
    /\ dest' = <<>>
    /\ IF available(m_in_buffer) > 0
       THEN Return("full")
       ELSE /\ reader' = [kind |-> "peek", size |-> 1, total |-> 0,
                          fully |-> FALSE]
            /\ UNCHANGED outcome
    /\ UNCHANGED <<m_in_buffer, received, taken, writeVars, peerVars>>

\* socket::seek, over bytes that peek has shown.
Seek(n) ==
    /\ reader = NoCall
    /\ n <= available(m_in_buffer)
    /\ m_in_buffer' = increment_read_p(m_in_buffer, n)
    /\ taken' = taken + n
    /\ UNCHANGED <<reader, dest, outcome, received, writeVars, peerVars>>

\* What on_recv completes with: bytes that are there, as many as fit; 0 at
\* the end of the stream, and 0 too when it was given no room.
RecvStatus ==
    LET room == capacity(m_in_buffer)
    IN  (1..Least(room, sent - received))
          \cup (IF room = 0 \/ (closed /\ sent = received) THEN {0} ELSE {})

\* recv_incoming has n > 0 bytes; the call goes on.
RecvSome(n) ==
    LET b == increment_write_p(
                 Fill(m_in_buffer, [i \in 1..n |-> received + i]), n)
    IN  /\ n \in RecvStatus \ {0}
        /\ received' = received + n
        /\ CASE reader.kind \in {"read", "skip"} -> Round(reader, dest, b)
             [] reader.kind = "read_c" -> TakeOne(b)
             [] reader.kind = "peek" ->
                    m_in_buffer' = b /\ Return("full") /\ UNCHANGED <<dest, taken>>

\* recv_incoming answers 0, which the callers take for the end of the stream.
RecvNothing ==
    /\ 0 \in RecvStatus
    /\ Return(IF reader.fully THEN "error" ELSE "short")
    /\ UNCHANGED <<m_in_buffer, dest, received, taken>>

\* recv_incoming answers an error.
RecvError ==
    /\ Return("error")
    /\ UNCHANGED <<m_in_buffer, dest, received, taken>>

Recv ==
    /\ reader # NoCall
    /\ (\E n \in 1..BUFFER_SIZE : RecvSome(n)) \/ RecvNothing \/ RecvError
    /\ UNCHANGED <<writeVars, peerVars>>

----------------------------------------------------------------------------
(* Writing *)

\* The rounds of write up to the next suspension: what fits is copied of the
\* bytes not copied yet, which are the last ones handed; when they do not all
\* fit, the buffer is flushed.
WriteRound(call, b) ==
    LET bytes == [i \in 1..(call.size - call.total) |->
                    handed' - call.size + call.total + i]
        n == write_size(b, Len(bytes))
    IN  /\ m_out_buffer' = write(b, bytes)
        /\ writer' = IF call.total + n < call.size
                     THEN [call EXCEPT !.total = call.total + n]
                     ELSE NoCall

Write(size) ==
    /\ writer = NoCall
    /\ handed + size <= MaxWritten
    /\ handed' = handed + size
    /\ WriteRound([kind |-> "write", size |-> size, total |-> 0], m_out_buffer)
    /\ UNCHANGED <<wire, failed, readVars, peerVars>>

Flush ==
    /\ writer = NoCall
    /\ available(m_out_buffer) > 0
    /\ writer' = [kind |-> "flush", size |-> 0, total |-> 0]
    /\ UNCHANGED <<m_out_buffer, wire, handed, failed, readVars, peerVars>>

\* Mutant: the whole chunk is taken to be sent.
Sent_all(b, n) == increment_read_p(b, available(b))

\* What flush does with the status of on_send.
Sent(b, n) == increment_read_p(b, n)

\* on_send took n bytes.  flush goes on until the buffer is empty; then a
\* write that called it goes on.
SendSome(n) ==
    LET b == Sent(m_out_buffer, n)
    IN  /\ writer # NoCall
        /\ n <= available(m_out_buffer)
        /\ wire' = wire \o chunk(m_out_buffer, n)
        /\ UNCHANGED <<handed, failed, readVars, peerVars>>
        /\ IF available(b) > 0
           THEN m_out_buffer' = b /\ UNCHANGED writer
           ELSE IF writer.kind = "flush"
                THEN m_out_buffer' = b /\ writer' = NoCall
                ELSE WriteRound(writer, b)

\* on_send failed: the exception ends flush and the write around it; what
\* was not sent stays in the buffer.
SendError ==
    /\ writer # NoCall
    /\ writer' = NoCall
    /\ failed' = TRUE
    /\ UNCHANGED <<m_out_buffer, wire, handed, readVars, peerVars>>

----------------------------------------------------------------------------
(* The peer *)

PeerSends ==
    /\ ~closed
    /\ sent < MaxSent
    /\ sent' = sent + 1
    /\ UNCHANGED <<closed, readVars, writeVars>>

PeerCloses ==
    /\ ~closed
    /\ closed' = TRUE
    /\ UNCHANGED <<sent, readVars, writeVars>>

Next ==
    \/ \E size \in 0..MaxSize, fully \in BOOLEAN :
          ReadOrSkip("read", size, fully) \/ ReadOrSkip("skip", size, fully)
    \/ \E fully \in BOOLEAN : ReadC(fully)
    \/ Peek
    \/ \E n \in 0..BUFFER_SIZE : Seek(n)
    \/ Recv
    \/ \E size \in 0..MaxSize : Write(size)
    \/ Flush
    \/ \E n \in 1..BUFFER_SIZE : SendSome(n)
    \/ SendError
    \/ PeerSends
    \/ PeerCloses

Spec == Init /\ [][Next]_vars

----------------------------------------------------------------------------
(* Properties *)

\* Consecutive numbers from one.
Upto(n) == [i \in 1..n |-> i]

\* What a read delivers, and what is still buffered, are the peer's bytes in
\* order: none lost, repeated or taken from a stale part of the buffer, over
\* any mixture of read, read_c, peek, seek and skip.
ReadInOrder ==
    /\ \A i \in 1..Len(dest) : dest[i] \in 1..taken
    /\ \A i \in 1..Len(dest) - 1 : dest[i + 1] = dest[i] + 1
    /\ chunk(m_in_buffer, available(m_in_buffer))
         = [i \in 1..(received - taken) |-> taken + i]

\* recv_incoming always offers the kernel room: with none, its answer 0
\* would be taken for the end of the stream.
RecvHasRoom == reader # NoCall => capacity(m_in_buffer) > 0

\* A call that may end short does so only at the end of the stream, with
\* everything the peer sent taken.
ShortOnlyAtEnd ==
    [][reader # NoCall /\ reader' = NoCall /\ outcome' = "short" =>
          closed /\ taken' = sent]_vars

\* The bytes on the wire are those handed to write, in order and without a
\* gap, the ones before them in the buffer; after a failed send there may be
\* a gap (the rest of the write that failed) but never a change of order.
WriteInOrder ==
    LET out == wire \o chunk(m_out_buffer, available(m_out_buffer))
    IN  /\ \A i \in 1..Len(out) - 1 : out[i] < out[i + 1]
        /\ ~failed => out = Upto(Len(out))
        /\ ~failed /\ writer = NoCall => Len(out) = handed

============================================================================
