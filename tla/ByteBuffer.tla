----------------------------- MODULE ByteBuffer -----------------------------
(***************************************************************************)
(* cppevent_base: byte_buffer<BUFFER_SIZE>, a linear buffer with a read    *)
(* end m_start and a write end m_end that go back to 0 when they meet.     *)
(* The operations are functions from buffer to buffer.  A byte is named by *)
(* its place in the stream it belongs to; Blank is one never written.      *)
(***************************************************************************)
EXTENDS Integers, Sequences

CONSTANTS BUFFER_SIZE, Bytes, Blank

ASSUME ByteBufferAssumption == BUFFER_SIZE \in Nat \ {0} /\ Blank \notin Bytes

\* The read end never passes the write end, nor the write end the storage.
Buffer == {b \in [m_buffer : [0..BUFFER_SIZE - 1 -> Bytes \cup {Blank}],
                  m_start : 0..BUFFER_SIZE,
                  m_end : 0..BUFFER_SIZE] : b.m_start <= b.m_end}

EmptyBuffer == [m_buffer |-> [i \in 0..BUFFER_SIZE - 1 |-> Blank],
                m_start |-> 0,
                m_end |-> 0]

Least(a, b) == IF a <= b THEN a ELSE b

available(b) == b.m_end - b.m_start

capacity(b) == BUFFER_SIZE - b.m_end

\* Mutant: the ends are left where they met.
increment_no_reset(b, n) ==
    [m_buffer |-> b.m_buffer, m_start |-> b.m_start + n, m_end |-> b.m_end]

\* Mutant: the comparison is the wrong way round, and what is left is dropped.
increment_drop(b, n) ==
    IF b.m_start + n <= b.m_end
    THEN [m_buffer |-> b.m_buffer, m_start |-> 0, m_end |-> 0]
    ELSE [m_buffer |-> b.m_buffer, m_start |-> b.m_start + n, m_end |-> b.m_end]

increment_read_p(b, n) ==
    IF b.m_start + n = b.m_end
    THEN [m_buffer |-> b.m_buffer, m_start |-> 0, m_end |-> 0]
    ELSE [m_buffer |-> b.m_buffer, m_start |-> b.m_start + n, m_end |-> b.m_end]

increment_write_p(b, n) ==
    [m_buffer |-> b.m_buffer, m_start |-> b.m_start, m_end |-> b.m_end + n]

\* The first n bytes of get_read_chunk().
chunk(b, n) == [i \in 1..n |-> b.m_buffer[b.m_start + i - 1]]

\* Bytes put at the write end, as memcpy and a recv into get_write_chunk() do.
Fill(b, bytes) ==
    [m_buffer |-> [i \in 0..BUFFER_SIZE - 1 |->
                     IF i >= b.m_end /\ i < b.m_end + Len(bytes)
                     THEN bytes[i - b.m_end + 1]
                     ELSE b.m_buffer[i]],
     m_start |-> b.m_start,
     m_end |-> b.m_end]

\* byte_buffer::read copies out chunk(b, read_size(b, n)) and leaves:
read_size(b, n) == Least(n, available(b))
read_rest(b, n) == increment_read_p(b, read_size(b, n))

\* Mutant: the room left is not looked at.
write_size_all(b, n) == n

\* byte_buffer::write takes the first write_size(b, Len(bytes)) of the bytes.
write_size(b, n) == Least(capacity(b), n)
write(b, bytes) ==
    LET n == write_size(b, Len(bytes))
    IN  increment_write_p(Fill(b, SubSeq(bytes, 1, n)), n)

============================================================================
