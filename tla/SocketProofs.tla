---------------------------- MODULE SocketProofs ----------------------------
(***************************************************************************)
(* Theorems about Socket, for every BUFFER_SIZE and every size of a call.  *)
(***************************************************************************)
EXTENDS Socket, TLAPS

\* The ends of a buffer that has been emptied are back at 0.
Rewound(b) == available(b) = 0 => b.m_end = 0

\* A call waits for the kernel only with m_in_buffer empty.
ReaderEmpty == reader # NoCall => available(m_in_buffer) = 0

\* The kernel hands over what was sent; a call never has more than it asked
\* for, and a write that waits has its bytes among those handed.
Positions ==
    /\ received <= sent
    /\ reader # NoCall => reader.total <= reader.size
    /\ writer # NoCall => writer.total <= writer.size /\ writer.size <= handed

IndInv ==
    /\ TypeOK
    /\ Rewound(m_in_buffer)
    /\ ReaderEmpty
    /\ Positions

----------------------------------------------------------------------------
(* The buffer *)

\* Reading no more than there is keeps the ends in order, and rewinds them
\* when nothing is left.
LEMMA IncrementRead ==
    ASSUME NEW b \in Buffer, NEW n \in Nat, n <= available(b)
    PROVE  /\ increment_read_p(b, n) \in Buffer
           /\ available(increment_read_p(b, n)) = available(b) - n
           /\ Rewound(increment_read_p(b, n))
  BY ByteBufferAssumption DEF increment_read_p, Buffer, available, Rewound

\* The part of the storage a buffer exposes holds bytes.
LEMMA ChunkType ==
    ASSUME NEW b \in Buffer, NEW n \in Nat, n <= available(b)
    PROVE  chunk(b, n) \in Seq(Bytes \cup {Blank})
  <1>1. \A i \in 1..n : b.m_start + i - 1 \in 0..BUFFER_SIZE - 1
    BY ByteBufferAssumption DEF Buffer, available
  <1>2. chunk(b, n) \in [1..n -> Bytes \cup {Blank}]
    BY <1>1 DEF chunk, Buffer
  <1> QED
    BY <1>2

\* Bytes that fit are put at the write end.
LEMMA FillAndAdvance ==
    ASSUME NEW b \in Buffer, NEW bytes \in Seq(Bytes), Len(bytes) <= capacity(b)
    PROVE  LET c == increment_write_p(Fill(b, bytes), Len(bytes))
           IN  /\ c \in Buffer
               /\ available(c) = available(b) + Len(bytes)
               /\ c.m_end = b.m_end + Len(bytes)
  <1> DEFINE f == [i \in 0..BUFFER_SIZE - 1 |->
                     IF i >= b.m_end /\ i < b.m_end + Len(bytes)
                     THEN bytes[i - b.m_end + 1]
                     ELSE b.m_buffer[i]]
  <1>1. /\ b.m_buffer \in [0..BUFFER_SIZE - 1 -> Bytes \cup {Blank}]
        /\ b.m_start \in Nat /\ b.m_end \in Nat /\ b.m_start <= b.m_end
        /\ b.m_end <= BUFFER_SIZE /\ BUFFER_SIZE \in Nat
    BY ByteBufferAssumption DEF Buffer
  <1>2. \A i \in 0..BUFFER_SIZE - 1 :
           i >= b.m_end /\ i < b.m_end + Len(bytes) =>
               bytes[i - b.m_end + 1] \in Bytes
    BY <1>1
  <1>3. f \in [0..BUFFER_SIZE - 1 -> Bytes \cup {Blank}]
    BY <1>1, <1>2
  <1>4. increment_write_p(Fill(b, bytes), Len(bytes)) =
           [m_buffer |-> f, m_start |-> b.m_start, m_end |-> b.m_end + Len(bytes)]
    BY DEF increment_write_p, Fill
  <1> HIDE DEF f
  <1>5. Len(bytes) \in Nat /\ b.m_end + Len(bytes) <= BUFFER_SIZE
    BY <1>1 DEF capacity
  <1> QED
    BY <1>1, <1>3, <1>4, <1>5 DEF Buffer, available

\* byte_buffer::read answers with no more than is asked for and no more than
\* there is; with less than is asked for, nothing is left.
LEMMA ReadSize ==
    ASSUME NEW b \in Buffer, NEW n \in Nat
    PROVE  /\ read_size(b, n) \in Nat
           /\ read_size(b, n) <= n
           /\ read_size(b, n) <= available(b)
           /\ read_size(b, n) < n => read_size(b, n) = available(b)
           /\ available(b) \in Nat
  BY ByteBufferAssumption DEF read_size, Least, available, Buffer

\* byte_buffer::write takes no more than fits.
LEMMA WriteFits ==
    ASSUME NEW b \in Buffer, NEW bytes \in Seq(Bytes)
    PROVE  /\ write(b, bytes) \in Buffer
           /\ write_size(b, Len(bytes)) \in 0..Len(bytes)
  <1> DEFINE n == write_size(b, Len(bytes))
             head == SubSeq(bytes, 1, n)
  <1>1. capacity(b) \in Nat /\ Len(bytes) \in Nat
    BY ByteBufferAssumption DEF capacity, Buffer
  <1>2. n \in 0..Len(bytes) /\ n <= capacity(b)
    BY <1>1 DEF write_size, Least
  <1>3. head \in Seq(Bytes) /\ Len(head) = n
    BY <1>2
  <1>4. write(b, bytes) = increment_write_p(Fill(b, head), Len(head))
    BY <1>3 DEF write
  <1> QED
    BY <1>2, <1>3, <1>4, FillAndAdvance

----------------------------------------------------------------------------
(* The steps *)

\* A new socket satisfies the invariant.
LEMMA InitInd == Init => IndInv
  <1> SUFFICES ASSUME Init
               PROVE  IndInv
    OBVIOUS
  <1>1. EmptyBuffer \in Buffer
    BY ByteBufferAssumption DEF EmptyBuffer, Buffer
  <1>2. 0 \in 0..MaxSent /\ 0 \in 0..MaxWritten
    BY SocketAssumption
  <1>3. TypeOK
    <2>1. closed \in BOOLEAN /\ failed \in BOOLEAN
      BY Zenon DEF Init
    <2>2. <<>> \in Seq(Bytes \cup {Blank})
      OBVIOUS
    <2>3. dest = <<>> /\ wire = <<>> /\ outcome = "none"
      BY DEF Init
    <2>4. /\ m_in_buffer \in Buffer /\ m_out_buffer \in Buffer
          /\ reader \in ReadCall \cup {NoCall} /\ writer \in WriteCall \cup {NoCall}
          /\ sent \in 0..MaxSent /\ received \in 0..MaxSent
          /\ taken \in Nat /\ handed \in 0..MaxWritten
      BY <1>1, <1>2 DEF Init
    <2> QED
      BY <2>1, <2>2, <2>3, <2>4 DEF TypeOK
  <1> QED
    BY <1>3 DEF Init, IndInv, Rewound, ReaderEmpty, Positions, EmptyBuffer, available

\* What the reading side has to keep.
ReadTypes ==
    /\ m_in_buffer \in Buffer
    /\ reader \in ReadCall \cup {NoCall}
    /\ dest \in Seq(Bytes \cup {Blank})
    /\ outcome \in {"none", "full", "short", "error"}
    /\ taken \in Nat

ReadSound ==
    /\ ReadTypes
    /\ Rewound(m_in_buffer)
    /\ ReaderEmpty
    /\ reader # NoCall => reader.total <= reader.size

\* A round of socket::read or skip suspends only with the buffer empty.
LEMMA RoundSound ==
    ASSUME IndInv,
           NEW call \in ReadCall, call.kind \in {"read", "skip"},
           call.total <= call.size,
           NEW got \in Seq(Bytes \cup {Blank}),
           NEW b \in Buffer,
           Round(call, got, b)
    PROVE  ReadSound'
  <1> DEFINE n == read_size(b, call.size - call.total)
  <1>1. call.size \in 0..MaxSize /\ call.total \in 0..MaxSize /\ MaxSize \in Nat
    BY SocketAssumption DEF ReadCall
  <1>2. call.size - call.total \in Nat
    BY <1>1
  <1>3. /\ n \in Nat /\ n <= call.size - call.total /\ n <= available(b)
        /\ n < call.size - call.total => n = available(b)
        /\ available(b) \in Nat
    BY <1>2, ReadSize
  <1>4. m_in_buffer' = increment_read_p(b, n)
    BY DEF Round, read_rest
  <1>5. /\ m_in_buffer' \in Buffer
        /\ available(m_in_buffer') = available(b) - n
        /\ Rewound(m_in_buffer')
    BY <1>3, <1>4, IncrementRead
  <1>6. dest' \in Seq(Bytes \cup {Blank})
    BY <1>3, ChunkType DEF Round
  <1>7. taken' \in Nat
    BY <1>3 DEF Round, IndInv, TypeOK
  <1>8. CASE call.total + n < call.size
    <2>1. reader' = [call EXCEPT !.total = call.total + n] /\ outcome' = outcome
      BY <1>8 DEF Round
    <2>2. reader' \in ReadCall /\ reader'.total <= reader'.size
      BY <1>1, <1>3, <1>8, <2>1 DEF ReadCall
    <2>3. available(m_in_buffer') = 0
      BY <1>1, <1>3, <1>5, <1>8
    <2> QED
      BY <1>5, <1>6, <1>7, <2>1, <2>2, <2>3
      DEF ReadSound, ReadTypes, ReaderEmpty, IndInv, TypeOK
  <1>9. CASE ~(call.total + n < call.size)
    <2>1. reader' = NoCall /\ outcome' = "full"
      BY <1>9 DEF Round, Return
    <2> QED
      BY <1>5, <1>6, <1>7, <2>1 DEF ReadSound, ReadTypes, ReaderEmpty
  <1> QED
    BY <1>8, <1>9

\* So does socket::read_c, which takes one byte of a buffer that has one.
LEMMA TakeOneSound ==
    ASSUME IndInv, NEW b \in Buffer, available(b) > 0, TakeOne(b)
    PROVE  ReadSound'
  <1>1. 1 <= available(b) /\ available(b) \in Nat
    BY ReadSize
  <1>2. m_in_buffer' \in Buffer /\ Rewound(m_in_buffer')
    BY <1>1, IncrementRead DEF TakeOne
  <1>3. dest' \in Seq(Bytes \cup {Blank})
    BY <1>1, ChunkType DEF TakeOne
  <1> QED
    BY <1>2, <1>3
    DEF TakeOne, Return, ReadSound, ReadTypes, ReaderEmpty, IndInv, TypeOK

\* A call that finds the buffer empty suspends.
LEMMA SuspendSound ==
    ASSUME IndInv, available(m_in_buffer) \in Nat, ~(available(m_in_buffer) > 0),
           reader' \in ReadCall, reader'.total <= reader'.size,
           dest' = <<>>, UNCHANGED <<m_in_buffer, taken, outcome>>
    PROVE  ReadSound'
  <1>1. available(m_in_buffer) = 0
    OBVIOUS
  <1>2. dest' \in Seq(Bytes \cup {Blank})
    OBVIOUS
  <1> QED
    BY <1>1, <1>2 DEF ReadSound, ReadTypes, ReaderEmpty, IndInv, TypeOK, Rewound

\* Every step keeps the reading side sound.
LEMMA ReadStep ==
    ASSUME IndInv, [Next]_vars
    PROVE  ReadSound' /\ received' <= sent' /\ received' \in 0..MaxSent
  <1> USE DEF readVars, writeVars, peerVars
  <1>0. /\ MaxSize \in Nat \ {0} /\ MaxSent \in Nat /\ MaxWritten \in Nat
        /\ Bytes = 1..(MaxSent + MaxWritten)
    BY SocketAssumption
  <1>1. /\ m_in_buffer \in Buffer /\ available(m_in_buffer) \in Nat
        /\ received \in 0..MaxSent /\ sent \in 0..MaxSent /\ received <= sent
    BY ReadSize DEF IndInv, TypeOK, Positions
  <1>2. ReadSound
    BY DEF IndInv, TypeOK, Positions, ReadSound, ReadTypes
  <1>3. ASSUME UNCHANGED <<m_in_buffer, reader, dest, outcome, received, taken>>
        PROVE  ReadSound' /\ received' = received
    BY <1>2, <1>3 DEF ReadSound, ReadTypes, ReaderEmpty
  <1>4. ASSUME NEW size \in 0..MaxSize, NEW fully \in BOOLEAN,
               NEW kind \in {"read", "skip"}, ReadOrSkip(kind, size, fully)
        PROVE  ReadSound' /\ received' = received /\ sent' = sent
    <2> DEFINE call == [kind |-> kind, size |-> size, total |-> 0, fully |-> fully]
    <2>1. call \in ReadCall /\ call.kind \in {"read", "skip"}
          /\ call.total <= call.size
      BY <1>0, <1>4 DEF ReadCall
    <2>2. Round(call, <<>>, m_in_buffer)
      BY <1>4 DEF ReadOrSkip
    <2> HIDE DEF call
    <2>3. <<>> \in Seq(Bytes \cup {Blank})
      OBVIOUS
    <2>4. ReadSound'
      BY <1>1, <2>1, <2>2, <2>3, RoundSound
    <2> QED
      BY <1>4, <2>4 DEF ReadOrSkip
  <1>5. ASSUME NEW fully \in BOOLEAN, ReadC(fully)
        PROVE  ReadSound' /\ received' = received /\ sent' = sent
    <2>1. CASE available(m_in_buffer) > 0
      BY <1>1, <1>5, <2>1, TakeOneSound DEF ReadC
    <2>2. CASE ~(available(m_in_buffer) > 0)
      <3>1. /\ reader' = [kind |-> "read_c", size |-> 1, total |-> 0, fully |-> fully]
            /\ dest' = <<>>
            /\ UNCHANGED <<m_in_buffer, taken, outcome>>
        BY <1>5, <2>2 DEF ReadC
      <3>2. reader' \in ReadCall /\ reader'.total <= reader'.size
        BY <1>0, <3>1 DEF ReadCall
      <3> QED
        BY <1>1, <1>5, <2>2, <3>1, <3>2, SuspendSound DEF ReadC
    <2> QED
      BY <1>5, <2>1, <2>2 DEF ReadC
  <1>6. CASE Peek
    <2>1. CASE available(m_in_buffer) > 0
      <3>1. /\ dest' = <<>> /\ reader' = NoCall /\ outcome' = "full"
            /\ UNCHANGED <<m_in_buffer, taken, received, sent>>
        BY <1>6, <2>1 DEF Peek, Return
      <3>2. dest' \in Seq(Bytes \cup {Blank})
        BY <3>1
      <3> QED
        BY <1>1, <1>2, <3>1, <3>2 DEF ReadSound, ReadTypes, ReaderEmpty, Rewound
    <2>2. CASE ~(available(m_in_buffer) > 0)
      <3>1. /\ reader' = [kind |-> "peek", size |-> 1, total |-> 0, fully |-> FALSE]
            /\ dest' = <<>>
            /\ UNCHANGED <<m_in_buffer, taken, outcome, received, sent>>
        BY <1>6, <2>2 DEF Peek
      <3>2. reader' \in ReadCall /\ reader'.total <= reader'.size
        BY <1>0, <3>1 DEF ReadCall
      <3> QED
        BY <1>1, <2>2, <3>1, <3>2, SuspendSound
    <2> QED
      BY <2>1, <2>2
  <1>7. ASSUME NEW n \in 0..BUFFER_SIZE, Seek(n)
        PROVE  ReadSound' /\ received' = received /\ sent' = sent
    <2>1. n \in Nat /\ n <= available(m_in_buffer) /\ taken \in Nat
      BY <1>7 DEF Seek, IndInv, TypeOK
    <2>2. m_in_buffer' \in Buffer /\ Rewound(m_in_buffer')
      BY <1>1, <1>7, <2>1, IncrementRead DEF Seek
    <2>3. /\ reader' = NoCall /\ taken' \in Nat
          /\ UNCHANGED <<dest, outcome, received, sent>>
      BY <1>7, <2>1 DEF Seek
    <2> QED
      BY <1>2, <2>2, <2>3 DEF ReadSound, ReadTypes, ReaderEmpty
  <1>8. CASE Recv
    <2> USE <1>8
    <2>1. reader # NoCall /\ reader \in ReadCall /\ reader.total <= reader.size
          /\ sent' = sent
      BY <1>2 DEF Recv, ReadSound, ReadTypes
    <2>2. ASSUME NEW n \in 1..BUFFER_SIZE, RecvSome(n)
          PROVE  ReadSound' /\ received' <= sent /\ received' \in 0..MaxSent
      <3> DEFINE bytes == [i \in 1..n |-> received + i]
                 b == increment_write_p(Fill(m_in_buffer, bytes), n)
      <3>1. capacity(m_in_buffer) \in Nat
        BY <1>1, ByteBufferAssumption DEF capacity, Buffer
      <3>2. /\ n \in Nat \ {0}
            /\ n <= capacity(m_in_buffer) /\ n <= sent - received
        BY <1>1, <2>2, <3>1 DEF RecvSome, RecvStatus, Least
      <3>3. received' = received + n
        BY <2>2 DEF RecvSome
      <3>4. bytes \in Seq(Bytes) /\ Len(bytes) = n
        BY <1>0, <1>1, <3>2
      <3> HIDE DEF bytes
      <3>5. b \in Buffer /\ available(b) = available(m_in_buffer) + n
        BY <1>1, <3>2, <3>4, FillAndAdvance
      <3>6. /\ reader.kind \in {"read", "skip"} => Round(reader, dest, b)
            /\ reader.kind = "read_c" => TakeOne(b)
            /\ reader.kind = "peek" =>
                  m_in_buffer' = b /\ Return("full") /\ UNCHANGED <<dest, taken>>
            /\ reader.kind \in {"read", "skip", "read_c", "peek"}
        BY <2>1, <2>2 DEF RecvSome, ReadCall, bytes
      <3> HIDE DEF b
      <3>7. CASE reader.kind \in {"read", "skip"}
        <4>1. dest \in Seq(Bytes \cup {Blank})
          BY <1>2 DEF ReadSound, ReadTypes
        <4>2. ReadSound'
          BY <2>1, <3>5, <3>6, <3>7, <4>1, RoundSound
        <4> QED
          BY <1>0, <1>1, <3>2, <3>3, <4>2
      <3>8. CASE reader.kind = "read_c"
        <4>1. available(b) > 0
          BY <1>1, <3>2, <3>5
        <4>2. ReadSound'
          BY <3>5, <3>6, <3>8, <4>1, TakeOneSound
        <4> QED
          BY <1>0, <1>1, <3>2, <3>3, <4>2
      <3>9. CASE reader.kind = "peek"
        <4>1. available(b) # 0
          BY <1>1, <3>2, <3>5
        <4>2. m_in_buffer' = b /\ reader' = NoCall /\ outcome' = "full"
              /\ UNCHANGED <<dest, taken>>
          BY <3>6, <3>9 DEF Return
        <4>3. ReadSound'
          BY <1>2, <3>5, <4>1, <4>2 DEF ReadSound, ReadTypes, ReaderEmpty, Rewound
        <4> QED
          BY <1>0, <1>1, <3>2, <3>3, <4>3
      <3> QED
        BY <3>6, <3>7, <3>8, <3>9
    <2>3. CASE RecvNothing \/ RecvError
      <3>1. /\ reader' = NoCall /\ outcome' \in {"short", "error"}
            /\ UNCHANGED <<m_in_buffer, dest, received, taken>>
        BY <2>3 DEF RecvNothing, RecvError, Return
      <3>2. outcome' \in {"none", "full", "short", "error"}
        BY <3>1
      <3>3. ReadSound'
        BY <1>2, <3>1, <3>2 DEF ReadSound, ReadTypes, ReaderEmpty, Rewound
      <3> QED
        BY <1>1, <2>1, <3>1, <3>3
    <2> QED
      BY <2>1, <2>2, <2>3 DEF Recv
  <1>9. CASE PeerSends
    BY <1>0, <1>1, <1>3, <1>9 DEF PeerSends
  <1>10. CASE PeerCloses
    BY <1>0, <1>1, <1>3, <1>10 DEF PeerCloses
  <1>11. ASSUME NEW size \in 0..MaxSize, Write(size)
         PROVE  ReadSound' /\ received' = received /\ sent' = sent
    BY <1>3, <1>11 DEF Write
  <1>12. CASE Flush
    BY <1>1, <1>3, <1>12 DEF Flush
  <1>13. ASSUME NEW n \in 1..BUFFER_SIZE, SendSome(n)
         PROVE  ReadSound' /\ received' = received /\ sent' = sent
    BY <1>3, <1>13 DEF SendSome
  <1>14. CASE SendError
    BY <1>1, <1>3, <1>14 DEF SendError
  <1>15. CASE UNCHANGED vars
    BY <1>1, <1>3, <1>15 DEF vars
  <1> QED
    BY <1>1, <1>4, <1>5, <1>6, <1>7, <1>8, <1>9, <1>10, <1>11, <1>12, <1>13,
       <1>14, <1>15
    DEF Next

----------------------------------------------------------------------------
(* The writing side and the peer *)

WriteSound ==
    /\ m_out_buffer \in Buffer
    /\ writer \in WriteCall \cup {NoCall}
    /\ wire \in Seq(Bytes \cup {Blank})
    /\ handed \in 0..MaxWritten
    /\ writer # NoCall => writer.total <= writer.size /\ writer.size <= handed

\* A round of socket::write copies bytes that were handed to it, as many as
\* fit.
LEMMA WriteRoundSound ==
    ASSUME NEW call \in WriteCall, call.total <= call.size,
           NEW b \in Buffer,
           handed' \in 0..MaxWritten, call.size <= handed',
           wire' \in Seq(Bytes \cup {Blank}),
           WriteRound(call, b)
    PROVE  WriteSound'
  <1> DEFINE bytes == [i \in 1..(call.size - call.total) |->
                         handed' - call.size + call.total + i]
             n == write_size(b, Len(bytes))
  <1>1. /\ call.size \in 0..MaxSize /\ call.total \in 0..MaxSize
        /\ MaxSize \in Nat /\ MaxSent \in Nat /\ MaxWritten \in Nat
        /\ Bytes = 1..(MaxSent + MaxWritten)
    BY SocketAssumption DEF WriteCall
  <1>2. bytes \in Seq(Bytes) /\ Len(bytes) = call.size - call.total
    <2>1. call.size - call.total \in Nat
      BY <1>1
    <2>2. \A i \in 1..(call.size - call.total) :
             handed' - call.size + call.total + i \in Bytes
      BY <1>1, <2>1
    <2>3. bytes \in [1..(call.size - call.total) -> Bytes]
      BY <2>2
    <2> QED
      BY <2>1, <2>3
  <1>3. /\ m_out_buffer' = write(b, bytes)
        /\ writer' = IF call.total + n < call.size
                     THEN [call EXCEPT !.total = call.total + n]
                     ELSE NoCall
    BY DEF WriteRound
  <1> HIDE DEF bytes
  <1>4. m_out_buffer' \in Buffer /\ n \in 0..Len(bytes)
    <2>1. bytes \in Seq(Bytes)
      BY <1>2
    <2>2. write(b, bytes) \in Buffer /\ write_size(b, Len(bytes)) \in 0..Len(bytes)
      BY <2>1, WriteFits
    <2> QED
      BY <1>3, <2>2
  <1> HIDE DEF n
  <1>5. CASE call.total + n < call.size
    <2>1. writer' = [call EXCEPT !.total = call.total + n]
      BY <1>3, <1>5
    <2>2. call.total + n \in 0..MaxSize /\ call.total + n <= call.size
      <3>1. /\ call.total \in Nat /\ call.size \in Nat /\ call.size <= MaxSize /\ n \in Nat
            /\ MaxSize \in Nat
        BY <1>1, <1>4
      <3>2. n <= call.size - call.total
        BY <1>2, <1>4
      <3>3. \A t, s, k, l \in Nat : k <= s - t /\ s <= l => t + k \in 0..l /\ t + k <= s
        OBVIOUS
      <3> QED
        BY <3>1, <3>2, <3>3
    <2>3. writer' \in WriteCall /\ writer'.total = call.total + n
          /\ writer'.size = call.size
      BY <2>1, <2>2 DEF WriteCall
    <2> QED
      BY <1>4, <2>2, <2>3 DEF WriteSound
  <1>6. CASE ~(call.total + n < call.size)
    BY <1>3, <1>4, <1>6 DEF WriteSound
  <1> QED
    BY <1>5, <1>6

\* Every step keeps the writing side sound.
LEMMA WriteStep ==
    ASSUME IndInv, [Next]_vars
    PROVE  WriteSound'
  <1> USE DEF readVars, writeVars, peerVars
  <1>0. MaxSize \in Nat /\ MaxSent \in Nat /\ MaxWritten \in Nat
    BY SocketAssumption
  <1>1. WriteSound
    BY DEF IndInv, TypeOK, Positions, WriteSound
  <1>2. ASSUME UNCHANGED <<m_out_buffer, writer, wire, handed>>
        PROVE  WriteSound'
    BY <1>1, <1>2 DEF WriteSound
  <1>3. ASSUME NEW size \in 0..MaxSize, Write(size)
        PROVE  WriteSound'
    <2> DEFINE call == [kind |-> "write", size |-> size, total |-> 0]
    <2>1. call \in WriteCall /\ call.total <= call.size /\ call.size = size
      BY <1>0 DEF WriteCall
    <2>2. handed' \in 0..MaxWritten /\ size <= handed' /\ wire' = wire
          /\ WriteRound(call, m_out_buffer)
      BY <1>0, <1>1, <1>3 DEF Write, WriteSound
    <2> HIDE DEF call
    <2> QED
      BY <1>1, <2>1, <2>2, WriteRoundSound DEF WriteSound
  <1>4. CASE Flush
    <2>1. writer' = [kind |-> "flush", size |-> 0, total |-> 0]
          /\ UNCHANGED <<m_out_buffer, wire, handed>>
      BY <1>4 DEF Flush
    <2>2. writer' \in WriteCall /\ writer'.total = 0 /\ writer'.size = 0
      BY <1>0, <2>1 DEF WriteCall
    <2> QED
      BY <1>0, <1>1, <2>1, <2>2 DEF WriteSound
  <1>5. ASSUME NEW n \in 1..BUFFER_SIZE, SendSome(n)
        PROVE  WriteSound'
    <2> DEFINE b == Sent(m_out_buffer, n)
    <2>1. n \in Nat /\ n <= available(m_out_buffer) /\ m_out_buffer \in Buffer
          /\ writer \in WriteCall /\ writer # NoCall /\ handed' = handed
      BY <1>1, <1>5 DEF SendSome, WriteSound
    <2>2. b \in Buffer
      BY <2>1, IncrementRead DEF Sent
    <2>3. wire' \in Seq(Bytes \cup {Blank})
      <3>1. chunk(m_out_buffer, n) \in Seq(Bytes \cup {Blank})
        BY <2>1, ChunkType
      <3>2. wire \in Seq(Bytes \cup {Blank})
        BY <1>1 DEF WriteSound
      <3> QED
        BY <1>5, <3>1, <3>2 DEF SendSome
    <2>4. \/ m_out_buffer' = b /\ writer' \in {writer, NoCall}
          \/ WriteRound(writer, b)
      BY <1>5 DEF SendSome
    <2> HIDE DEF b
    <2>5. CASE m_out_buffer' = b /\ writer' \in {writer, NoCall}
      BY <1>1, <2>1, <2>2, <2>3, <2>5 DEF WriteSound
    <2>6. CASE WriteRound(writer, b)
      BY <1>1, <2>1, <2>2, <2>3, <2>6, WriteRoundSound DEF WriteSound
    <2> QED
      BY <2>4, <2>5, <2>6
  <1>6. CASE SendError
    BY <1>1, <1>6 DEF SendError, WriteSound
  <1>7. CASE \/ Peek \/ Recv \/ PeerSends \/ PeerCloses \/ UNCHANGED vars
             \/ \E fully \in BOOLEAN : ReadC(fully)
             \/ \E n \in 0..BUFFER_SIZE : Seek(n)
             \/ \E size \in 0..MaxSize, fully \in BOOLEAN :
                   ReadOrSkip("read", size, fully) \/ ReadOrSkip("skip", size, fully)
    <2>1. UNCHANGED <<m_out_buffer, writer, wire, handed>>
      BY <1>7
      DEF Peek, Recv, PeerSends, PeerCloses, vars, ReadC, Seek, ReadOrSkip
    <2> QED
      BY <1>2, <2>1
  <1> QED
    BY <1>3, <1>4, <1>5, <1>6, <1>7 DEF Next

\* The peer's variables and the flags keep their types.
LEMMA FlagStep ==
    ASSUME IndInv, [Next]_vars
    PROVE  sent' \in 0..MaxSent /\ closed' \in BOOLEAN /\ failed' \in BOOLEAN
  <1> USE DEF readVars, writeVars, peerVars
  <1>1. sent \in 0..MaxSent /\ closed \in BOOLEAN /\ failed \in BOOLEAN
    BY DEF IndInv, TypeOK
  <1>2. \/ UNCHANGED <<sent, closed>>
        \/ PeerSends
        \/ PeerCloses
    BY DEF Next, vars, Peek, Recv, ReadC, Seek, ReadOrSkip, Write, Flush,
           SendSome, SendError
  <1>3. sent' \in 0..MaxSent
    BY <1>1, <1>2, SocketAssumption DEF PeerSends, PeerCloses
  <1>4. closed' \in BOOLEAN
    BY <1>1, <1>2, Zenon DEF PeerSends, PeerCloses
  <1>5. failed' = failed \/ failed' = TRUE
    BY DEF Next, vars, Peek, Recv, ReadC, Seek, ReadOrSkip, Write, Flush,
           SendSome, SendError, PeerSends, PeerCloses
  <1>6. failed' \in BOOLEAN
    BY <1>1, <1>5, Zenon
  <1> QED
    BY <1>3, <1>4, <1>6

----------------------------------------------------------------------------
(* The theorems *)

\* The invariant holds throughout.
THEOREM Inductive == Spec => []IndInv
  <1>1. IndInv /\ [Next]_vars => IndInv'
    BY ReadStep, WriteStep, FlagStep
    DEF IndInv, TypeOK, Positions, ReadSound, ReadTypes, WriteSound
  <1> QED
    BY <1>1, InitInd, PTL DEF Spec

\* Both buffers stay within their storage, the read end behind the write end,
\* whatever the sizes of the calls and the answers of the kernel.
THEOREM TypeCorrect == Spec => []TypeOK
  <1>1. IndInv => TypeOK
    BY DEF IndInv
  <1> QED
    BY <1>1, Inductive, PTL

\* recv_incoming never asks the kernel for 0 bytes, for any BUFFER_SIZE.
THEOREM AlwaysRoom == Spec => []RecvHasRoom
  <1>1. IndInv => RecvHasRoom
    BY ByteBufferAssumption
    DEF IndInv, RecvHasRoom, ReaderEmpty, Rewound, TypeOK, Buffer, capacity
  <1> QED
    BY <1>1, Inductive, PTL

----------------------------------------------------------------------------
(* What is read *)

\* The bytes in the buffer are those of the stream after the k-th.
Holds(b, k) == \A i \in 1..available(b) : b.m_buffer[b.m_start + i - 1] = k + i

\* d is a stretch of the first t bytes of the stream.
Delivered(d, t) ==
    /\ \A i \in 1..Len(d) : d[i] \in 1..t
    /\ \A i \in 1..Len(d) - 1 : d[i + 1] = d[i] + 1

\* Only a read has bytes while it waits, and the last it has was the last taken.
Joined(call, d, t) == d = <<>> \/ (call.kind = "read" /\ d[Len(d)] = t)

Stream ==
    /\ available(m_in_buffer) = received - taken
    /\ Holds(m_in_buffer, taken)
    /\ Delivered(dest, taken)
    /\ reader # NoCall => Joined(reader, dest, taken)

\* Taking n bytes out of a buffer takes the next n of the stream.
LEMMA HoldsRead ==
    ASSUME NEW b \in Buffer, NEW k \in Nat, Holds(b, k), NEW n \in Nat, n <= available(b)
    PROVE  /\ chunk(b, n) = [i \in 1..n |-> k + i]
           /\ Holds(increment_read_p(b, n), k + n)
  <1> DEFINE c == increment_read_p(b, n)
  <1>1. /\ b.m_start \in Nat /\ b.m_end \in Nat /\ b.m_start <= b.m_end
        /\ available(b) = b.m_end - b.m_start
    BY DEF Buffer, available
  <1>2. \A i \in 1..n : i \in 1..available(b)
    BY <1>1
  <1>3. chunk(b, n) = [i \in 1..n |-> k + i]
    BY <1>2 DEF chunk, Holds
  <1>4. CASE b.m_start + n = b.m_end
    <2>1. c = [m_buffer |-> b.m_buffer, m_start |-> 0, m_end |-> 0]
      BY <1>4 DEF increment_read_p
    <2>2. available(c) = 0
      BY <2>1 DEF available
    <2> HIDE DEF c
    <2>3. Holds(c, k + n)
      BY <2>2 DEF Holds
    <2> QED
      BY <1>3, <2>3 DEF c
  <1>5. CASE b.m_start + n # b.m_end
    <2>1. c = [m_buffer |-> b.m_buffer, m_start |-> b.m_start + n, m_end |-> b.m_end]
      BY <1>5 DEF increment_read_p
    <2>2. c.m_buffer = b.m_buffer /\ c.m_start = b.m_start + n /\ c.m_end = b.m_end
      BY <2>1
    <2> HIDE DEF c
    <2>3. ASSUME NEW i \in 1..available(c) PROVE c.m_buffer[c.m_start + i - 1] = (k + n) + i
      <3>1. /\ i + n \in 1..available(b)
            /\ c.m_start + i - 1 = b.m_start + (i + n) - 1
            /\ (k + n) + i = k + (i + n)
        BY <1>1, <2>2 DEF available
      <3>2. b.m_buffer[b.m_start + (i + n) - 1] = k + (i + n)
        BY <3>1 DEF Holds
      <3> QED
        BY <2>2, <3>1, <3>2
    <2>4. Holds(c, k + n)
      BY <2>3 DEF Holds
    <2> QED
      BY <1>3, <2>4 DEF c
  <1> QED
    BY <1>4, <1>5

\* A recv puts the next bytes of the stream behind those in the buffer.
LEMMA HoldsFill ==
    ASSUME NEW b \in Buffer, NEW k \in Nat, Holds(b, k), NEW n \in Nat, n <= capacity(b),
           NEW bytes, bytes = [i \in 1..n |-> k + available(b) + i]
    PROVE  Holds(increment_write_p(Fill(b, bytes), n), k)
  <1> DEFINE c == increment_write_p(Fill(b, bytes), n)
             f == [i \in 0..BUFFER_SIZE - 1 |->
                     IF i >= b.m_end /\ i < b.m_end + Len(bytes)
                     THEN bytes[i - b.m_end + 1]
                     ELSE b.m_buffer[i]]
  <1>1. /\ b.m_start \in Nat /\ b.m_end \in Nat /\ b.m_start <= b.m_end
        /\ available(b) = b.m_end - b.m_start /\ b.m_end + n <= BUFFER_SIZE
        /\ BUFFER_SIZE \in Nat
    BY ByteBufferAssumption DEF Buffer, available, capacity
  <1>2. c = [m_buffer |-> f, m_start |-> b.m_start, m_end |-> b.m_end + n]
    BY DEF increment_write_p, Fill
  <1> HIDE DEF c, f
  <1>3. c.m_buffer = f /\ c.m_start = b.m_start /\ c.m_end = b.m_end + n
    BY <1>2
  <1>4. Len(bytes) = n /\ \A i \in 1..n : bytes[i] = k + available(b) + i
    OBVIOUS
  <1>5. ASSUME NEW i \in 1..available(c) PROVE c.m_buffer[c.m_start + i - 1] = k + i
    <2> DEFINE j == b.m_start + i - 1
    <2>1. j \in 0..BUFFER_SIZE - 1 /\ j < b.m_end + n /\ j \in Nat /\ i \in Nat
      BY <1>1, <1>3 DEF available
    <2>2. CASE j < b.m_end
      <3>1. i \in 1..available(b)
        BY <1>1, <1>3, <2>2 DEF available
      <3>2. f[j] = b.m_buffer[j]
        BY <1>1, <2>1, <2>2 DEF f
      <3> QED
        BY <1>3, <3>1, <3>2 DEF Holds
    <2>3. CASE ~(j < b.m_end)
      <3>0. j - b.m_end + 1 = i - available(b) /\ available(b) \in Nat
        <4>1. \A x, y, z \in Nat : (x + z - 1) - y + 1 = z - (y - x)
          OBVIOUS
        <4>2. j - b.m_end + 1 = i - (b.m_end - b.m_start)
          BY <1>1, <2>1, <4>1
        <4>3. \A x, y \in Nat : x <= y => y - x \in Nat
          OBVIOUS
        <4>4. available(b) = b.m_end - b.m_start
          BY <1>1
        <4>5. available(b) \in Nat
          BY <1>1, <4>3, <4>4
        <4> QED
          BY <4>2, <4>4, <4>5
      <3>1. j - b.m_end + 1 \in 1..n /\ k + available(b) + (j - b.m_end + 1) = k + i
        <4>1. j - b.m_end + 1 \in 1..n
          <5>1. \A x, y, z \in Nat : ~(x < y) /\ x < y + z => x - y + 1 \in 1..z
            OBVIOUS
          <5>2. b.m_end \in Nat /\ j \in Nat /\ j < b.m_end + n
            BY <1>1, <2>1
          <5> HIDE DEF j
          <5> QED
            BY <2>3, <5>1, <5>2
        <4>2. k + available(b) + (i - available(b)) = k + i
          <5>1. \A x, y, z \in Nat : x + y + (z - y) = x + z
            OBVIOUS
          <5> QED
            BY <2>1, <3>0, <5>1
        <4>3. k + available(b) + (j - b.m_end + 1) = k + i
          BY <3>0, <4>2, Zenon
        <4> QED
          BY <4>1, <4>3, Zenon
      <3>2. f[j] = bytes[j - b.m_end + 1]
        <4>1. j \in 0..BUFFER_SIZE - 1 /\ j >= b.m_end /\ j < b.m_end + Len(bytes)
          <5>1. \A x, y \in Nat : ~(x < y) => x >= y
            OBVIOUS
          <5>2. Len(bytes) = n
            BY <1>4
          <5> HIDE DEF j
          <5> QED
            BY <1>1, <2>1, <2>3, <5>1, <5>2
        <4> HIDE DEF j
        <4> QED
          BY <4>1 DEF f
      <3> QED
        BY <1>3, <1>4, <3>1, <3>2
    <2> QED
      BY <2>2, <2>3
  <1>6. Holds(c, k)
    BY <1>5 DEF Holds
  <1> QED
    BY <1>6 DEF c

\* The last of some bytes is t, and the n that come after t.
LastIs(d, t) == d = <<>> \/ d[Len(d)] = t

After(t, n) == [i \in 1..n |-> t + i]

\* A stretch that ends at t goes on with the bytes after t.
LEMMA DeliveredOn ==
    ASSUME NEW S, NEW d \in Seq(S), NEW t \in Nat, NEW n \in Nat,
           Delivered(d, t), LastIs(d, t), After(t, n) \in Seq(S)
    PROVE  Delivered(d \o After(t, n), t + n) /\ LastIs(d \o After(t, n), t + n)
  <1> DEFINE c == After(t, n)
             e == d \o c
  <1> USE DEF LastIs
  <1>1. e \in Seq(S)
    OBVIOUS
  <1>0. Len(c) = n /\ c \in Seq(S) /\ \A i \in 1..n : c[i] = t + i
    BY DEF After
  <1>2. /\ Len(d) \in Nat /\ Len(e) = Len(d) + n
        /\ \A i \in 1..Len(d) : e[i] = d[i]
        /\ \A i \in 1..n : e[Len(d) + i] = c[i]
    BY <1>0
  <1> HIDE DEF c, e
  <1>3. ASSUME NEW i \in 1..Len(e), i \notin 1..Len(d) PROVE e[i] = t + (i - Len(d)) /\ i - Len(d) \in 1..n
    <2>1. i - Len(d) \in 1..n /\ Len(d) + (i - Len(d)) = i
      BY <1>2, <1>3
    <2> QED
      BY <1>0, <1>2, <2>1
  <1>4. ASSUME NEW i \in 1..Len(e) PROVE e[i] \in 1..(t + n)
    <2>1. CASE i \in 1..Len(d)
      <3>1. d[i] \in 1..t
        BY <2>1 DEF Delivered
      <3> QED
        BY <1>2, <2>1, <3>1
    <2>2. CASE i \notin 1..Len(d)
      BY <1>3, <2>2
    <2> QED
      BY <2>1, <2>2
  <1>5. ASSUME NEW i \in 1..Len(e) - 1 PROVE e[i + 1] = e[i] + 1
    <2>0. i \in 1..Len(e) /\ i + 1 \in 1..Len(e)
      BY <1>2
    <2>1. CASE i + 1 \in 1..Len(d)
      <3>1. i \in 1..Len(d) - 1 /\ i \in 1..Len(d)
        BY <1>2, <2>1
      <3>2. d[i + 1] = d[i] + 1
        BY <3>1 DEF Delivered
      <3> QED
        BY <1>2, <2>1, <3>1, <3>2
    <2>2. CASE i \in 1..Len(d) /\ i + 1 \notin 1..Len(d)
      <3>1. i = Len(d) /\ d # <<>> /\ (i + 1) - Len(d) = 1
        BY <1>2, <2>2
      <3>2. e[i] = t
        BY <1>2, <2>2, <3>1
      <3>3. e[i + 1] = t + 1
        BY <1>3, <2>0, <2>2, <3>1
      <3> QED
        BY <3>2, <3>3
    <2>3. CASE i \notin 1..Len(d)
      <3>1. i + 1 \notin 1..Len(d)
        BY <1>2, <2>0, <2>3
      <3>2. e[i] = t + (i - Len(d)) /\ e[i + 1] = t + ((i + 1) - Len(d))
        BY <1>3, <2>0, <2>3, <3>1
      <3> QED
        BY <1>2, <3>2
    <2> QED
      BY <2>1, <2>2, <2>3
  <1>6. e = <<>> \/ e[Len(e)] = t + n
    <2>1. CASE n = 0
      <3>1. Len(e) = Len(d)
        BY <1>2, <2>1
      <3>2. CASE d = <<>>
        BY <1>1, <3>1, <3>2
      <3>3. CASE d # <<>>
        <4>1. Len(d) \in 1..Len(d)
          BY <1>2, <3>3
        <4> QED
          BY <1>2, <2>1, <3>1, <3>3, <4>1
      <3> QED
        BY <3>2, <3>3
    <2>2. CASE n # 0
      <3>1. Len(e) \in 1..Len(e) /\ Len(e) \notin 1..Len(d) /\ Len(e) - Len(d) = n
        BY <1>2, <2>2
      <3> QED
        BY <1>3, <3>1
    <2> QED
      BY <2>1, <2>2
  <1> QED
    BY <1>4, <1>5, <1>6 DEF Delivered, c, e

\* A round of read or skip takes the next bytes, and a read delivers them.
LEMMA RoundStream ==
    ASSUME NEW call \in ReadCall, call.total <= call.size,
           NEW got \in Seq(Bytes \cup {Blank}), NEW b \in Buffer, taken \in Nat,
           received' \in Nat,
           available(b) = received' - taken, Holds(b, taken), Delivered(got, taken),
           Joined(call, got, taken), Round(call, got, b)
    PROVE  Stream'
  <1> DEFINE n == read_size(b, call.size - call.total)
  <1>1. call.size \in Nat /\ call.total \in Nat /\ call.size - call.total \in Nat
    BY SocketAssumption DEF ReadCall
  <1>2. n \in Nat /\ n <= available(b) /\ available(b) \in Nat
    BY <1>1, ReadSize
  <1>3. /\ m_in_buffer' = increment_read_p(b, n) /\ taken' = taken + n
        /\ dest' = IF call.kind = "read" THEN got \o chunk(b, n) ELSE got
        /\ reader' = [call EXCEPT !.total = call.total + n] \/ reader' = NoCall
    BY DEF Round, read_rest, Return
  <1> HIDE DEF n
  <1>4. available(m_in_buffer') = received' - taken'
    <2>1. available(m_in_buffer') = available(b) - n
      BY <1>2, <1>3, IncrementRead
    <2> QED
      BY <1>2, <1>3, <2>1
  <1>5. Holds(m_in_buffer', taken') /\ chunk(b, n) = [i \in 1..n |-> taken + i]
    BY <1>2, <1>3, HoldsRead
  <1>6. reader' # NoCall => reader'.kind = call.kind
    BY <1>3 DEF ReadCall
  <1>7. CASE call.kind = "read"
    <2>1. dest' = got \o chunk(b, n) /\ chunk(b, n) \in Seq(Bytes \cup {Blank})
      BY <1>2, <1>3, <1>7, ChunkType
    <2>2. Delivered(dest', taken + n) /\ (dest' = <<>> \/ dest'[Len(dest')] = taken + n)
      <3> DEFINE S == Bytes \cup {Blank}
      <3>1. LastIs(got, taken)
        BY DEF Joined, LastIs
      <3>2. dest' = got \o After(taken, n) /\ After(taken, n) \in Seq(S)
        BY <1>5, <2>1 DEF After
      <3>3. got \in Seq(S) /\ taken \in Nat /\ n \in Nat /\ Delivered(got, taken)
        BY <1>2
      <3> HIDE DEF S
      <3>4. /\ Delivered(got \o After(taken, n), taken + n)
            /\ LastIs(got \o After(taken, n), taken + n)
        BY <3>1, <3>2, <3>3, DeliveredOn
      <3> QED
        BY <3>2, <3>4 DEF LastIs
    <2> QED
      BY <1>3, <1>4, <1>5, <1>6, <1>7, <2>2 DEF Stream, Joined
  <1>8. CASE call.kind # "read"
    <2>1. dest' = <<>>
      BY <1>3, <1>8 DEF Joined
    <2> QED
      BY <1>4, <1>5, <2>1 DEF Stream, Joined, Delivered
  <1> QED
    BY <1>7, <1>8

\* read_c delivers the next byte.
LEMMA TakeOneStream ==
    ASSUME NEW b \in Buffer, taken \in Nat, received' \in Nat, available(b) > 0,
           available(b) = received' - taken, Holds(b, taken), TakeOne(b)
    PROVE  Stream'
  <1>1. 1 <= available(b) /\ available(b) \in Nat
    BY ByteBufferAssumption DEF Buffer, available
  <1>2. /\ m_in_buffer' = increment_read_p(b, 1) /\ taken' = taken + 1
        /\ dest' = chunk(b, 1) /\ reader' = NoCall
    BY DEF TakeOne, Return
  <1>3. Holds(m_in_buffer', taken') /\ dest' = [i \in 1..1 |-> taken + i]
    BY <1>1, <1>2, HoldsRead
  <1>4. available(m_in_buffer') = received' - taken'
    <2>1. available(m_in_buffer') = available(b) - 1
      BY <1>1, <1>2, IncrementRead
    <2> QED
      BY <1>1, <1>2, <2>1
  <1>5. Delivered(dest', taken')
    BY <1>2, <1>3 DEF Delivered
  <1> QED
    BY <1>2, <1>3, <1>4, <1>5 DEF Stream

\* Every step delivers and buffers the stream in order.
LEMMA StreamStep ==
    ASSUME IndInv, Stream, [Next]_vars
    PROVE  Stream'
  <1> USE DEF readVars, writeVars, peerVars
  <1>0. /\ m_in_buffer \in Buffer /\ available(m_in_buffer) \in Nat
        /\ received \in Nat /\ taken \in Nat /\ sent \in Nat
        /\ MaxSize \in Nat \ {0}
        /\ <<>> \in Seq(Bytes \cup {Blank}) /\ dest \in Seq(Bytes \cup {Blank})
    BY ReadSize, SocketAssumption DEF IndInv, TypeOK
  <1>1. ASSUME UNCHANGED <<m_in_buffer, received, taken, dest>>, reader' \in {reader, NoCall}
        PROVE  Stream'
    BY <1>1 DEF Stream
  <1>2. ASSUME NEW size \in 0..MaxSize, NEW fully \in BOOLEAN,
               NEW kind \in {"read", "skip"}, ReadOrSkip(kind, size, fully)
        PROVE  Stream'
    <2> DEFINE call == [kind |-> kind, size |-> size, total |-> 0, fully |-> fully]
    <2>1. call \in ReadCall /\ call.total <= call.size
      BY <1>0 DEF ReadCall
    <2>2. Round(call, <<>>, m_in_buffer) /\ received' = received
      BY <1>2 DEF ReadOrSkip
    <2> HIDE DEF call
    <2>3. Delivered(<<>>, taken) /\ Joined(call, <<>>, taken)
      BY DEF Delivered, Joined
    <2> QED
      BY <1>0, <2>1, <2>2, <2>3, RoundStream DEF Stream
  <1>3. ASSUME NEW fully \in BOOLEAN, ReadC(fully) PROVE Stream'
    <2>1. CASE available(m_in_buffer) > 0
      BY <1>0, <1>3, <2>1, TakeOneStream DEF ReadC, Stream
    <2>2. CASE ~(available(m_in_buffer) > 0)
      <3>1. dest' = <<>> /\ m_in_buffer' = m_in_buffer /\ received' = received /\ taken' = taken
        BY <1>3, <2>2 DEF ReadC
      <3> QED
        BY <3>1 DEF Stream, Joined, Delivered
    <2> QED
      BY <2>1, <2>2
  <1>4. ASSUME Peek PROVE Stream'
    <2>1. dest' = <<>> /\ m_in_buffer' = m_in_buffer /\ received' = received /\ taken' = taken
      BY <1>4 DEF Peek
    <2> QED
      BY <2>1 DEF Stream, Joined, Delivered
  <1>5. ASSUME NEW n \in 0..BUFFER_SIZE, Seek(n) PROVE Stream'
    <2>1. /\ n \in Nat /\ n <= available(m_in_buffer) /\ taken' = taken + n
          /\ m_in_buffer' = increment_read_p(m_in_buffer, n) /\ reader' = NoCall
          /\ UNCHANGED <<dest, received>>
      BY <1>5 DEF Seek
    <2>2. Holds(m_in_buffer', taken')
      BY <1>0, <2>1, HoldsRead DEF Stream
    <2>3. available(m_in_buffer') = received' - taken'
      <3>1. available(m_in_buffer') = available(m_in_buffer) - n
        BY <1>0, <2>1, IncrementRead
      <3> QED
        BY <1>0, <2>1, <3>1 DEF Stream
    <2>4. Delivered(dest', taken')
      <3>1. \A k \in 1..taken : k \in 1..(taken + n)
        BY <1>0, <2>1
      <3> QED
        BY <2>1, <3>1 DEF Stream, Delivered
    <2> QED
      BY <2>1, <2>2, <2>3, <2>4 DEF Stream
  <1>6. ASSUME Recv PROVE Stream'
    <2>1. /\ reader # NoCall /\ reader \in ReadCall /\ reader.total <= reader.size
          /\ Joined(reader, dest, taken)
      BY <1>6 DEF Recv, IndInv, TypeOK, Positions, Stream
    <2>2. ASSUME NEW n \in 1..BUFFER_SIZE, RecvSome(n) PROVE Stream'
      <3> DEFINE bytes == [i \in 1..n |-> received + i]
                 b == increment_write_p(Fill(m_in_buffer, bytes), n)
      <3>1. capacity(m_in_buffer) \in Nat
        BY <1>0, ByteBufferAssumption DEF capacity, Buffer
      <3>2. n \in Nat \ {0} /\ n <= capacity(m_in_buffer) /\ n <= sent - received
        BY <1>0, <2>2, <3>1 DEF RecvSome, RecvStatus, Least
      <3>3. received' = received + n /\ received' \in Nat
        BY <1>0, <2>2, <3>2 DEF RecvSome
      <3>4. bytes \in Seq(Bytes) /\ Len(bytes) = n
        <4>1. \A i \in 1..n : received + i \in Bytes
          BY <1>0, <3>2, SocketAssumption DEF IndInv, TypeOK
        <4> QED
          BY <3>2, <4>1
      <3>5. bytes = [i \in 1..n |-> taken + available(m_in_buffer) + i]
        <4>1. taken + available(m_in_buffer) = received
          BY <1>0 DEF Stream
        <4> QED
          BY <4>1
      <3> HIDE DEF bytes
      <3>6. b \in Buffer /\ available(b) = available(m_in_buffer) + n
        BY <1>0, <3>2, <3>4, FillAndAdvance
      <3>7. Holds(b, taken)
        BY <1>0, <3>2, <3>5, HoldsFill DEF Stream
      <3>8. available(b) = received' - taken /\ available(b) > 0
        BY <1>0, <3>2, <3>3, <3>6 DEF Stream
      <3>9. /\ reader.kind \in {"read", "skip"} => Round(reader, dest, b)
            /\ reader.kind = "read_c" => TakeOne(b)
            /\ reader.kind = "peek" =>
                  m_in_buffer' = b /\ Return("full") /\ UNCHANGED <<dest, taken>>
            /\ reader.kind \in {"read", "skip", "read_c", "peek"}
        BY <2>1, <2>2 DEF RecvSome, ReadCall, bytes
      <3> HIDE DEF b
      <3>10. CASE reader.kind \in {"read", "skip"}
        BY <1>0, <2>1, <3>3, <3>6, <3>7, <3>8, <3>9, <3>10, RoundStream DEF Stream
      <3>11. CASE reader.kind = "read_c"
        BY <1>0, <3>3, <3>6, <3>7, <3>8, <3>9, <3>11, TakeOneStream
      <3>12. CASE reader.kind = "peek"
        BY <3>7, <3>8, <3>9, <3>12 DEF Stream, Return
      <3> QED
        BY <3>9, <3>10, <3>11, <3>12
    <2>3. ASSUME RecvNothing \/ RecvError PROVE Stream'
      BY <1>1, <2>3 DEF RecvNothing, RecvError, Return
    <2> QED
      BY <1>6, <2>2, <2>3 DEF Recv
  <1>7. ASSUME \/ PeerSends \/ PeerCloses \/ Flush \/ SendError \/ UNCHANGED vars
               \/ \E size \in 0..MaxSize : Write(size)
               \/ \E n \in 1..BUFFER_SIZE : SendSome(n)
        PROVE  Stream'
    BY <1>1, <1>7 DEF PeerSends, PeerCloses, Flush, SendError, Write, SendSome, vars
  <1> QED
    BY <1>2, <1>3, <1>4, <1>5, <1>6, <1>7 DEF Next

\* The stream is in order throughout.
THEOREM StreamInductive == Spec => []Stream
  <1>1. Init => Stream
    <2> SUFFICES ASSUME Init PROVE Stream
      OBVIOUS
    <2>1. available(m_in_buffer) = 0 /\ dest = <<>> /\ received = 0 /\ taken = 0
          /\ reader = NoCall
      BY DEF Init, EmptyBuffer, available
    <2> QED
      BY <2>1 DEF Stream, Holds, Delivered
  <1> QED
    BY <1>1, StreamStep, Inductive, PTL DEF Spec

\* Any mixture of read, read_c, peek, seek and skip delivers the peer's bytes in
\* order, none lost, repeated or stale, for every BUFFER_SIZE.
THEOREM ReadsInOrder == Spec => []ReadInOrder
  <1>1. ASSUME IndInv, Stream PROVE ReadInOrder
    <2>1. chunk(m_in_buffer, available(m_in_buffer))
             = [i \in 1..(received - taken) |-> taken + i]
      <3>1. /\ m_in_buffer \in Buffer /\ taken \in Nat
            /\ available(m_in_buffer) \in Nat /\ available(m_in_buffer) <= available(m_in_buffer)
        BY <1>1, ByteBufferAssumption DEF IndInv, TypeOK, Buffer, available
      <3>2. Holds(m_in_buffer, taken) /\ available(m_in_buffer) = received - taken
        BY <1>1 DEF Stream
      <3>3. chunk(m_in_buffer, available(m_in_buffer))
               = [i \in 1..available(m_in_buffer) |-> taken + i]
        BY <3>1, <3>2, HoldsRead
      <3> QED
        BY <3>2, <3>3
    <2> QED
      BY <1>1, <2>1 DEF ReadInOrder, Stream, Delivered
  <1> QED
    BY <1>1, Inductive, StreamInductive, PTL

\* What recv leaves in the buffer fits.
LEMMA RecvBuffer ==
    ASSUME IndInv, NEW n \in 1..BUFFER_SIZE, RecvSome(n)
    PROVE  increment_write_p(Fill(m_in_buffer, [i \in 1..n |-> received + i]), n) \in Buffer
  <1> DEFINE bytes == [i \in 1..n |-> received + i]
  <1>1. /\ m_in_buffer \in Buffer /\ capacity(m_in_buffer) \in Nat
        /\ received \in Nat /\ sent \in 0..MaxSent /\ MaxSent \in Nat /\ MaxWritten \in Nat
    BY ByteBufferAssumption, SocketAssumption DEF capacity, Buffer, IndInv, TypeOK
  <1>2. n \in Nat \ {0} /\ n <= capacity(m_in_buffer) /\ n <= sent - received
    BY <1>1 DEF RecvSome, RecvStatus, Least
  <1>3. bytes \in Seq(Bytes) /\ Len(bytes) = n
    <2>1. \A i \in 1..n : received + i \in Bytes
      BY <1>1, <1>2, SocketAssumption
    <2> QED
      BY <1>2, <2>1
  <1> HIDE DEF bytes
  <1>4. increment_write_p(Fill(m_in_buffer, bytes), n) \in Buffer
    BY <1>1, <1>2, <1>3, FillAndAdvance
  <1> QED
    BY <1>4 DEF bytes

\* A call ends short only when recv answered 0 at the end of the stream, with
\* every byte of the peer taken: never for want of room in m_in_buffer.
THEOREM ShortAtEnd == Spec => ShortOnlyAtEnd
  <1> DEFINE Short == reader # NoCall /\ reader' = NoCall /\ outcome' = "short" =>
                          closed /\ taken' = sent
  <1>1. ASSUME IndInv, Stream, [Next]_vars, reader # NoCall, reader' = NoCall,
               outcome' = "short"
        PROVE  closed /\ taken' = sent
    <2> USE DEF readVars, writeVars, peerVars
    <2>0. reader \in ReadCall /\ \A c \in ReadCall : c # NoCall
      BY <1>1, SocketAssumption DEF IndInv, TypeOK
    <2>1. Recv
      BY <1>1 DEF Next, vars, ReadOrSkip, ReadC, Peek, Seek, Write, Flush, SendSome,
                  SendError, PeerSends, PeerCloses
    <2>2. ~ \E n \in 1..BUFFER_SIZE : RecvSome(n)
      <3> SUFFICES ASSUME NEW n \in 1..BUFFER_SIZE, RecvSome(n) PROVE FALSE
        OBVIOUS
      <3> DEFINE b == increment_write_p(
                          Fill(m_in_buffer, [i \in 1..n |-> received + i]), n)
      <3>1. b \in Buffer
        BY <1>1, RecvBuffer
      <3>2. Round(reader, dest, b)
        BY <1>1, <2>0 DEF RecvSome, TakeOne, Return, ReadCall
      <3> HIDE DEF b
      <3> DEFINE t == reader.total + read_size(b, reader.size - reader.total)
      <3>3. t < reader.size /\ reader' = [reader EXCEPT !.total = t]
        BY <1>1, <3>2 DEF Round, Return
      <3>4. /\ reader.size \in 0..MaxSize /\ reader.total \in 0..MaxSize /\ MaxSize \in Nat
            /\ reader.size - reader.total \in Nat
        BY <1>1, <2>0, SocketAssumption DEF ReadCall, IndInv, Positions
      <3>5. read_size(b, reader.size - reader.total) \in Nat
        BY <3>1, <3>4, ReadSize
      <3>6. t \in 0..MaxSize
        BY <3>3, <3>4, <3>5
      <3> HIDE DEF t
      <3>7. reader' \in ReadCall
        BY <2>0, <3>3, <3>6 DEF ReadCall
      <3> QED
        BY <1>1, <2>0, <3>7
    <2>3. RecvNothing
      BY <1>1, <2>1, <2>2 DEF Recv, RecvError, Return
    <2>4. /\ available(m_in_buffer) = 0 /\ capacity(m_in_buffer) \in Nat \ {0}
          /\ received \in Nat /\ taken \in Nat /\ sent \in Nat
      BY <1>1, ByteBufferAssumption, SocketAssumption
      DEF IndInv, ReaderEmpty, Rewound, TypeOK, Buffer, capacity
    <2>5. closed /\ sent = received
      <3>1. 0 \notin 1..Least(capacity(m_in_buffer), sent - received)
        BY <2>4 DEF Least
      <3> QED
        BY <2>3, <2>4, <3>1 DEF RecvNothing, RecvStatus
    <2> QED
      BY <1>1, <2>3, <2>4, <2>5 DEF RecvNothing, Stream
  <1>2. IndInv /\ Stream /\ [Next]_vars => [Short]_vars
    BY <1>1
  <1> QED
    BY <1>2, Inductive, StreamInductive, PTL DEF Spec, ShortOnlyAtEnd

----------------------------------------------------------------------------
(* What is written *)

\* What has left for the wire and what is in the buffer behind it.
Out(w, b) == w \o chunk(b, available(b))

\* The bytes of a write that are not copied yet.
Rest(call) == IF call = NoCall THEN 0 ELSE call.size - call.total

\* q holds bytes up to top in increasing order.
Increasing(q, top) ==
    /\ \A i \in 1..Len(q) : q[i] \in 1..top
    /\ \A i \in 1..Len(q) - 1 : q[i] < q[i + 1]

\* q holds the bytes up to top, all of them.
Whole(q, top) == Len(q) = top /\ \A i \in 1..Len(q) : q[i] = i

Written ==
    LET out == Out(wire, m_out_buffer)
        top == handed - Rest(writer)
    IN  Increasing(out, top) /\ (~failed => Whole(out, top))

\* A flush has no bytes of its own to copy.
FlushBare ==
    writer # NoCall /\ writer.kind = "flush" => writer.size = 0 /\ writer.total = 0

\* The bytes a buffer exposes, place by place.
LEMMA ChunkAt ==
    ASSUME NEW b \in Buffer, NEW n \in Nat, n <= available(b)
    PROVE  /\ chunk(b, n) \in Seq(Bytes \cup {Blank}) /\ Len(chunk(b, n)) = n
           /\ \A i \in 1..n : chunk(b, n)[i] = b.m_buffer[b.m_start + i - 1]
  <1>1. chunk(b, n) \in Seq(Bytes \cup {Blank})
    BY ChunkType
  <1>2. chunk(b, n) = [i \in 1..n |-> b.m_buffer[b.m_start + i - 1]]
    BY DEF chunk
  <1> QED
    BY <1>1, <1>2

LEMMA OutAt ==
    ASSUME NEW b \in Buffer, NEW w \in Seq(Bytes \cup {Blank})
    PROVE  /\ Out(w, b) \in Seq(Bytes \cup {Blank}) /\ Len(Out(w, b)) = Len(w) + available(b)
           /\ available(b) \in Nat /\ Len(w) \in Nat
           /\ \A i \in 1..Len(w) : Out(w, b)[i] = w[i]
           /\ \A i \in 1..available(b) : Out(w, b)[Len(w) + i] = b.m_buffer[b.m_start + i - 1]
  <1> DEFINE c == chunk(b, available(b))
  <1>1. available(b) \in Nat
    BY ByteBufferAssumption DEF Buffer, available
  <1>2. /\ c \in Seq(Bytes \cup {Blank}) /\ Len(c) = available(b)
        /\ \A i \in 1..available(b) : c[i] = b.m_buffer[b.m_start + i - 1]
    BY <1>1, ChunkAt
  <1>3. Out(w, b) = w \o c
    BY Zenon DEF Out
  <1> HIDE DEF c
  <1>4. /\ w \o c \in Seq(Bytes \cup {Blank}) /\ Len(w \o c) = Len(w) + Len(c) /\ Len(w) \in Nat
        /\ \A i \in 1..Len(w) : (w \o c)[i] = w[i]
        /\ \A i \in 1..Len(c) : (w \o c)[Len(w) + i] = c[i]
    <2>1. w \o c \in Seq(Bytes \cup {Blank}) /\ Len(w \o c) = Len(w) + Len(c) /\ Len(w) \in Nat
      <3>1. c \in Seq(Bytes \cup {Blank})
        BY <1>2
      <3> QED
        BY <3>1
    <2>2. ASSUME NEW i \in 1..Len(w) PROVE (w \o c)[i] = w[i]
      <3>1. Len(w) \in Nat /\ Len(c) \in Nat /\ i \in Nat /\ i <= Len(w)
            /\ i \in 1..(Len(w) + Len(c))
        BY <1>2, <2>1
      <3> QED
        BY <1>2, <3>1
    <2>3. ASSUME NEW i \in 1..Len(c) PROVE (w \o c)[Len(w) + i] = c[i]
      <3>1. Len(w) \in Nat /\ Len(c) \in Nat /\ i \in Nat /\ ~(Len(w) + i <= Len(w))
            /\ Len(w) + i \in 1..(Len(w) + Len(c)) /\ (Len(w) + i) - Len(w) = i
        <4>1. \A x, y \in Nat : \A z \in 1..y :
                  ~(x + z <= x) /\ x + z \in 1..(x + y) /\ (x + z) - x = z /\ z \in Nat
          OBVIOUS
        <4>2. Len(w) \in Nat /\ Len(c) \in Nat
          BY <1>2, <2>1
        <4> QED
          BY <4>1, <4>2
      <3> QED
        BY <1>2, <3>1
    <2> QED
      BY <2>1, <2>2, <2>3
  <1> QED
    BY <1>1, <1>2, <1>3, <1>4

\* A send moves bytes from the buffer to the wire: nothing of Out changes.
LEMMA OutSend ==
    ASSUME NEW b \in Buffer, NEW w \in Seq(Bytes \cup {Blank}), NEW n \in Nat,
           n <= available(b)
    PROVE  Out(w \o chunk(b, n), increment_read_p(b, n)) = Out(w, b)
  <1> DEFINE c == chunk(b, n)
             r == increment_read_p(b, n)
             v == w \o c
             S == Bytes \cup {Blank}
  <1>1. /\ c \in Seq(S) /\ Len(c) = n
        /\ \A i \in 1..n : c[i] = b.m_buffer[b.m_start + i - 1]
    BY ChunkAt
  <1>2. r \in Buffer /\ available(r) = available(b) - n
    BY IncrementRead
  <1>3. /\ b.m_start \in Nat /\ b.m_end \in Nat /\ available(b) = b.m_end - b.m_start
    BY DEF Buffer, available
  <1>4. ASSUME NEW i \in 1..available(r)
        PROVE  r.m_buffer[r.m_start + i - 1] = b.m_buffer[b.m_start + (n + i) - 1]
    <2>1. b.m_start + n # b.m_end
      BY <1>2, <1>3
    <2>2. r = [m_buffer |-> b.m_buffer, m_start |-> b.m_start + n, m_end |-> b.m_end]
      BY <2>1 DEF increment_read_p
    <2>3. r.m_buffer = b.m_buffer /\ r.m_start = b.m_start + n
      BY <2>2
    <2>4. r.m_start + i - 1 = b.m_start + (n + i) - 1
      BY <1>2, <1>3, <2>3
    <2> QED
      BY <2>3, <2>4
  <1> HIDE DEF c, r
  <1>5. v \in Seq(S) /\ Len(v) = Len(w) + n /\ Len(w) \in Nat
    BY <1>1
  <1>6. /\ \A i \in 1..Len(w) : v[i] = w[i]
        /\ \A i \in 1..n : v[Len(w) + i] = c[i]
    BY <1>1
  <1> HIDE DEF v
  <1> DEFINE x == Out(v, r)
             y == Out(w, b)
  <1>7. /\ x \in Seq(S) /\ Len(x) = Len(v) + available(r)
        /\ \A i \in 1..Len(v) : x[i] = v[i]
        /\ \A i \in 1..available(r) : x[Len(v) + i] = r.m_buffer[r.m_start + i - 1]
    BY <1>2, <1>5, OutAt
  <1>8. /\ y \in Seq(S) /\ Len(y) = Len(w) + available(b) /\ available(b) \in Nat
        /\ \A i \in 1..Len(w) : y[i] = w[i]
        /\ \A i \in 1..available(b) : y[Len(w) + i] = b.m_buffer[b.m_start + i - 1]
    BY OutAt
  <1> HIDE DEF x, y, S
  <1>9. Len(x) = Len(y)
    BY <1>2, <1>5, <1>7, <1>8
  <1>10. ASSUME NEW i \in 1..Len(y) PROVE x[i] = y[i]
    <2>0. i \in Nat \ {0} /\ i <= Len(w) + available(b)
      BY <1>5, <1>8
    <2>1. CASE i \in 1..Len(w)
      <3>1. i \in 1..Len(v)
        BY <1>5, <2>1
      <3> QED
        BY <1>6, <1>7, <1>8, <2>1, <3>1
    <2>2. CASE i \notin 1..Len(w) /\ i \in 1..(Len(w) + n)
      <3>1. PICK j \in 1..n : i = Len(w) + j
        <4>1. i - Len(w) \in 1..n /\ i = Len(w) + (i - Len(w))
          BY <1>5, <2>0, <2>2
        <4> QED
          BY <4>1
      <3>2. i \in 1..Len(v) /\ j \in 1..available(b)
        BY <1>5, <1>8, <2>2
      <3>3. x[i] = c[j]
        BY <1>6, <1>7, <3>1, <3>2
      <3>4. y[i] = b.m_buffer[b.m_start + j - 1]
        BY <1>8, <3>1, <3>2
      <3> QED
        BY <1>1, <3>3, <3>4
    <2>3. CASE i \notin 1..(Len(w) + n)
      <3>1. PICK j \in 1..available(r) : i = Len(v) + j
        <4>1. i - Len(v) \in 1..available(r) /\ i = Len(v) + (i - Len(v))
          BY <1>2, <1>5, <1>8, <2>0, <2>3
        <4> QED
          BY <4>1
      <3>2. n + j \in 1..available(b) /\ i = Len(w) + (n + j)
        BY <1>2, <1>5, <1>8, <3>1
      <3> QED
        BY <1>4, <1>7, <1>8, <3>1, <3>2
    <2> QED
      BY <2>1, <2>2, <2>3
  <1>11. x = y
    BY <1>7, <1>8, <1>9, <1>10
  <1> QED
    BY <1>11 DEF x, y, v, c, r

\* Bytes written go behind what is there.
LEMMA OutWrite ==
    ASSUME NEW b \in Buffer, NEW w \in Seq(Bytes \cup {Blank}), NEW bytes \in Seq(Bytes),
           NEW n, n = write_size(b, Len(bytes))
    PROVE  /\ n \in 0..Len(bytes) /\ write(b, bytes) \in Buffer
           /\ Len(Out(w, write(b, bytes))) = Len(Out(w, b)) + n
           /\ \A i \in 1..Len(Out(w, b)) : Out(w, write(b, bytes))[i] = Out(w, b)[i]
           /\ \A i \in 1..n : Out(w, write(b, bytes))[Len(Out(w, b)) + i] = bytes[i]
  <1> DEFINE c == write(b, bytes)
             head == SubSeq(bytes, 1, n)
             S == Bytes \cup {Blank}
             f == [i \in 0..BUFFER_SIZE - 1 |->
                     IF i >= b.m_end /\ i < b.m_end + Len(head)
                     THEN head[i - b.m_end + 1]
                     ELSE b.m_buffer[i]]
  <1>1. capacity(b) \in Nat /\ Len(bytes) \in Nat
    BY ByteBufferAssumption DEF capacity, Buffer
  <1>2. n \in 0..Len(bytes) /\ n <= capacity(b)
    BY <1>1 DEF write_size, Least
  <1>3. head \in Seq(Bytes) /\ Len(head) = n /\ \A i \in 1..n : head[i] = bytes[i]
    BY <1>2
  <1>4. /\ b.m_start \in Nat /\ b.m_end \in Nat /\ b.m_start <= b.m_end
        /\ available(b) = b.m_end - b.m_start /\ b.m_end + n <= BUFFER_SIZE
        /\ BUFFER_SIZE \in Nat
    BY <1>2, ByteBufferAssumption DEF Buffer, available, capacity
  <1>5. c \in Buffer
    BY WriteFits
  <1>6. c = [m_buffer |-> f, m_start |-> b.m_start, m_end |-> b.m_end + n]
    BY DEF write, increment_write_p, Fill
  <1> HIDE DEF c, f, head
  <1>7. c.m_buffer = f /\ c.m_start = b.m_start /\ c.m_end = b.m_end + n
    BY <1>6
  <1>8. available(c) = available(b) + n
    BY <1>2, <1>4, <1>7 DEF available
  <1> DEFINE x == Out(w, c)
             y == Out(w, b)
  <1>9. /\ x \in Seq(S) /\ Len(x) = Len(w) + available(c)
        /\ \A i \in 1..Len(w) : x[i] = w[i] /\ Len(w) \in Nat
        /\ \A i \in 1..available(c) : x[Len(w) + i] = c.m_buffer[c.m_start + i - 1]
    BY <1>5, OutAt
  <1>10. /\ y \in Seq(S) /\ Len(y) = Len(w) + available(b)
         /\ available(b) \in Nat /\ Len(w) \in Nat
         /\ \A i \in 1..Len(w) : y[i] = w[i]
         /\ \A i \in 1..available(b) : y[Len(w) + i] = b.m_buffer[b.m_start + i - 1]
    BY OutAt
  <1> HIDE DEF x, y, S
  <1>11. Len(x) = Len(y) + n
    BY <1>2, <1>8, <1>9, <1>10
  <1>12. ASSUME NEW i \in 1..Len(y) PROVE x[i] = y[i]
    <2>1. CASE i \in 1..Len(w)
      BY <1>9, <1>10, <2>1
    <2>2. CASE i \notin 1..Len(w)
      <3>1. PICK j \in 1..available(b) : i = Len(w) + j
        <4>1. i - Len(w) \in 1..available(b) /\ i = Len(w) + (i - Len(w))
          BY <1>10, <2>2
        <4> QED
          BY <4>1
      <3>2. j \in 1..available(c)
        BY <1>2, <1>8, <1>10
      <3>3. b.m_start + j - 1 \in 0..BUFFER_SIZE - 1 /\ b.m_start + j - 1 < b.m_end
        <4>1. j \in Nat \ {0} /\ j <= available(b)
          BY <1>10
        <4>2. \A s, e, z \in Nat : z <= e - s => s + z - 1 < e
          OBVIOUS
        <4>3. b.m_start + j - 1 < b.m_end
          BY <1>4, <4>1, <4>2
        <4>4. b.m_end <= BUFFER_SIZE
          BY <1>2, <1>4
        <4>5. \A s, e, t \in Nat : \A z \in Nat \ {0} :
                  s + z - 1 < e /\ e <= t => s + z - 1 \in 0..t - 1
          OBVIOUS
        <4> QED
          BY <1>4, <4>1, <4>3, <4>4, <4>5
      <3>4. f[b.m_start + j - 1] = b.m_buffer[b.m_start + j - 1]
        BY <1>4, <3>3 DEF f
      <3> QED
        BY <1>7, <1>9, <1>10, <3>1, <3>2, <3>4
    <2> QED
      BY <2>1, <2>2
  <1>13. ASSUME NEW i \in 1..n PROVE x[Len(y) + i] = bytes[i]
    <2> DEFINE j == available(b) + i
               k == b.m_end + i - 1
    <2>1. i \in Nat \ {0} /\ i <= n /\ n \in Nat
      BY <1>2
    <2>2. j \in 1..available(c) /\ Len(y) + i = Len(w) + j
      BY <1>8, <1>10, <2>1
    <2>3. b.m_start + j - 1 = k
      <3>1. \A s, e, z \in Nat : s + ((e - s) + z) - 1 = e + z - 1
        OBVIOUS
      <3> QED
        BY <1>4, <2>1, <3>1
    <2>4. /\ k \in 0..BUFFER_SIZE - 1 /\ k >= b.m_end /\ k < b.m_end + n
          /\ k - b.m_end + 1 = i
      BY <1>4, <2>1
    <2> HIDE DEF j, k
    <2>5. f[k] = head[i]
      BY <1>3, <2>4 DEF f
    <2>6. x[Len(w) + j] = f[k]
      BY <1>7, <1>9, <2>2, <2>3
    <2> QED
      BY <1>3, <2>2, <2>5, <2>6
  <1> QED
    BY <1>2, <1>5, <1>11, <1>12, <1>13 DEF x, y, c

\* Bytes numbered on from top keep the order.
LEMMA IncreasingOn ==
    ASSUME NEW S, NEW q \in Seq(S), NEW p \in Seq(S), NEW top \in Nat, NEW n \in Nat,
           Increasing(q, top), Len(p) = Len(q) + n, \A i \in 1..Len(q) : p[i] = q[i],
           \A i \in 1..n : p[Len(q) + i] = top + i
    PROVE  Increasing(p, top + n) /\ (Whole(q, top) => Whole(p, top + n))
  <1>1. Len(q) \in Nat
    OBVIOUS
  <1>2. ASSUME NEW i \in 1..Len(p), i \notin 1..Len(q)
        PROVE  i - Len(q) \in 1..n /\ p[i] = top + (i - Len(q))
    <2>1. i - Len(q) \in 1..n /\ Len(q) + (i - Len(q)) = i
      BY <1>1, <1>2
    <2> QED
      BY <2>1
  <1>3. ASSUME NEW i \in 1..Len(p) PROVE p[i] \in 1..(top + n)
    <2>1. CASE i \in 1..Len(q)
      <3>1. q[i] \in 1..top
        BY <2>1 DEF Increasing
      <3> QED
        BY <2>1, <3>1
    <2>2. CASE i \notin 1..Len(q)
      BY <1>2, <2>2
    <2> QED
      BY <2>1, <2>2
  <1>4. ASSUME NEW i \in 1..Len(p) - 1 PROVE p[i] < p[i + 1]
    <2>0. i \in 1..Len(p) /\ i + 1 \in 1..Len(p)
      BY <1>1
    <2>1. CASE i + 1 \in 1..Len(q)
      <3>1. i \in 1..Len(q) - 1 /\ i \in 1..Len(q)
        BY <1>1, <2>1
      <3>2. q[i] < q[i + 1]
        BY <3>1 DEF Increasing
      <3> QED
        BY <2>1, <3>1, <3>2
    <2>2. CASE i \in 1..Len(q) /\ i + 1 \notin 1..Len(q)
      <3>1. q[i] \in 1..top /\ p[i] = q[i]
        BY <2>2 DEF Increasing
      <3>2. p[i + 1] = top + ((i + 1) - Len(q)) /\ (i + 1) - Len(q) \in 1..n
        BY <1>2, <2>0, <2>2
      <3> QED
        BY <3>1, <3>2
    <2>3. CASE i \notin 1..Len(q)
      <3>1. i + 1 \notin 1..Len(q)
        BY <1>1, <2>0, <2>3
      <3>2. p[i] = top + (i - Len(q)) /\ p[i + 1] = top + ((i + 1) - Len(q))
        BY <1>2, <2>0, <2>3, <3>1
      <3> QED
        BY <1>1, <3>2
    <2> QED
      BY <2>1, <2>2, <2>3
  <1>5. ASSUME Whole(q, top) PROVE Len(p) = top + n /\ \A i \in 1..Len(p) : p[i] = i
    <2>1. Len(q) = top /\ \A i \in 1..Len(q) : q[i] = i
      BY <1>5 DEF Whole
    <2>2. ASSUME NEW i \in 1..Len(p) PROVE p[i] = i
      <3>1. CASE i \in 1..Len(q)
        BY <2>1, <3>1
      <3>2. CASE i \notin 1..Len(q)
        <4>1. p[i] = top + (i - top)
          BY <1>2, <2>1, <3>2
        <4> QED
          BY <1>1, <4>1
      <3> QED
        BY <3>1, <3>2
    <2> QED
      BY <2>1, <2>2
  <1> QED
    BY <1>3, <1>4, <1>5 DEF Increasing, Whole

\* Bytes numbered on from top, copied into the buffer, keep the order.
LEMMA WriteNumbers ==
    ASSUME NEW b \in Buffer, NEW w \in Seq(Bytes \cup {Blank}), NEW bytes \in Seq(Bytes),
           NEW top \in Nat, \A i \in 1..Len(bytes) : bytes[i] = top + i,
           Increasing(Out(w, b), top)
    PROVE  LET n == write_size(b, Len(bytes))
               out == Out(w, write(b, bytes))
           IN  /\ n \in Nat /\ n <= Len(bytes) /\ write(b, bytes) \in Buffer
               /\ Increasing(out, top + n) /\ (Whole(Out(w, b), top) => Whole(out, top + n))
  <1> DEFINE n == write_size(b, Len(bytes))
             c == write(b, bytes)
             q == Out(w, b)
             p == Out(w, c)
             S == Bytes \cup {Blank}
  <1>1. /\ n \in 0..Len(bytes) /\ c \in Buffer
        /\ Len(p) = Len(q) + n
        /\ \A i \in 1..Len(q) : p[i] = q[i]
        /\ \A i \in 1..n : p[Len(q) + i] = bytes[i]
    <2>1. n = write_size(b, Len(bytes))
      OBVIOUS
    <2> HIDE DEF n
    <2> QED
      BY <2>1, OutWrite
  <1> HIDE DEF n, c
  <1>2. q \in Seq(S) /\ p \in Seq(S)
    BY <1>1, OutAt
  <1>3. n \in Nat /\ n <= Len(bytes) /\ \A i \in 1..n : i \in 1..Len(bytes)
    BY <1>1
  <1>4. \A i \in 1..n : p[Len(q) + i] = top + i
    BY <1>1, <1>3
  <1>5. Increasing(q, top)
    OBVIOUS
  <1> HIDE DEF q, p, S
  <1>6. Increasing(p, top + n) /\ (Whole(q, top) => Whole(p, top + n))
    BY <1>1, <1>2, <1>3, <1>4, <1>5, IncreasingOn
  <1> QED
    BY <1>1, <1>3, <1>6 DEF n, c, q, p

\* A round of write puts the bytes that follow behind those that are out.
LEMMA WriteRoundWritten ==
    ASSUME NEW call \in WriteCall, call.total <= call.size, NEW b \in Buffer,
           handed' \in 0..MaxWritten, call.size <= handed',
           wire' \in Seq(Bytes \cup {Blank}),
           Increasing(Out(wire', b), handed' - (call.size - call.total)),
           ~failed' => Whole(Out(wire', b), handed' - (call.size - call.total)),
           WriteRound(call, b)
    PROVE  Written'
  <1> DEFINE m == call.size - call.total
             top == handed' - m
             bytes == [i \in 1..m |-> handed' - call.size + call.total + i]
             n == write_size(b, Len(bytes))
             q == Out(wire', b)
             p == Out(wire', m_out_buffer')
  <1>1. /\ call.size \in 0..MaxSize /\ call.total \in 0..MaxSize
        /\ MaxSize \in Nat /\ MaxSent \in Nat /\ MaxWritten \in Nat
        /\ Bytes = 1..(MaxSent + MaxWritten)
    BY SocketAssumption DEF WriteCall
  <1>2. m \in Nat /\ top \in Nat /\ handed' - call.size + call.total = top /\ top + m = handed'
    BY <1>1
  <1>3. /\ m_out_buffer' = write(b, bytes)
        /\ writer' = IF call.total + n < call.size
                     THEN [call EXCEPT !.total = call.total + n]
                     ELSE NoCall
    BY DEF WriteRound
  <1>4. Increasing(q, top) /\ (~failed' => Whole(q, top))
    OBVIOUS
  <1> HIDE DEF m, top, q, n
  <1>5. /\ bytes \in Seq(Bytes) /\ Len(bytes) = m
        /\ \A i \in 1..m : bytes[i] = top + i
    <2>1. \A i \in 1..m : top + i \in Bytes
      BY <1>1, <1>2
    <2>2. bytes = [i \in 1..m |-> top + i]
      BY <1>2
    <2>3. [i \in 1..m |-> top + i] \in [1..m -> Bytes]
      BY <2>1
    <2> QED
      BY <1>2, <2>2, <2>3
  <1> HIDE DEF bytes
  <1>6. /\ n \in Nat /\ n <= m
        /\ Increasing(p, top + n) /\ (Whole(q, top) => Whole(p, top + n))
    <2> DEFINE w == wire'
    <2>1. w \in Seq(Bytes \cup {Blank}) /\ Increasing(Out(w, b), top)
      BY <1>4 DEF q
    <2> HIDE DEF w
    <2>2. /\ write_size(b, Len(bytes)) \in Nat /\ write_size(b, Len(bytes)) <= Len(bytes)
          /\ Increasing(Out(w, write(b, bytes)), top + write_size(b, Len(bytes)))
          /\ (Whole(Out(w, b), top) =>
                 Whole(Out(w, write(b, bytes)), top + write_size(b, Len(bytes))))
      BY <1>2, <1>5, <2>1, WriteNumbers
    <2> QED
      BY <1>3, <1>5, <2>2 DEF q, n, w
  <1> HIDE DEF p
  <1>8. n \in Nat /\ n <= m
    BY <1>6
  <1>10. Increasing(p, top + n) /\ (~failed' => Whole(p, top + n))
    BY <1>4, <1>6
  <1>11. handed' - Rest(writer') = top + n
    <2>1. CASE call.total + n < call.size
      <3>1. writer' = [call EXCEPT !.total = call.total + n]
        BY <1>3, <2>1
      <3>2. call.total + n \in 0..MaxSize
        BY <1>1, <1>8, <2>1
      <3>3. writer' \in WriteCall /\ writer'.total = call.total + n /\ writer'.size = call.size
        BY <3>1, <3>2 DEF WriteCall
      <3>4. Rest(writer') = call.size - (call.total + n)
        BY <3>3, SocketAssumption DEF Rest
      <3>5. call.size - (call.total + n) = m - n
        BY <1>1, <1>8 DEF m
      <3>6. \A x, y, z \in Nat : (x + y) - (y - z) = x + z
        OBVIOUS
      <3>7. handed' - Rest(writer') = (top + m) - (m - n)
        BY <1>2, <3>4, <3>5
      <3> QED
        BY <1>2, <1>8, <3>6, <3>7
    <2>2. CASE ~(call.total + n < call.size)
      <3>1. writer' = NoCall /\ n = m
        BY <1>1, <1>3, <1>8, <2>2 DEF m
      <3>2. Rest(writer') = 0
        BY <3>1 DEF Rest
      <3>3. handed' \in Nat /\ handed' = top + n
        BY <1>1, <1>2, <3>1
      <3>4. \A x, y \in Nat : y = 0 => x - y = x
        OBVIOUS
      <3> QED
        BY <3>2, <3>3, <3>4
    <2> QED
      BY <2>1, <2>2
  <1> QED
    BY <1>10, <1>11 DEF Written, p

\* Every step sends and buffers the written bytes in order.
LEMMA WrittenStep ==
    ASSUME IndInv, FlushBare, Written, [Next]_vars
    PROVE  Written'
  <1> USE DEF readVars, writeVars, peerVars
  <1>0. /\ m_out_buffer \in Buffer /\ wire \in Seq(Bytes \cup {Blank})
        /\ handed \in 0..MaxWritten /\ handed \in Nat /\ failed \in BOOLEAN
        /\ MaxSize \in Nat /\ MaxWritten \in Nat
    BY SocketAssumption DEF IndInv, TypeOK
  <1>1. writer # NoCall => /\ writer \in WriteCall /\ writer.total <= writer.size
                           /\ writer.size <= handed
                           /\ writer.total \in Nat /\ writer.size \in Nat
    BY SocketAssumption DEF IndInv, TypeOK, Positions, WriteCall
  <1>2. handed - Rest(writer) \in Nat /\ handed - Rest(writer) <= handed
    BY <1>0, <1>1 DEF Rest
  <1>3. ASSUME NEW size \in 0..MaxSize, Write(size) PROVE Written'
    <2> DEFINE call == [kind |-> "write", size |-> size, total |-> 0]
    <2>1. call \in WriteCall /\ call.total = 0 /\ call.size = size /\ size \in Nat
      BY <1>0 DEF WriteCall
    <2>2. /\ handed' \in 0..MaxWritten /\ handed' = handed + size
          /\ wire' = wire /\ failed' = failed /\ writer = NoCall
          /\ WriteRound(call, m_out_buffer)
      BY <1>0, <1>3, <2>1 DEF Write
    <2> HIDE DEF call
    <2>3. handed' - (call.size - call.total) = handed - Rest(writer) /\ call.size <= handed'
          /\ call.total <= call.size
      BY <1>0, <2>1, <2>2 DEF Rest
    <2>4. /\ Increasing(Out(wire', m_out_buffer), handed' - (call.size - call.total))
          /\ ~failed' => Whole(Out(wire', m_out_buffer), handed' - (call.size - call.total))
      BY <2>2, <2>3 DEF Written
    <2> QED
      BY <1>0, <2>1, <2>2, <2>3, <2>4, WriteRoundWritten
  <1>4. ASSUME Flush PROVE Written'
    <2>1. /\ writer = NoCall /\ UNCHANGED <<m_out_buffer, wire, handed, failed>>
          /\ writer' = [kind |-> "flush", size |-> 0, total |-> 0]
      BY <1>4 DEF Flush
    <2>2. Rest(writer) = 0 /\ Rest(writer') = 0
      BY <2>1 DEF Rest
    <2> QED
      BY <2>1, <2>2 DEF Written
  <1>5. ASSUME NEW n \in 1..BUFFER_SIZE, SendSome(n) PROVE Written'
    <2> DEFINE b == Sent(m_out_buffer, n)
    <2>1. /\ n \in Nat /\ n <= available(m_out_buffer) /\ writer # NoCall
          /\ UNCHANGED <<handed, failed>> /\ wire' = wire \o chunk(m_out_buffer, n)
      BY <1>5 DEF SendSome
    <2>2. b \in Buffer /\ Out(wire', b) = Out(wire, m_out_buffer)
      BY <1>0, <2>1, IncrementRead, OutSend DEF Sent
    <2>3. wire' \in Seq(Bytes \cup {Blank})
      <3>1. chunk(m_out_buffer, n) \in Seq(Bytes \cup {Blank})
        BY <1>0, <2>1, ChunkType
      <3> QED
        BY <1>0, <2>1, <3>1
    <2>4. \/ m_out_buffer' = b /\ writer' = writer
          \/ m_out_buffer' = b /\ writer' = NoCall /\ writer.kind = "flush"
          \/ WriteRound(writer, b)
      BY <1>5 DEF SendSome
    <2> HIDE DEF b
    <2>5. CASE m_out_buffer' = b /\ writer' = writer
      BY <2>1, <2>2, <2>5 DEF Written
    <2>6. CASE m_out_buffer' = b /\ writer' = NoCall /\ writer.kind = "flush"
      <3>1. Rest(writer) = 0 /\ Rest(writer') = 0
        BY <1>1, <2>1, <2>6 DEF Rest, FlushBare
      <3> QED
        BY <2>1, <2>2, <2>6, <3>1 DEF Written
    <2>7. CASE WriteRound(writer, b)
      <3>1. /\ Increasing(Out(wire', b), handed' - (writer.size - writer.total))
            /\ ~failed' => Whole(Out(wire', b), handed' - (writer.size - writer.total))
        BY <2>1, <2>2 DEF Written, Rest
      <3> QED
        BY <1>0, <1>1, <2>1, <2>2, <2>3, <2>7, <3>1, WriteRoundWritten
    <2> QED
      BY <2>4, <2>5, <2>6, <2>7
  <1>6. ASSUME SendError PROVE Written'
    <2>1. /\ UNCHANGED <<m_out_buffer, wire, handed>> /\ writer' = NoCall /\ failed' = TRUE
      BY <1>6 DEF SendError
    <2> DEFINE q == Out(wire, m_out_buffer)
    <2>2. Increasing(q, handed)
      <3>1. Increasing(q, handed - Rest(writer))
        BY DEF Written
      <3>2. \A k \in 1..(handed - Rest(writer)) : k \in 1..handed
        BY <1>0, <1>2
      <3> HIDE DEF q
      <3> QED
        BY <3>1, <3>2 DEF Increasing
    <2>3. handed' - Rest(writer') = handed
      BY <1>0, <2>1 DEF Rest
    <2> QED
      BY <2>1, <2>2, <2>3 DEF Written
  <1>7. ASSUME \/ Peek \/ Recv \/ PeerSends \/ PeerCloses \/ UNCHANGED vars
               \/ \E fully \in BOOLEAN : ReadC(fully)
               \/ \E n \in 0..BUFFER_SIZE : Seek(n)
               \/ \E size \in 0..MaxSize, fully \in BOOLEAN :
                     ReadOrSkip("read", size, fully) \/ ReadOrSkip("skip", size, fully)
        PROVE  Written'
    <2>1. UNCHANGED <<m_out_buffer, writer, wire, handed, failed>>
      BY <1>7 DEF Peek, Recv, PeerSends, PeerCloses, vars, ReadC, Seek, ReadOrSkip
    <2> QED
      BY <2>1 DEF Written
  <1> QED
    BY <1>3, <1>4, <1>5, <1>6, <1>7 DEF Next

LEMMA FlushBareStep ==
    ASSUME IndInv, FlushBare, [Next]_vars
    PROVE  FlushBare'
  <1> USE DEF readVars, writeVars, peerVars
  <1>1. ASSUME NEW call, NEW b, WriteRound(call, b), call \in WriteCall, call.kind # "flush"
        PROVE  FlushBare'
    <2>1. writer' = NoCall \/ \E t : writer' = [call EXCEPT !.total = t]
      BY <1>1 DEF WriteRound
    <2>2. writer' # NoCall => writer'.kind = call.kind
      BY <1>1, <2>1 DEF WriteCall
    <2> QED
      BY <1>1, <2>2 DEF FlushBare
  <1>2. ASSUME NEW size \in 0..MaxSize, Write(size) PROVE FlushBare'
    <2> DEFINE call == [kind |-> "write", size |-> size, total |-> 0]
    <2>1. call \in WriteCall /\ call.kind # "flush"
      BY SocketAssumption DEF WriteCall
    <2>2. WriteRound(call, m_out_buffer)
      BY <1>2 DEF Write
    <2> HIDE DEF call
    <2> QED
      BY <1>1, <2>1, <2>2
  <1>3. ASSUME Flush PROVE FlushBare'
    BY <1>3 DEF Flush, FlushBare
  <1>4. ASSUME NEW n \in 1..BUFFER_SIZE, SendSome(n) PROVE FlushBare'
    <2> DEFINE b == Sent(m_out_buffer, n)
    <2>1. \/ writer' \in {writer, NoCall}
          \/ writer # NoCall /\ writer.kind # "flush" /\ WriteRound(writer, b)
      BY <1>4 DEF SendSome
    <2>2. writer # NoCall => writer \in WriteCall
      BY DEF IndInv, TypeOK
    <2> HIDE DEF b
    <2> QED
      BY <1>1, <2>1, <2>2 DEF FlushBare
  <1>5. ASSUME SendError PROVE FlushBare'
    BY <1>5 DEF SendError, FlushBare
  <1>6. ASSUME \/ Peek \/ Recv \/ PeerSends \/ PeerCloses \/ UNCHANGED vars
               \/ \E fully \in BOOLEAN : ReadC(fully)
               \/ \E n \in 0..BUFFER_SIZE : Seek(n)
               \/ \E size \in 0..MaxSize, fully \in BOOLEAN :
                     ReadOrSkip("read", size, fully) \/ ReadOrSkip("skip", size, fully)
        PROVE  FlushBare'
    <2>1. writer' = writer
      BY <1>6 DEF Peek, Recv, PeerSends, PeerCloses, vars, ReadC, Seek, ReadOrSkip
    <2> QED
      BY <2>1 DEF FlushBare
  <1> QED
    BY <1>2, <1>3, <1>4, <1>5, <1>6 DEF Next

\* The kernel gets the bytes handed to write in order and without a gap, for every
\* BUFFER_SIZE and however few bytes each send takes; after a failed send there may
\* be a gap, never a change of order.
THEOREM WritesInOrder == Spec => []WriteInOrder
  <1>1. Init => FlushBare /\ Written
    <2> SUFFICES ASSUME Init PROVE FlushBare /\ Written
      OBVIOUS
    <2>1. /\ m_out_buffer \in Buffer /\ available(m_out_buffer) = 0
          /\ writer = NoCall /\ wire = <<>> /\ handed = 0
      BY ByteBufferAssumption DEF Init, EmptyBuffer, Buffer, available
    <2>2. Len(Out(wire, m_out_buffer)) = 0
      <3>1. wire \in Seq(Bytes \cup {Blank}) /\ Len(wire) = 0
        BY <2>1
      <3>2. m_out_buffer \in Buffer /\ available(m_out_buffer) = 0
        BY <2>1
      <3>3. Len(Out(wire, m_out_buffer)) = Len(wire) + available(m_out_buffer)
        BY <3>1, <3>2, OutAt
      <3> QED
        BY <3>1, <3>2, <3>3
    <2> QED
      BY <2>1, <2>2 DEF FlushBare, Written, Increasing, Whole, Rest
  <1>2. IndInv /\ FlushBare /\ Written /\ [Next]_vars => FlushBare' /\ Written'
    BY FlushBareStep, WrittenStep
  <1>3. ASSUME IndInv, Written PROVE WriteInOrder
    <2> DEFINE out == wire \o chunk(m_out_buffer, available(m_out_buffer))
    <2>1. /\ out \in Seq(Bytes \cup {Blank}) /\ handed \in Nat
          /\ Increasing(out, handed - Rest(writer))
          /\ ~failed => Whole(out, handed - Rest(writer))
      <3>1. /\ m_out_buffer \in Buffer /\ wire \in Seq(Bytes \cup {Blank}) /\ handed \in Nat
        BY <1>3, SocketAssumption DEF IndInv, TypeOK
      <3>2. Out(wire, m_out_buffer) \in Seq(Bytes \cup {Blank})
        BY <3>1, OutAt
      <3>3. out = Out(wire, m_out_buffer)
        BY DEF Out
      <3> HIDE DEF out
      <3> QED
        BY <1>3, <3>1, <3>2, <3>3 DEF Written
    <2> HIDE DEF out
    <2>2. ~failed => out = Upto(Len(out))
      BY <2>1 DEF Whole, Upto
    <2>3. ~failed /\ writer = NoCall => Len(out) = handed
      BY <2>1 DEF Whole, Rest
    <2>4. \A i \in 1..Len(out) - 1 : out[i] < out[i + 1]
      BY <2>1 DEF Increasing
    <2> QED
      BY <2>2, <2>3, <2>4 DEF WriteInOrder, out
  <1> QED
    BY <1>1, <1>2, <1>3, Inductive, PTL DEF Spec

============================================================================
