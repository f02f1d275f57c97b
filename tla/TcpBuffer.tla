------------------------------ MODULE TcpBuffer ------------------------------
(***************************************************************************)
(* TcpBuffer (src/src/network/tcp/tcp_buffer.cpp): a vector of bytes with  *)
(* a read and a write index.  A buffer is a record; each method is an      *)
(* operator that returns the buffer after the call.  Indices count from 0, *)
(* as in the code.                                                         *)
(*                                                                         *)
(* No line of the class assigns m_size after its initializer, so           *)
(* writeAble() is -m_write_index, and the constructor only reserves room,  *)
(* so the vector starts empty.  A buffer with size_follows = FALSE is that *)
(* code; size_follows = TRUE is the class its callers take it to be: the   *)
(* vector has the size the constructor is given, m_size is the vector's.   *)
(***************************************************************************)
EXTENDS Integers, Sequences, SequencesExt

(* A cell that nobody has written holds 0.                                 *)
Zeros(n) == [i \in 1 .. n |-> 0]
TcpBufferOf(size, size_follows) ==
  [m_buffer      |-> IF size_follows THEN Zeros(size) ELSE <<>>,
   m_read_index  |-> 0,
   m_write_index |-> 0,
   size_follows  |-> size_follows]

getSize(b)   == Len(b.m_buffer)
readAble(b)  == b.m_write_index - b.m_read_index
writeAble(b) == (IF b.size_follows THEN getSize(b) ELSE 0) - b.m_write_index

(* The n bytes from an index on.                                           *)
BytesFrom(b, index, n) == SubSeq(b.m_buffer, index + 1, index + n)
getBufferString(b) == BytesFrom(b, b.m_read_index, readAble(b))

(* memcpy into a vector of the given size, from its start.                 *)
Padded(bytes, size) == bytes \o Zeros(size - Len(bytes))

resizeBuffer(b, size) ==
  LET kept == IF size <= readAble(b) THEN size ELSE readAble(b)
  IN  [b EXCEPT !.m_buffer      = Padded(BytesFrom(b, b.m_read_index, kept), size),
                !.m_read_index  = 0,
                !.m_write_index = kept]

(* Mutant: the unread bytes are not moved to the front.                    *)
adjustNoMove(b) ==
  IF b.m_read_index > getSize(b) \div 3
  THEN [b EXCEPT !.m_read_index = 0, !.m_write_index = readAble(b)]
  ELSE b

(* Once a third of the vector has been read, the rest moves to its front.  *)
adjustBuffer(b) ==
  IF b.m_read_index > getSize(b) \div 3 THEN resizeBuffer(b, getSize(b)) ELSE b

(* The bound is tested on one side only.                                   *)
recycleRead(b, index) ==
  IF b.m_read_index + index > getSize(b) THEN b
  ELSE adjustBuffer([b EXCEPT !.m_read_index = @ + index])

recycleWrite(b, index) ==
  IF b.m_write_index + index > getSize(b) THEN b
  ELSE adjustBuffer([b EXCEPT !.m_write_index = @ + index])

(* memcpy at the write index, which moves on.                              *)
PutBytes(b, bytes) ==
  [b EXCEPT !.m_buffer = [i \in 1 .. Len(@) |->
                            IF i - 1 \in b.m_write_index .. b.m_write_index + Len(bytes) - 1
                            THEN bytes[i - b.m_write_index] ELSE @[i]]]

writeToBuffer(b, bytes) ==
  LET roomy == IF Len(bytes) > writeAble(b)
               THEN resizeBuffer(b, (3 * (b.m_write_index + Len(bytes))) \div 2) ELSE b
  IN  [PutBytes(roomy, bytes) EXCEPT !.m_write_index = @ + Len(bytes)]

(* What read() leaves in the vector behind the write index, and the call   *)
(* of recycleWrite that follows it.                                        *)
Received(b, bytes) == recycleWrite(PutBytes(b, bytes), Len(bytes))
=============================================================================
