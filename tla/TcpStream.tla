------------------------------ MODULE TcpStream ------------------------------
(***************************************************************************)
(* Requests on their way from one TcpConnection to another: encode puts    *)
(* them in the write buffer, output() gives them to the kernel in pieces,  *)
(* the network hands over any piece of what was sent, input() reads it     *)
(* into the read buffer, execute() decodes and dispatches, and the reply   *)
(* goes to the server's write buffer (tcp_connection.cpp:154-300).  An     *)
(* HTTP client is external: its requests are written to the wire.          *)
(* What is left out: the time-out flag, and the way back of the replies,   *)
(* which is that of the requests.                                          *)
(***************************************************************************)
EXTENDS Dispatcher

CONSTANTS
  Protocals,    (* the values of m_protocal_type: "zRpcPb" and "Http"        *)
  Structs,      (* the data to send, in this order                           *)
  HttpRequests, (* the requests to send, in this order                       *)
  BufferSize,   (* size the buffers are created with: 128 in the code        *)
  Pieces,       (* sizes of the pieces the kernel may take of a longer write *)
  Faults,       (* subset of {"write", "close"}: a write that fails, a peer  *)
                (* that closes                                               *)
  Beyond,       (* what a byte outside the vector may be                     *)
  MaxReplies    (* bound: replies to one connection                          *)

ASSUME StreamAssumption ==
  /\ Protocals \subseteq {"zRpcPb", "Http"} /\ Beyond \subseteq Bytes /\ MaxReplies \in Nat
  /\ BufferSize \in Nat \ {0} /\ Pieces \subseteq Nat \ {0} /\ Faults \subseteq {"write", "close"}

VARIABLES
  m_write_buffer, m_read_buffer,
  wire,        \* bytes the kernels hold
  peer_open,   \* the sender has not closed
  pc,          \* the receiver: "input", "execute" or "closed"
  m_protocal_type,
  offered,     \* how many of the data to send encode was given
  sent,        \* history: the data that were encoded
  got, parsed, \* history: what decode returned, and what of it was parsed
  replied      \* history: the replies that were encoded

history == <<offered, sent, got, parsed, replied>>
streamVars == <<m_write_buffer, m_read_buffer, wire, peer_open, pc, m_protocal_type, history>>

StreamInit ==
  /\ \E size_follows \in BOOLEAN :
       /\ m_write_buffer = TcpBufferOf(BufferSize, size_follows)
       /\ m_read_buffer = TcpBufferOf(BufferSize, size_follows)
  /\ wire = <<>> /\ peer_open = TRUE /\ pc = "input"
  /\ m_protocal_type \in Protocals
  /\ offered = 0 /\ sent = <<>> /\ got = <<>> /\ parsed = <<>> /\ replied = <<>>

Encode ==
  /\ peer_open /\ m_protocal_type = "zRpcPb"
  /\ offered < Len(Structs) /\ offered' = offered + 1
  /\ LET data == Structs[offered + 1]
     IN  /\ m_write_buffer' = encode(m_write_buffer, data)
         /\ sent' = IF encode_success(data) THEN Append(sent, data) ELSE sent
  /\ UNCHANGED <<m_read_buffer, wire, peer_open, pc, m_protocal_type, got, parsed, replied>>

(* One turn of the loop of output(): the kernel takes some of the bytes.   *)
(* A write that fails returns -1, and -1 bytes are taken off the buffer.   *)
WriteReturns == Pieces \cup {readAble(m_write_buffer)}
                  \cup (IF "write" \in Faults THEN {-1} ELSE {})

output ==
  /\ peer_open /\ readAble(m_write_buffer) > 0
  /\ \E rt \in WriteReturns :
       /\ rt <= readAble(m_write_buffer)
       /\ wire' = wire \o BytesFrom(m_write_buffer, m_write_buffer.m_read_index, rt)
       /\ m_write_buffer' = recycleRead(m_write_buffer, rt)
  /\ UNCHANGED <<m_read_buffer, peer_open, pc, m_protocal_type, history>>

(* An HTTP client sends a request.                                         *)
HttpClientSends ==
  /\ peer_open /\ m_protocal_type = "Http"
  /\ offered < Len(HttpRequests) /\ offered' = offered + 1
  /\ sent' = Append(sent, HttpRequests[offered + 1])
  /\ wire' = wire \o RequestText(HttpRequests[offered + 1])
  /\ UNCHANGED <<m_write_buffer, m_read_buffer, peer_open, pc, m_protocal_type, got, parsed, replied>>

PeerCloses ==
  /\ "close" \in Faults
  /\ peer_open /\ peer_open' = FALSE
  /\ UNCHANGED <<m_write_buffer, m_read_buffer, wire, pc, m_protocal_type, history>>

(* One turn of the loop of input().  A full buffer is doubled first.  A    *)
(* read that fills the room there is reads on; a shorter one ends the loop. *)
(* RoomyNever is a mutant that does not double it.                         *)
RoomyNever(b) == b
Roomy(b) == IF writeAble(b) = 0 THEN resizeBuffer(b, 2 * getSize(b)) ELSE b

ReadReturns(rt) ==
  LET b == Roomy(m_read_buffer)
  IN  /\ m_read_buffer' = Received(b, SubSeq(wire, 1, rt))
      /\ wire' = SubSeq(wire, rt + 1, Len(wire))
      /\ pc' = IF rt = writeAble(b) THEN "input" ELSE "execute"

input ==
  /\ pc = "input"
  /\ \E rt \in 1 .. writeAble(Roomy(m_read_buffer)) : rt <= Len(wire) /\ ReadReturns(rt)
  /\ UNCHANGED <<m_write_buffer, peer_open, m_protocal_type, history>>

(* read() returns 0 for a peer that closed, and when it is asked for no    *)
(* bytes; read_hook makes it wait until the descriptor is readable.        *)
inputEmpty ==
  /\ pc = "input"
  /\ \/ wire = <<>> /\ ~peer_open
     \/ wire # <<>> /\ writeAble(Roomy(m_read_buffer)) <= 0
  /\ m_read_buffer' = Roomy(m_read_buffer)
  /\ pc' = "closed"
  /\ UNCHANGED <<m_write_buffer, wire, peer_open, m_protocal_type, history>>

Decode(b, beyond) == IF m_protocal_type = "Http" THEN httpDecode(b) ELSE decode(b, beyond)

(* The reply to a request; none is written when it cannot be encoded.      *)
Dispatch(data) ==
  IF m_protocal_type = "Http" THEN <<httpDispatch(data)>>
  ELSE IF encode_success(dispatch(data)) THEN <<dispatch(data)>> ELSE <<>>

(* One turn of the loop of execute().                                      *)
execute ==
  /\ pc = "execute"
  /\ IF readAble(m_read_buffer) <= 0
     THEN /\ pc' = "input"
          /\ UNCHANGED <<m_read_buffer, got, parsed, replied>>
     ELSE \E beyond \in Beyond :
            LET result == Decode(m_read_buffer, beyond)
            IN  /\ m_read_buffer' = result.buffer
                /\ IF result.decode_success
                   THEN /\ Len(replied) < MaxReplies
                        /\ pc' = "execute"
                        /\ got' = Append(got, result.data)
                        /\ parsed' = IF result.data = NoRequest THEN parsed
                                     ELSE Append(parsed, result.data)
                        /\ replied' = replied \o Dispatch(result.data)
                   ELSE /\ pc' = "input"
                        /\ UNCHANGED <<got, parsed, replied>>
  /\ UNCHANGED <<m_write_buffer, wire, peer_open, m_protocal_type, offered, sent>>

StreamNext == Encode \/ HttpClientSends \/ output \/ PeerCloses \/ input \/ inputEmpty \/ execute

StreamSpec == StreamInit /\ [][StreamNext]_streamVars

-----------------------------------------------------------------------------
(* Data that decode finds again, wherever the frame is cut: what fits an   *)
(* int32, has a number and a service, and whose every start byte but the   *)
(* first is followed by a byte that makes it, read as a length, lead       *)
(* behind the frame.                                                       *)
Int32 == -(Modulus \div 2) .. Modulus \div 2 - 1
PbData == [msg_req : Seq(Bytes), service_full_name : Seq(Bytes), err_code : Int32,
           err_info : Seq(Bytes), pb_data : Seq(Bytes)]

Decodable(d) ==
  /\ d \in PbData /\ d.msg_req # <<>> /\ 2 * PkLen(d) < Modulus
  /\ \A i \in 2 .. PkLen(d) - 1 : encodePbData(d)[i] = PB_START =>
       LET next == encodePbData(d)[i + 1]
       IN  2 * next < Base /\ next * Power[IntSize - 1] >= PkLen(d)

(* A request whose path is one word and whose length is that of its body.  *)
HttpData == [method : {GET, POST}, path : Seq(Nat \ {SP, CR}), content_length : 0 .. 9,
             body : Seq(Nat)]

WellFormed(r) ==
  /\ r \in HttpData /\ r.path # <<>> /\ Len(r.body) = r.content_length
  /\ r.method = GET => r.body = <<>>

(* The data to send are such data, those left out that encode refuses.     *)
DataAreFound ==
  /\ Structs \in Seq(PbData) /\ HttpRequests \in Seq(HttpData)
  /\ \A i \in DOMAIN Structs : encode_success(Structs[i]) => Decodable(Structs[i])
  /\ \A i \in DOMAIN HttpRequests : WellFormed(HttpRequests[i])

InBounds(b) == 0 <= b.m_read_index /\ b.m_read_index <= b.m_write_index
                 /\ b.m_write_index <= getSize(b)

(* The bytes that data take on the way.                                    *)
BytesOf(data) == IF m_protocal_type = "Http" THEN RequestText(data) ELSE encodePbData(data)
Stream(structs) == FlattenSeq([i \in DOMAIN structs |-> BytesOf(structs[i])])

(* No byte is lost, doubled or reordered on the way: the requests already  *)
(* parsed, what the read buffer, the network and the write buffer hold,    *)
(* together are the requests that were sent (TcpBuffer's moves, and the    *)
(* bytes decode takes off).  A request that HTTP finds before it is there  *)
(* takes no bytes.                                                         *)
BytesConserved ==
  /\ InBounds(m_read_buffer) /\ InBounds(m_write_buffer)
  /\ Stream(sent) = Stream(parsed) \o getBufferString(m_read_buffer) \o wire
                      \o getBufferString(m_write_buffer)

(* Every request is answered, an error included, under its number and in   *)
(* order, so that the client's getResPackageData finds the reply; and a    *)
(* method answers with data exactly the requests that name it and can be   *)
(* parsed: the service is found as long as no package stands before its    *)
(* name.                                                                   *)
NamesAMethod(request) ==
  \E s \in Services : \E m \in s.methods :
    /\ DOT \notin Range(s.full_name)
    /\ request.service_full_name = s.full_name \o <<DOT>> \o m

Answers(reply, request) ==
  /\ reply.msg_req = request.msg_req
  /\ (reply.err_code = 0) <=> NamesAMethod(request) /\ request.pb_data \notin Unparsable

EachIsAnswered ==
  /\ Len(replied) = Len(got)
  /\ m_protocal_type = "zRpcPb" => \A i \in DOMAIN replied : Answers(replied[i], got[i])

Arrived == wire = <<>> /\ readAble(m_write_buffer) = 0 /\ pc = "input"

(* When all bytes have been read and the receiver waits for more, it has   *)
(* decoded everything, unless its last read filled the buffer exactly: it  *)
(* then reads on before it looks at what it has.                           *)
DecodedUnlessFull ==
  Arrived /\ writeAble(m_read_buffer) # 0 => parsed = sent

(* A connection is closed because its peer has closed (the message of      *)
(* tcp_connection.cpp:184), unless the buffer's size stays 0, which makes  *)
(* input() ask for no bytes.                                               *)
ClosedByPeer == pc = "closed" /\ peer_open => ~m_read_buffer.size_follows
=============================================================================
