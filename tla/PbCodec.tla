------------------------------- MODULE PbCodec -------------------------------
(***************************************************************************)
(* ZRpcPbCodeC (src/src/network/zRpcPb/zrpc_pb_codec.cpp): the frame of a  *)
(* request or reply, and the search for a frame in a TcpBuffer.            *)
(*                                                                         *)
(* A byte is a number below Base and an int32 takes IntSize bytes in       *)
(* network order, two's complement.  The code has Base = 256, IntSize = 4. *)
(* A byte outside the vector is whatever `beyond` says.                    *)
(***************************************************************************)
EXTENDS TcpBuffer, FiniteSetsExt

CONSTANTS Base, IntSize
ASSUME CodecAssumption ==
  Base \in Nat /\ Base > 3 /\ Base % 2 = 0 /\ IntSize \in 1 .. Base - 1

PB_START == 2
PB_END   == 3
Bytes    == 0 .. Base - 1
Power[n \in 0 .. IntSize] == IF n = 0 THEN 1 ELSE Base * Power[n - 1]
Modulus  == Power[IntSize]

(* Mutant: the bytes are left in the order of the host.                    *)
htonlHost(n) == [i \in 1 .. IntSize |-> ((n % Modulus) \div Power[i - 1]) % Base]

htonl(n) == [i \in 1 .. IntSize |-> ((n % Modulus) \div Power[IntSize - i]) % Base]

Cell(b, index, beyond) ==
  IF index \in 0 .. getSize(b) - 1 THEN b.m_buffer[index + 1] ELSE beyond
Cells(b, index, n, beyond) == [i \in 1 .. n |-> Cell(b, index + i - 1, beyond)]

(* The number that bytes in network order stand for, without a sign.       *)
ntohl(bytes) ==
  LET high[i \in 0 .. IntSize] == IF i = 0 THEN 0 ELSE high[i - 1] * Base + bytes[i]
  IN  high[IntSize]

getInt32FromNetByte(b, index, beyond) ==
  LET n == ntohl(Cells(b, index, IntSize, beyond))
  IN  IF 2 * n >= Modulus THEN n - Modulus ELSE n

-----------------------------------------------------------------------------
(* A frame: start, length of the whole, then the number of the request,    *)
(* the service's name, the error code and text and the data, the texts     *)
(* with their length before them, then a constant checksum and the end.    *)

WithLength(text) == htonl(Len(text)) \o text

PkLen(d) == 2 + 6 * IntSize + Len(d.pb_data) + Len(d.service_full_name)
              + Len(d.msg_req) + Len(d.err_info)

encode_success(d) == d.service_full_name # <<>>

(* Mutant: the service goes out before the number.                         *)
encodeSwapped(d) ==
  <<PB_START>> \o htonl(PkLen(d)) \o WithLength(d.service_full_name)
    \o WithLength(d.msg_req) \o htonl(d.err_code) \o WithLength(d.err_info)
    \o d.pb_data \o htonl(1) \o <<PB_END>>

encodePbData(d) ==
  <<PB_START>> \o htonl(PkLen(d)) \o WithLength(d.msg_req)
    \o WithLength(d.service_full_name) \o htonl(d.err_code) \o WithLength(d.err_info)
    \o d.pb_data \o htonl(1) \o <<PB_END>>

(* What cannot be encoded leaves the buffer as it is.                      *)
encode(b, d) == IF encode_success(d) THEN writeToBuffer(b, encodePbData(d)) ELSE b

-----------------------------------------------------------------------------
(* The search takes the first start byte whose length leads to an end byte *)
(* that has arrived.  The length is read as soon as one byte of it is there. *)

EndOf(b, i, beyond) == i + getInt32FromNetByte(b, i + 1, beyond) - 1

FrameStarts(b, beyond) ==
  {i \in b.m_read_index .. b.m_write_index - 2 :
     /\ Cell(b, i, beyond) = PB_START
     /\ EndOf(b, i, beyond) < b.m_write_index
     /\ Cell(b, EndOf(b, i, beyond), beyond) = PB_END}

(* The fields of the frame from start_index to end_index: each length is   *)
(* taken from the frame, and a field that would begin at or behind the end *)
(* makes the frame an error.  A text longer than its local array, or of a  *)
(* negative length, is beyond this model.                                  *)
Fields(b, start_index, end_index, beyond) ==
  LET int(index)     == getInt32FromNetByte(b, index, beyond)
      pk_len         == int(start_index + 1)
      msg_req_at     == start_index + 1 + IntSize
      msg_req_len    == int(msg_req_at)
      service_at     == msg_req_at + IntSize + msg_req_len
      service_len    == int(service_at)
      err_code_at    == service_at + IntSize + service_len
      err_info_at    == err_code_at + IntSize
      err_info_len   == int(err_info_at)
      pb_data_at     == err_info_at + IntSize + err_info_len
      pb_data_len    == pk_len - service_len - msg_req_len - err_info_len - 2 - 6 * IntSize
  IN  [decode_success |-> /\ msg_req_at < end_index /\ msg_req_len # 0
                          /\ service_at + IntSize < end_index /\ service_len <= pk_len
                          /\ err_info_at < end_index /\ pb_data_at < end_index,
       data |-> [msg_req           |-> Cells(b, msg_req_at + IntSize, msg_req_len, beyond),
                 service_full_name |-> Cells(b, service_at + IntSize, service_len, beyond),
                 err_code          |-> int(err_code_at),
                 err_info          |-> Cells(b, err_info_at + IntSize, err_info_len, beyond),
                 pb_data           |-> Cells(b, pb_data_at, pb_data_len, beyond)]]

(* A frame that was found is taken off the buffer whether its fields are   *)
(* good or not; what is taken off starts at the read index, wherever the   *)
(* frame was found.                                                        *)
decode(b, beyond) ==
  IF FrameStarts(b, beyond) = {} THEN [decode_success |-> FALSE, data |-> <<>>, buffer |-> b]
  ELSE LET start_index == Min(FrameStarts(b, beyond))
           end_index   == EndOf(b, start_index, beyond)
           fields      == Fields(b, start_index, end_index, beyond)
       IN  [decode_success |-> fields.decode_success,
            data           |-> fields.data,
            buffer         |-> recycleRead(b, end_index + 1 - start_index)]
=============================================================================
