------------------------------ MODULE HttpCodec ------------------------------
(***************************************************************************)
(* HttpCodeC (src/src/network/http/http_codec.cpp): what is found in a     *)
(* TcpBuffer that holds the beginning of a request.                        *)
(*                                                                         *)
(* A character is a byte.  The words GET, POST, HTTP/1.1 and               *)
(* Content-Length are one character each, the others are themselves.  A    *)
(* url with a scheme and a query is left out.                              *)
(***************************************************************************)
EXTENDS TcpBuffer, FiniteSetsExt

CR == 13   LF == 10   SP == 32   COLON == 58   DIGIT0 == 48
GET == 33   POST == 34   HTTP_1_1 == 35   CONTENT_LENGTH == 36
g_CRLF == <<CR, LF>>
g_CRLF_DOUBLE == g_CRLF \o g_CRLF

npos == -1

(* The places where a pattern is in a text, from 0.                        *)
Places(text, pattern) ==
  {i \in 0 .. Len(text) - Len(pattern) : SubSeq(text, i + 1, i + Len(pattern)) = pattern}
find(text, pattern) ==
  IF Places(text, pattern) = {} THEN npos ELSE Min(Places(text, pattern))
substr(text, from, n) == SubSeq(text, from + 1, from + n)

(* The pieces of a text between its separators, the empty ones left out.   *)
(* A separator begins at any of its characters and takes its whole length. *)
SplitStrToVector(str, split_str) ==
  LET found(from) == {i \in from .. Len(str) - 1 : str[i + 1] \in Range(split_str)}
      pieces[from \in 0 .. Len(str) + Len(split_str)] ==
        IF from >= Len(str) THEN <<>>
        ELSE IF found(from) = {} THEN <<SubSeq(str, from + 1, Len(str))>>
        ELSE LET i == Min(found(from))
             IN  (IF i = from THEN <<>> ELSE <<substr(str, from, i - from)>>)
                   \o pieces[i + Len(split_str)]
  IN  pieces[0]

(* A key is mapped to what the last piece that begins with it says.        *)
SplitStrToMap(str, split_str, joiner) ==
  LET pieces == SplitStrToVector(str, split_str)
      map[n \in 0 .. Len(pieces)] ==
        IF n = 0 THEN <<>>
        ELSE LET j == find(pieces[n], joiner)
                 key == substr(pieces[n], 0, j)
                 value == SubSeq(pieces[n], j + Len(joiner) + 1, Len(pieces[n]))
             IN  IF j <= 0 THEN map[n - 1]
                 ELSE [k \in DOMAIN map[n - 1] \cup {key} |->
                         IF k = key THEN value ELSE map[n - 1][k]]
  IN  map[Len(pieces)]

atoi(text) ==
  LET value[n \in 0 .. Len(text)] ==
        IF n = 0 THEN 0 ELSE 10 * value[n - 1] + text[n] - DIGIT0
  IN  value[Len(text)]

(* The fields of the first line.                                           *)
parseHttpRequestLine(text) ==
  LET s1 == Min(Places(text, <<SP>>))
      s2 == Max(Places(text, <<SP>>))
  IN  IF Cardinality(Places(text, <<SP>>)) < 2 THEN [ok |-> FALSE]
      ELSE [ok     |-> /\ substr(text, 0, s1) \in {<<GET>>, <<POST>>}
                       /\ SubSeq(text, s2 + 2, Len(text)) = <<HTTP_1_1>>,
            method |-> text[1],
            path   |-> substr(text, s1 + 1, s2 - s1 - 1)]

parseHttpRequestHeader(text) ==
  LET map == SplitStrToMap(text, g_CRLF, <<COLON>>)
  IN  IF <<CONTENT_LENGTH>> \in DOMAIN map THEN atoi(map[<<CONTENT_LENGTH>>]) ELSE 0

(* The request that decode returns when it has parsed nothing.             *)
NoRequest == [method |-> GET, path |-> <<>>, content_length |-> 0, body |-> <<>>]

(* What is taken off: only a POST's body is.                               *)
ReadSize(line_end, header_end, request) ==
  line_end + 2 + header_end + 4 + Len(request.body)

(* A request line that ends where the buffer ends is a success with        *)
(* nothing parsed and nothing taken off.                                   *)
httpDecode(b) ==
  LET strs   == getBufferString(b)
      i      == find(strs, g_CRLF)
      line   == parseHttpRequestLine(substr(strs, 0, i))
      rest   == SubSeq(strs, i + 3, Len(strs))
      j      == find(rest, g_CRLF_DOUBLE)
      content_len == parseHttpRequestHeader(substr(rest, 0, j))
      after  == SubSeq(rest, j + 5, Len(rest))
      request == [method |-> line.method, path |-> line.path, content_length |-> content_len,
                  body |-> IF line.method = POST THEN substr(after, 0, content_len) ELSE <<>>]
      nothing == [decode_success |-> FALSE, data |-> NoRequest, buffer |-> b]
  IN  IF i = npos THEN nothing
      ELSE IF i = Len(strs) - 2 THEN [nothing EXCEPT !.decode_success = TRUE]
      ELSE IF ~line.ok \/ j = npos THEN nothing
      ELSE IF Len(after) < content_len THEN nothing
      ELSE [decode_success |-> TRUE, data |-> request,
            buffer |-> recycleRead(b, ReadSize(i, j, request))]

(* A request as a client sends it.                                         *)
RequestText(r) ==
  <<r.method, SP>> \o r.path \o <<SP, HTTP_1_1>> \o g_CRLF
    \o <<CONTENT_LENGTH, COLON, DIGIT0 + r.content_length>> \o g_CRLF_DOUBLE \o r.body
=============================================================================
