---------------------------- MODULE MCTcpStream ------------------------------
(* Instances of TcpStream for TLC.  Texts are single bytes that are neither *)
(* a start nor an end byte.                                                 *)
EXTENDS TcpStream, TLC

Struct(msg_req, service, err_info, pb_data) ==
  [msg_req |-> msg_req, service_full_name |-> service, err_code |-> Len(err_info),
   err_info |-> err_info, pb_data |-> pb_data]

(* Service 5 has the method 6; service 5.7 is in a package.                *)
TwoServices == {[full_name |-> <<5>>, methods |-> {<<6>>}],
                [full_name |-> <<5, DOT, 7>>, methods |-> {<<6>>}]}
BadData == {<<9>>}
OneServlet == {<<11>>}

(* One to the method, one that cannot be encoded, one to a service in a    *)
(* package, and one whose data are refused.                                *)
SomeStructs == <<Struct(<<4>>, <<5, DOT, 6>>, <<>>, <<PB_START, 30>>), Struct(<<5>>, <<>>, <<>>, <<>>),
                 Struct(<<7>>, <<5, DOT, 7, DOT, 6>>, <<4>>, <<>>),
                 Struct(<<8>>, <<5, DOT, 6>>, <<>>, <<9>>)>>
TwoRequests == <<[method |-> GET, path |-> <<11>>, content_length |-> 0, body |-> <<>>],
                [method |-> POST, path |-> <<12>>, content_length |-> 1, body |-> <<40>>]>>
BothProtocals == {"zRpcPb", "Http"}

ASSUME DataAreFound
=============================================================================
