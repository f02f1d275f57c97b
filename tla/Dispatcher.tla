----------------------------- MODULE Dispatcher ------------------------------
(***************************************************************************)
(* What the server answers to a decoded request: ZRpcPbRpcDispatcher       *)
(* (zrpc_pb_rpc_dispatcher.cpp) and HttpDispatcher (http_dispatcher.cpp).  *)
(* A service's method is external: it answers with the data it was given.  *)
(***************************************************************************)
EXTENDS PbCodec, HttpCodec

CONSTANTS
  Services,     (* registered services: [full_name, methods]                 *)
  Unparsable,   (* pb_data that ParseFromString refuses                      *)
  Servlets      (* registered paths                                          *)

ASSUME ServicesAssumption ==
  Services \subseteq [full_name : Seq(Bytes), methods : SUBSET Seq(Bytes)]

DOT == 46

(* The last two digits of the codes of error_code.h.                       *)
ERROR_FAILED_SERIALIZE == 4   ERROR_SERVICE_NOT_FOUND == 8
ERROR_METHOD_NOT_FOUND == 9   ERROR_PARSE_SERVICE_NAME == 10

(* The service is what comes before the first dot.                         *)
parseServiceFullName(full_name) ==
  LET i == find(full_name, <<DOT>>)
  IN  [ok           |-> i # npos,
       service_name |-> substr(full_name, 0, i),
       method_name  |-> SubSeq(full_name, i + 2, Len(full_name))]

(* m_service_map after registerService of each service.                    *)
Registered(service_name) == {s \in Services : s.full_name = service_name}

(* Mutant: a service's other requests are answered by its first method.    *)
ErrorOfNoMethod(d) ==
  LET name == parseServiceFullName(d.service_full_name)
  IN  IF ~name.ok THEN ERROR_PARSE_SERVICE_NAME
      ELSE IF Registered(name.service_name) = {} THEN ERROR_SERVICE_NOT_FOUND
      ELSE IF d.pb_data \in Unparsable THEN ERROR_FAILED_SERIALIZE ELSE 0

ErrorOf(d) ==
  LET name == parseServiceFullName(d.service_full_name)
  IN  IF ~name.ok THEN ERROR_PARSE_SERVICE_NAME
      ELSE IF Registered(name.service_name) = {} THEN ERROR_SERVICE_NOT_FOUND
      ELSE IF \A s \in Registered(name.service_name) : name.method_name \notin s.methods
           THEN ERROR_METHOD_NOT_FOUND
      ELSE IF d.pb_data \in Unparsable THEN ERROR_FAILED_SERIALIZE ELSE 0

(* Mutant: a reply without data carries no number.                         *)
dispatchNoNumber(d) ==
  [msg_req |-> IF ErrorOf(d) = 0 THEN d.msg_req ELSE <<>>,
   service_full_name |-> d.service_full_name, err_code |-> ErrorOf(d),
   err_info |-> IF ErrorOf(d) = 0 THEN <<>> ELSE <<ErrorOf(d)>>,
   pb_data |-> IF ErrorOf(d) = 0 THEN d.pb_data ELSE <<>>]

dispatch(d) ==
  [msg_req |-> d.msg_req, service_full_name |-> d.service_full_name,
   err_code |-> ErrorOf(d), err_info |-> IF ErrorOf(d) = 0 THEN <<>> ELSE <<ErrorOf(d)>>,
   pb_data |-> IF ErrorOf(d) = 0 THEN d.pb_data ELSE <<>>]

(* The response to an HTTP request: 200, 404, or the blank one that an     *)
(* empty path gets.                                                        *)
httpDispatch(r) ==
  [path |-> r.path,
   code |-> IF r.path = <<>> THEN 0 ELSE IF r.path \in Servlets THEN 200 ELSE 404]
=============================================================================
