------------------------------ MODULE MCRpcCall ------------------------------
(* An instance of RpcCall for TLC: two IO threads and three descriptors, so *)
(* that one of others leaves the call room to close one and open one.     *)
EXTENDS RpcCall

CONSTANTS t1, t2

MCThreads == {t1, t2}
MCFds     == 4 .. 6
=============================================================================
