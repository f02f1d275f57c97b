---------------------------- MODULE MCTcpServer -----------------------------
(* Instances of TcpServer for TLC: fewer descriptors than connections, so   *)
(* that they are reused.                                                    *)
EXTENDS TcpServer

TwoFds == {4, 5}
=============================================================================
