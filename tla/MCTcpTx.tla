------------------------------ MODULE MCTcpTx ------------------------------
(* Instance of TcpTx for TLC: writes of one and of two pbufs.              *)
EXTENDS TcpTx
=============================================================================
