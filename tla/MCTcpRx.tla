------------------------------ MODULE MCTcpRx ------------------------------
(* Instance of TcpRx for TLC: segments of one pbuf with one or two bytes   *)
(* and of two pbufs, so that a read ends inside a pbuf, at the end of a    *)
(* pbuf and at the end of the chain.  Four bytes are enough for chains in  *)
(* freed blocks beside one that is in use and growing.                     *)
EXTENDS TcpRx

MC_Segments == {<<1, 0>>, <<2, 0>>, <<1, 1>>}
=============================================================================
