----------------------------- MODULE MCUartRing -----------------------------
(* Instance of UartRing for TLC: a ring of three bytes that is filled more *)
(* than twice, requests shorter and longer than it.                        *)
EXTENDS UartRing
=============================================================================
