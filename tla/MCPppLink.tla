----------------------------- MODULE MCPppLink -----------------------------
(* Instance of PppLink for TLC.                                            *)
EXTENDS PppLink
=============================================================================
