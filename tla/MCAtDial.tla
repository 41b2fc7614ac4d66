------------------------------ MODULE MCAtDial ------------------------------
(* Instance of AtDial for TLC.                                             *)
EXTENDS AtDial
=============================================================================
