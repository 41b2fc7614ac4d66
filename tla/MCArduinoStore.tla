--------------------------- MODULE MCArduinoStore ---------------------------
(* Instance of ArduinoStore for TLC: words of two bytes and sectors of two *)
(* words; data with each kind of escape, of one word, of a word and a      *)
(* half, and longer than the buffer; sector numbers of one, two and three digits, beyond *)
(* the last sector and beyond eight bits.                                  *)
EXTENDS ArduinoStore

MC_Regions == {0, 1, 2, 112}
MC_Asked == {0, 1, 112, 257}
MC_Pauses == {1}
MC_EraseText == <<3, 3>>
MC_Messages == {<<3, 3>>, <<1, 0, 2>>, <<3, 3, 3, 3, 3, 3>>}
=============================================================================
