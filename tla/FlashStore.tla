----------------------------- MODULE FlashStore -----------------------------
(***************************************************************************)
(* The storage of flash_memory.c as operators on its contents.  Programming*)
(* flash only clears bits: a word keeps the AND of the old and the new     *)
(* value until the whole area is erased.  A byte has two bits here, and    *)
(* Ones is the erased one.  Region 0 is the kilobyte below the storage,    *)
(* which is where the address of sector 0 falls.                           *)
(***************************************************************************)
EXTENDS Naturals, Sequences

CONSTANTS
  Regions,       \* the sectors in use, and 0
  WordBytes,     \* 4
  SectorBytes,   \* 1024
  MaxSector,     \* 128
  EraseText      \* "ERASE"

Bytes == 0..3
Ones == 3

ASSUME FlashAssumption ==
  /\ 0 \in Regions /\ Regions \subseteq 0..MaxSector
  /\ WordBytes \in Nat \ {0} /\ SectorBytes \in Nat \ {0}
  /\ SectorBytes % WordBytes = 0 /\ MaxSector \in Nat
  /\ EraseText \in Seq(Bytes)

Erased == [r \in Regions |-> [i \in 1..SectorBytes |-> Ones]]

(* The bits that stay set.                                                 *)
And(a, b) == IF a = b THEN a
             ELSE IF a = Ones THEN b
             ELSE IF b = Ones THEN a
             ELSE 0

WordOf(i) == (i - 1) \div WordBytes + 1
Words(n) == (n + WordBytes - 1) \div WordBytes

(* Region r after data was programmed over the words in ws.                *)
Programmed(m, r, data, ws) ==
  [m EXCEPT ![r] = [i \in 1..SectorBytes |->
                      IF WordOf(i) \in ws THEN And(m[r][i], data[i]) ELSE m[r][i]]]

(* The word k reads back as it was written.                                *)
Verified(m, r, data, k) ==
  \A i \in 1..SectorBytes : WordOf(i) = k => And(m[r][i], data[i]) = data[i]

(* Mutant of Count: the word that failed is counted.                       *)
CountFailed(n, k) == IF k * WordBytes < n THEN k * WordBytes ELSE n

(* total_byte after the words up to k - 1 were written: it is only set     *)
(* when a word succeeds, so it still is n if the first one fails.          *)
Count(n, k) == IF k = 1 \/ (k - 1) * WordBytes > n THEN n ELSE (k - 1) * WordBytes

(* The loop of flash_sector_write: it ends after the last word, or at word *)
(* k, which HAL_FLASH_Program refuses or which does not read back.  Either *)
(* way the status is 0.  data is the buffer up to the end of the sector:   *)
(* the last word takes what the buffer holds behind the n bytes.           *)
Written(m, r, data, n) ==
  {[status |-> 0, n |-> Count(n, k),
    mem |-> Programmed(m, r, data, 1..(k - 1))] :
      k \in {j \in 1..(Words(n) + 1) : \A i \in 1..(j - 1) : Verified(m, r, data, i)}}
  \cup
  {[status |-> 0, n |-> Count(n, k), mem |-> Programmed(m, r, data, 1..k)] :
      k \in {j \in 1..Words(n) : /\ \A i \in 1..(j - 1) : Verified(m, r, data, i)
                                 /\ ~Verified(m, r, data, j)}}

Refused(m, code, n) == {[status |-> code, n |-> n, mem |-> m]}

(* Mutant of SectorWrite: the address is not reduced by a sector.          *)
SectorWriteShifted(m, s, data, n) ==
  IF n > SectorBytes THEN Refused(m, 2, n)
  ELSE IF s > MaxSector THEN Refused(m, 3, n)
  ELSE IF s = 0 /\ n = Len(EraseText)
       THEN IF SubSeq(data, 1, n) = EraseText
            THEN {[status |-> 0, n |-> n,
                   mem |-> [r \in Regions |-> IF r = 0 THEN m[0] ELSE Erased[r]]],
                  [status |-> 1, n |-> n, mem |-> m]}
            ELSE Refused(m, 4, n)
  ELSE Written(m, CHOOSE r \in Regions : r > s \/ \A q \in Regions : q <= s, data, n)

(* flash_sector_write(s, data, n).                                         *)
SectorWrite(m, s, data, n) ==
  IF n > SectorBytes THEN Refused(m, 2, n)
  ELSE IF s > MaxSector THEN Refused(m, 3, n)
  ELSE IF s = 0 /\ n = Len(EraseText)
       THEN IF SubSeq(data, 1, n) = EraseText
            THEN {[status |-> 0, n |-> n,
                   mem |-> [r \in Regions |-> IF r = 0 THEN m[0] ELSE Erased[r]]],
                  [status |-> 1, n |-> n, mem |-> m]}
            ELSE Refused(m, 4, n)
  ELSE Written(m, s, data, n)

(* flash_sector_read.                                                      *)
Readable(s) == s # 0 /\ s <= MaxSector
=============================================================================
