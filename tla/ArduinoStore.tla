---------------------------- MODULE ArduinoStore ----------------------------
(***************************************************************************)
(* The commands $RW and $RR of arduino_api.c, from the characters a sketch *)
(* sends over UART5 to the flash: the search for a command, the waits for  *)
(* the rest of it, the decoding of the escapes $" $$ and $xHH, and the     *)
(* write or read of the storage.  $TW decodes its data by the same loop.   *)
(*                                                                         *)
(* Time is the number of characters that arrive: a wait is over when as    *)
(* many have come as it takes at the slowest rate (need), or all.  A       *)
(* sketch that pauses makes it end before that; late remembers it.         *)
(***************************************************************************)
EXTENDS FlashStore, SequencesExt

CONSTANTS
  Asked,         \* the sector numbers the sketch uses
  Messages,      \* the data it writes
  PutWait,       \* characters that arrive in TRANSMISSION_TIME(30)
  GetWait,       \* ... and in TRANSMISSION_TIME(3)
  Burst,         \* ... and in the 100 ms of arduino_check_buffer
  BufSize,       \* ARDUINO_BUFFER_SIZE
  CountMod,      \* 2^16: received_byte is a uint16_t
  NumberMod,     \* 2^8: the sector of $RW is a uint8_t
  Pauses,        \* the commands (first, second...) in which the sketch may pause
  MaxCmd         \* bound of the model: commands sent

ASSUME StoreAssumption ==
  /\ Asked \subseteq 0..999 /\ Messages \subseteq Seq(Bytes)
  /\ {PutWait, GetWait, Burst, BufSize, MaxCmd} \subseteq Nat
  /\ CountMod \in Nat \ {0} /\ NumberMod \in Nat \ {0}
  /\ Pauses \subseteq Nat
  /\ \A n \in Asked : n % NumberMod <= MaxSector => n % NumberMod \in Regions

(* The buffer takes a sector.  $RW waits for more than its name, a number  *)
(* of three digits and the quote, and each wait in its data for more than  *)
(* the longest escape.                                                     *)
ASSUME SizeAssumption == SectorBytes <= BufSize /\ PutWait >= 7 /\ Burst >= 5

(* Characters.  The bytes 1 and 2 are the two that need an escape, 0 is    *)
(* sent in hexadecimal, 3 as it is.                                        *)
Nul == 0
Quote == 1
Dollar == 2
X == 4
Hex(v) == 5 + v
Space == 9
Newline == 10
R == 11
W == 12
Digit(d) == 20 + d

Escaped(v) == CASE v = Quote -> <<Dollar, Quote>>
                [] v = Dollar -> <<Dollar, Dollar>>
                [] v = Nul -> <<Dollar, X, Hex(0), Hex(0)>>
                [] OTHER -> <<v>>

Decimal(n) == IF n < 10 THEN <<Digit(n)>>
              ELSE IF n < 100 THEN <<Digit(n \div 10), Digit(n % 10)>>
              ELSE <<Digit(n \div 100), Digit((n \div 10) % 10), Digit(n % 10)>>

(* What the sketch sends for a command.                                    *)
Text(c) ==
  <<Dollar, R, IF c.put THEN W ELSE R, Space>> \o Decimal(c.sector) \o
  (IF c.put
   THEN <<Space, Quote>> \o FlattenSeq([i \in 1..Len(c.data) |-> Escaped(c.data[i])])
          \o <<Quote>>
   ELSE <<>>) \o <<Newline>>

VARIABLES
  line,          \* what the sketch has still to send
  fifo,          \* what has arrived and was not taken
  need,          \* characters that come before the current wait ends
  late,          \* one of the waits for the current command ended early
  pc,            \* where arduino_api is
  rb,            \* received_byte
  sector,        \* the sector number it has read
  buf,           \* the data it has decoded
  mem,           \* the flash
  cmd,           \* the command the sketch has sent last
  ans,           \* the answer to it, "none" until it comes
  cmds           \* commands sent so far

uart == <<line, fifo, need, late>>
parser == <<pc, rb, sector, buf>>
sketch == <<cmd, cmds>>
vars == <<uart, parser, mem, ans, sketch>>

None == [kind |-> "none", n |-> 0, sector |-> 0]
Ng == [kind |-> "NG", n |-> 0, sector |-> 0]
Ok(n, s) == [kind |-> "OK", n |-> n, sector |-> s]

Init ==
  /\ line = <<>> /\ fifo = <<>> /\ need = 0 /\ late = FALSE
  /\ pc = "idle" /\ rb = 0 /\ sector = 0 /\ buf = <<>>
  /\ mem = Erased
  /\ cmd = [put |-> FALSE, sector |-> 0, data |-> <<>>] /\ ans = Ng /\ cmds = 0

-----------------------------------------------------------------------------
(* The sketch.                                                             *)

Commands == [put : {TRUE}, sector : Asked, data : Messages]
              \cup [put : {FALSE}, sector : Asked, data : {<<>>}]

(* received_byte can count the characters of a command.                    *)
ASSUME TextAssumption == \A c \in Commands : Len(Text(c)) < CountMod

(* It sends a command when the last one is answered.                       *)
Issue(c) ==
  /\ line = <<>> /\ ans # None /\ cmds < MaxCmd
  /\ cmd' = c /\ line' = Text(c) /\ cmds' = cmds + 1
  /\ ans' = None /\ late' = FALSE
  /\ UNCHANGED <<fifo, need, parser, mem>>

(* ... or when no answer comes: what a pause has left of the last command  *)
(* can hide the next one.                                                  *)
GiveUp ==
  /\ line = <<>> /\ ans = None /\ pc = "idle" /\ Len(fifo) < 3
  /\ ans' = Ng
  /\ UNCHANGED <<uart, parser, mem, sketch>>

Arrive ==
  /\ line # <<>>
  /\ line' = Tail(line) /\ fifo' = Append(fifo, Head(line))
  /\ need' = IF need = 0 THEN 0 ELSE need - 1
  /\ UNCHANGED <<late, parser, mem, ans, sketch>>

-----------------------------------------------------------------------------
(* arduino_api, in the arduino thread.                                     *)

(* The k-th character of the next ones; uart5_getchar makes up a 0.        *)
Char(k) == IF k <= Len(fifo) THEN fifo[k] ELSE Nul
After(k) == SubSeq(fifo, k + 1, Len(fifo))

Less(count, k) == (count + CountMod - k) % CountMod

StartWait(label, k) == pc' = label /\ need' = k

(* A wait ends; early only if the sketch pauses.                           *)
Waited == /\ need = 0 \/ line = <<>> \/ cmds \in Pauses
          /\ need' = 0 /\ late' = (late \/ (need > 0 /\ line # <<>>))

(* The answer; the locals of the handler are gone.                         *)
Reply(a) == /\ pc' = "idle" /\ ans' = a
            /\ rb' = 0 /\ sector' = 0 /\ buf' = <<>>

(* Three characters are there: the first is dropped unless it is a '$';    *)
(* then a second '$' makes it read two more.                               *)
Dispatch ==
  /\ pc = "idle" /\ Len(fifo) >= 3
  /\ LET again == Char(1) = Dollar /\ Dollar \in {Char(2), Char(3)}
         name == IF again THEN <<Char(4), Char(5)>> ELSE <<Char(2), Char(3)>>
     IN  /\ fifo' = IF Char(1) # Dollar THEN After(1)
                    ELSE IF again THEN After(5) ELSE After(3)
         /\ CASE Char(1) = Dollar /\ name = <<R, W>> -> StartWait("putWait", PutWait)
              [] Char(1) = Dollar /\ name = <<R, R>> -> StartWait("getWait", GetWait)
              [] OTHER -> UNCHANGED <<pc, need>>
  /\ UNCHANGED <<line, late, rb, sector, buf, mem, ans, sketch>>

(* Mutant of Number: the digits are not put together.                      *)
NumberLast(s) == FoldLeft(LAMBDA n, c : IF c \in Digit(0)..Digit(9)
                                        THEN c - Digit(0) ELSE n, 0, s)

(* The number made of the digits of a piece of text.                       *)
Number(s) == FoldLeft(LAMBDA n, c : IF c \in Digit(0)..Digit(9)
                                    THEN 10 * n + (c - Digit(0)) ELSE n, 0, s)

(* Mutant of PutLeast: more than a short command has before its data end.  *)
PutLeastLong == 10

(* The characters $RW must have received after its wait.                   *)
PutLeast == 5

(* $RW after its wait: at least five characters, then the number of the    *)
(* sector up to the quote that opens the data.                             *)
PutHeader ==
  /\ pc = "putWait" /\ Waited
  /\ UNCHANGED <<line, mem, sketch>>
  /\ IF Len(fifo) < PutLeast
     THEN Reply(Ng) /\ UNCHANGED fifo
     ELSE LET opening == {i \in 1..Len(fifo) : fifo[i] = Quote}
              end == IF opening = {} THEN Len(fifo)
                     ELSE CHOOSE i \in opening : \A j \in opening : i <= j
          IN  /\ sector' = Number(SubSeq(fifo, 1, end)) % NumberMod
              /\ fifo' = After(end) /\ rb' = (Len(fifo) - end) % CountMod
              /\ buf' = <<>> /\ pc' = IF rb' = 0 THEN "write" ELSE "save"
              /\ UNCHANGED ans

HexValue == IF Char(3) \in Hex(0)..Hex(Ones) THEN Char(3) - 5 ELSE Nul

(* Mutant of Taken: a character that is not there is not counted.          *)
TakenSkip ==
  CASE Char(1) = Nul -> [n |-> 1, count |-> 0, data |-> <<>>]
    [] Char(1) \notin {Nul, Dollar} -> [n |-> 1, count |-> 1, data |-> <<Char(1)>>]
    [] Char(1) = Dollar /\ Char(2) = X -> [n |-> 4, count |-> 4, data |-> <<HexValue>>]
    [] Char(1) = Dollar /\ Char(2) \in {Quote, Dollar} ->
         [n |-> 2, count |-> 2, data |-> <<Char(2)>>]
    [] OTHER -> [n |-> 2, count |-> 2, data |-> <<>>]

(* What one turn of the loop takes: characters, what it subtracts from the *)
(* count, and the data.                                                    *)
Taken ==
  CASE Char(1) # Dollar -> [n |-> 1, count |-> 1, data |-> <<Char(1)>>]
    [] Char(1) = Dollar /\ Char(2) = X -> [n |-> 4, count |-> 4, data |-> <<HexValue>>]
    [] Char(1) = Dollar /\ Char(2) \in {Quote, Dollar} ->
         [n |-> 2, count |-> 2, data |-> <<Char(2)>>]
    [] OTHER -> [n |-> 2, count |-> 2, data |-> <<>>]

(* Mutant of Full: the test comes one byte later still.                    *)
FullLate(n) == n > BufSize + 1

(* The buffer is full when one byte more than it was meant for is in.      *)
Full(n) == n > BufSize

(* One turn of the loop: it ends at the quote that closes the data, with a *)
(* full buffer or with the count.                                          *)
TakeByte(count) ==
  /\ IF Char(1) = Quote
     THEN /\ fifo' = After(1) /\ rb' = Less(count, 1)
          /\ pc' = "write" /\ UNCHANGED buf
     ELSE /\ fifo' = After(Taken.n) /\ rb' = Less(count, Taken.count)
          /\ buf' = buf \o Taken.data
          /\ pc' = IF Full(Len(buf')) \/ rb' = 0 THEN "write" ELSE "save"
  /\ UNCHANGED <<line, sector, mem, ans, sketch>>

(* Mutant of MustWait: it only waits for the rest of $" and $$.            *)
MustWaitOne == rb <= 1

(* The head of the loop: an escape is four characters at most.             *)
MustWait == rb <= 4

SaveByte == pc = "save" /\ ~MustWait /\ TakeByte(rb) /\ UNCHANGED <<need, late>>

SaveWait ==
  /\ pc = "save" /\ MustWait /\ StartWait("saveWait", Burst)
  /\ UNCHANGED <<line, fifo, late, rb, sector, buf, mem, ans, sketch>>

(* arduino_check_buffer counts again; its timeout is never reached.        *)
SaveWaited == pc = "saveWait" /\ Waited /\ TakeByte(Len(fifo))

(* A character that is taken for data by mistake stands for a byte too.    *)
Code(c) == IF c \in Bytes THEN c ELSE Nul

(* flash_sector_write and the answer.  Behind the data the buffer holds    *)
(* whatever an earlier command left there.                                 *)
PutWrite ==
  /\ pc = "write"
  /\ \E rest \in Bytes :
       LET data == [i \in 1..Len(buf) |-> Code(buf[i])] \o [i \in 1..SectorBytes |-> rest]
       IN  \E o \in SectorWrite(mem, sector, data, Len(buf)) :
             /\ mem' = o.mem
             /\ Reply(IF o.status = 0 THEN Ok(o.n, sector) ELSE Ng)
  /\ UNCHANGED <<uart, sketch>>

(* $RR after its wait: at least three characters, then it takes five, of   *)
(* which the digits are the sector, and answers with the whole sector.     *)
GetRead ==
  /\ pc = "getWait" /\ Waited
  /\ IF Len(fifo) < 3
     THEN Reply(Ng) /\ UNCHANGED fifo
     ELSE LET s == Number([i \in 1..5 |-> Char(i)])
          IN  /\ fifo' = After(5)
              /\ Reply(IF Readable(s) THEN Ok(SectorBytes, s) ELSE Ng)
  /\ UNCHANGED <<line, mem, sketch>>

-----------------------------------------------------------------------------
Api == Dispatch \/ PutHeader \/ SaveByte \/ SaveWait \/ SaveWaited
         \/ PutWrite \/ GetRead

Next == (\E c \in Commands : Issue(c)) \/ GiveUp \/ Arrive \/ Api

Spec == Init /\ [][Next]_vars

(* What is on the line arrives and the arduino thread goes on.             *)
FairSpec == Spec /\ WF_vars(Arrive) /\ WF_vars(Api)

-----------------------------------------------------------------------------
(* Properties.                                                             *)

(* Types of the variables.                                                 *)
TypeOK ==
  /\ line \in Seq(Nat) /\ fifo \in Seq(Nat) /\ need \in Nat /\ late \in BOOLEAN
  /\ pc \in {"idle", "putWait", "getWait", "save", "saveWait", "write"}
  /\ rb \in 0..(CountMod - 1) /\ sector \in 0..(NumberMod - 1)
  /\ buf \in Seq(Nat) /\ Len(buf) <= BufSize + 1
  /\ mem \in [Regions -> [1..SectorBytes -> Bytes]]
  /\ cmd \in Commands \cup {[put |-> FALSE, sector |-> 0, data |-> <<>>]}
  /\ ans.kind \in {"none", "OK", "NG"} /\ cmds \in 0..MaxCmd

(* If the sketch does not pause, the data it meant reaches                 *)
(* flash_sector_write, whatever escapes it needs and wherever the chunks   *)
(* of characters end between two waits; or as much of it as the buffer     *)
(* takes.                                                                  *)
DecodedRight ==
  pc = "write" /\ ~late =>
    \/ buf = cmd.data
    \/ Full(Len(buf)) /\ buf = SubSeq(cmd.data, 1, Len(buf))

(* Data that goes on behind the end of the buffer needs no escape there.   *)
Plain == \A d \in Messages : \A i \in (BufSize + 2)..Len(d) : d[i] = 3

(* ... and once a command is answered nothing that is left of it can be    *)
(* taken for the beginning of another, if the messages are Plain.          *)
NoStray ==
  ans # None /\ ~late => \A i \in 1..Len(fifo \o line) : (fifo \o line)[i] # Dollar

(* An answer "OK n" to $RW tells how much was stored: the first n bytes of *)
(* the sector are those of the sketch.  But when already the first word    *)
(* fails, the answer is the full length.                                   *)
StoredReadsBack ==
  [][LET data == cmd.data
         s == ans'.sector
     IN  (ans = None /\ ans'.kind = "OK" /\ cmd.put /\ s # 0 /\ ~late) =>
           \/ \A i \in 1..ans'.n : mem'[s][i] = data[i]
           \/ /\ ans'.n = Len(data)
              /\ \A i \in 1..SectorBytes : WordOf(i) > 1 => mem'[s][i] = mem[s][i]]_vars

(* $RW changes the sector it was asked for and no other place in flash:    *)
(* except that a number above 255 is cut to eight bits, and that sector 0  *)
(* is the erase command, or lies below the storage if the data is not as   *)
(* long as "ERASE".                                                        *)
WritesItsSector ==
  [][\A r \in Regions : mem'[r] # mem[r] /\ ~late =>
       \/ cmd.sector = r \/ cmd.sector >= NumberMod
       \/ cmd.sector = 0 /\ buf = EraseText]_vars

(* $RR answers with the sector it was asked for, unless the third digit    *)
(* of the number comes too late for its short wait.                        *)
ReadsItsSector ==
  ans.kind = "OK" /\ ~cmd.put /\ ~late =>
    \/ ans.sector = cmd.sector
    \/ cmd.sector >= 100 /\ ans.sector = cmd.sector \div 10

(* Every command ends, also when characters are missing and the count of   *)
(* those received runs below zero.                                         *)
CommandEnds == (pc # "idle") ~> (pc = "idle")
=============================================================================
