------------------------------ MODULE UartRing ------------------------------
(***************************************************************************)
(* Reception on one UART (phs_shield_msp.c): a circular DMA writes every   *)
(* byte of the line into rx_buffer and never stops; uart_read, or the      *)
(* flush, takes bytes out at rx_tail.  The DMA does not know the tail and  *)
(* the reader sees of the DMA only its position, so a full turn looks like *)
(* an empty ring.                                                          *)
(*                                                                         *)
(* Bytes are numbered in the order they arrive; nl says which of them are  *)
(* '\n'.  There is one reading thread.  Its steps are the calls of         *)
(* uart_available and uart_getchar, each of which reads the position once. *)
(* The tick that limits the wait has TickMod values and counts turns of    *)
(* the wait loop.                                                          *)
(***************************************************************************)
EXTENDS Naturals, Sequences, FiniteSets

CONSTANTS
  Size,          \* rxbuff_size
  Requests,      \* the sizes a caller asks for
  Timeouts,      \* the values set as uart->timeout
  TickMod,       \* 2^32 of HAL_GetTick
  MaxBytes       \* bound of the model: bytes that arrive

ASSUME RingAssumption ==
  /\ Size \in Nat /\ Size > 1
  /\ Requests \subseteq Nat \ {0}
  /\ Timeouts \subseteq 0..(TickMod \div 2)
  /\ TickMod \in Nat /\ TickMod > 2 /\ MaxBytes \in Nat

VARIABLES
  head,          \* where the DMA writes next: rxbuff_size less its counter
  mem,           \* rx_buffer
  wr,            \* bytes that have arrived
  nl,            \* those of them that end a line
  tail,          \* rx_tail
  canonical, timeout,
  pc,            \* uart_read: "idle", "wait" in its wait loop, "copy"
  num, size,     \* its num and size
  got,           \* the bytes it has copied
  phantoms,      \* the zeros it has copied where uart_getchar found nothing
  lapped,        \* the DMA has overtaken the tail during this call
  diff, start, now,  \* its diff_time and current_time, and the tick
  result         \* what the last call returned: "none", "count", "timeout"

ring == <<head, mem, wr, nl>>
mode == <<canonical, timeout>>
clock == <<diff, start, now>>
call == <<pc, num, size, got, phantoms, lapped, clock, result>>
vars == <<ring, tail, mode, call>>

Init ==
  /\ head = 0 /\ mem = [p \in 0..(Size - 1) |-> 0] /\ wr = 0 /\ nl = {}
  /\ tail = 0 /\ canonical = FALSE /\ timeout = 0
  /\ pc = "idle" /\ num = 0 /\ size = 1 /\ got = <<>> /\ phantoms = 0
  /\ lapped = FALSE /\ diff = 0 /\ start = 0 /\ now = 0 /\ result = "none"

(* Mutant of Step: the pointer is not brought back into the buffer.        *)
StepBeyond(p) == p + 1

(* One place on, round the end of the buffer.                              *)
Step(p) == IF p + 1 = Size THEN 0 ELSE p + 1

(* The place i bytes behind p.                                             *)
At(p, i) == IF p + i < Size THEN p + i ELSE p + i - Size

(* The distance from the tail to the DMA, as uart_available computes it.   *)
Pending == IF head >= tail THEN head - tail ELSE head + Size - tail

Unread == [i \in 1..Pending |-> mem[At(tail, i - 1)]]

(* The unread bytes that end a line, by their distance from the tail.      *)
Lines == {i \in 1..Pending : Unread[i] \in nl}

(* Mutant of Available: in canonical mode everything up to the last line.  *)
AvailableAll ==
  IF ~canonical THEN Pending
  ELSE IF Lines = {} THEN 0
  ELSE CHOOSE i \in Lines : \A j \in Lines : i >= j

(* uart_available: in canonical mode the length of the first whole line.   *)
Available ==
  IF ~canonical THEN Pending
  ELSE IF Lines = {} THEN 0
  ELSE CHOOSE i \in Lines : \A j \in Lines : i <= j

-----------------------------------------------------------------------------
(* The DMA stores one byte.                                                *)
Arrive(ends) ==
  /\ wr < MaxBytes
  /\ mem' = [mem EXCEPT ![head] = wr + 1]
  /\ head' = Step(head)
  /\ wr' = wr + 1
  /\ nl' = IF ends THEN nl \cup {wr + 1} ELSE nl
  /\ lapped' = (lapped \/ (pc # "idle" /\ head' = tail))
  /\ UNCHANGED <<tail, mode, pc, num, size, got, phantoms, clock, result>>

(* serial_mode_canonical, serial_mode_noncanonical and serial_set_timeout. *)
SetMode(c, t) ==
  /\ pc = "idle"
  /\ canonical' = c /\ timeout' = t
  /\ UNCHANGED <<ring, tail, call>>

(* uart_flush: every byte there is, whatever the mode.                     *)
Flush ==
  /\ pc = "idle"
  /\ tail' = head
  /\ UNCHANGED <<ring, mode, call>>

(* uart_read is called: it copies at once, waits, or returns 0.            *)
ReadCall(n) ==
  /\ pc = "idle"
  /\ size' = n /\ num' = Available /\ got' = <<>> /\ phantoms' = 0 /\ lapped' = FALSE
  /\ pc' = IF Available = 0 /\ timeout > 0 THEN "wait" ELSE "copy"
  /\ start' \in (IF pc' = "wait" THEN 0..(TickMod - 1) ELSE {0})
  /\ now' = start' /\ diff' = 0
  /\ result' = "none"
  /\ UNCHANGED <<ring, tail, mode>>

(* Mutant of Elapsed: nothing has elapsed while the tick is behind.        *)
ElapsedStuck == IF now >= start THEN now - start ELSE 0

(* diff_time as the loop computes it, in the arithmetic of the tick.       *)
Elapsed == IF now >= start THEN now - start
           ELSE (now + (TickMod \div 2 - 1) + TickMod - start) % TickMod

(* One turn of the wait loop, which sleeps for 10 ms before it looks.      *)
WaitTurn ==
  /\ pc = "wait" /\ diff < timeout
  /\ diff' = Elapsed
  /\ now' = (now + 1) % TickMod
  /\ num' = Available
  /\ pc' = IF Available > 0 THEN "copy" ELSE "wait"
  /\ UNCHANGED <<ring, tail, mode, size, got, phantoms, lapped, start, result>>

(* Mutant of TimesOut: one empty look is enough.                           *)
TimesOutAtOnce ==
  /\ pc = "wait"
  /\ pc' = "idle" /\ result' = "timeout"
  /\ UNCHANGED <<ring, tail, mode, num, size, got, phantoms, lapped, clock>>

TimesOut ==
  /\ pc = "wait" /\ diff >= timeout
  /\ pc' = "idle" /\ result' = "timeout"
  /\ UNCHANGED <<ring, tail, mode, num, size, got, phantoms, lapped, clock>>

Copied == Len(got) + phantoms

(* Mutant of CopyByte: the end of the buffer is noticed one byte late.     *)
CopyByteNoWrap ==
  /\ pc = "copy" /\ num > 0 /\ Copied < size
  /\ num' = num - 1
  /\ IF head # tail
     THEN /\ got' = Append(got, mem[tail])
          /\ tail' = IF tail = Size - 1 THEN tail ELSE Step(tail)
          /\ UNCHANGED phantoms
     ELSE /\ phantoms' = phantoms + 1
          /\ UNCHANGED <<got, tail>>
  /\ UNCHANGED <<ring, mode, pc, size, lapped, clock, result>>

(* Mutant of CopyByte: the size alone ends the copying.                    *)
CopyByteToSize ==
  /\ pc = "copy" /\ num > 0 /\ Copied < size
  /\ IF head # tail
     THEN /\ got' = Append(got, mem[tail])
          /\ tail' = Step(tail)
          /\ UNCHANGED phantoms
     ELSE /\ phantoms' = phantoms + 1
          /\ UNCHANGED <<got, tail>>
  /\ UNCHANGED <<ring, mode, pc, num, size, lapped, clock, result>>

(* uart_getchar: the byte at the tail, or 0 if there is none.              *)
CopyByte ==
  /\ pc = "copy" /\ num > 0 /\ Copied < size
  /\ num' = num - 1
  /\ IF head # tail
     THEN /\ got' = Append(got, mem[tail])
          /\ tail' = Step(tail)
          /\ UNCHANGED phantoms
     ELSE /\ phantoms' = phantoms + 1
          /\ UNCHANGED <<got, tail>>
  /\ UNCHANGED <<ring, mode, pc, size, lapped, clock, result>>

ReadReturn ==
  /\ pc = "copy" /\ (num = 0 \/ Copied = size)
  /\ pc' = "idle" /\ result' = "count"
  /\ UNCHANGED <<ring, tail, mode, num, size, got, phantoms, lapped, clock>>

-----------------------------------------------------------------------------
Reader == WaitTurn \/ TimesOut \/ CopyByte \/ ReadReturn

Next == \/ \E ends \in BOOLEAN : Arrive(ends)
        \/ \E c \in BOOLEAN, t \in Timeouts : SetMode(c, t)
        \/ Flush
        \/ \E n \in Requests : ReadCall(n)
        \/ Reader

Spec == Init /\ [][Next]_vars

(* The reading thread gets its time slices; the line owes nothing.         *)
FairSpec == Spec /\ WF_vars(Reader)

-----------------------------------------------------------------------------
(* Properties.                                                             *)

(* Types of the variables: the indices stay inside rx_buffer, and a call   *)
(* copies no more than it was asked for.                                   *)
TypeOK ==
  /\ head \in 0..(Size - 1) /\ tail \in 0..(Size - 1)
  /\ wr \in Nat /\ nl \subseteq 1..wr
  /\ mem \in [0..(Size - 1) -> 0..wr]
  /\ canonical \in BOOLEAN /\ timeout \in Nat
  /\ pc \in {"idle", "wait", "copy"}
  /\ num \in Nat /\ size \in Nat \ {0}
  /\ got \in Seq(1..wr) /\ phantoms \in Nat /\ Copied <= size
  /\ lapped \in BOOLEAN
  /\ diff \in Nat /\ start \in 0..(TickMod - 1) /\ now \in 0..(TickMod - 1)
  /\ result \in {"none", "count", "timeout"}

(* The ring implements LossyStream: in order, no byte twice, and a hole    *)
(* only when Size - 1 bytes were left unread and one more arrived.         *)
Stream == INSTANCE LossyStream
            WITH Capacity <- Size - 1, accepted <- wr, unread <- Unread,
                 out <- IF got = <<>> THEN <<>> ELSE <<got[Len(got)]>>

StreamSpec == Stream!Spec

(* uart_read copies as many bytes as it counted before: it makes up a zero *)
(* only if the ring was lapped while it ran.                               *)
PhantomOnlyWhenLapped == phantoms > 0 => lapped

(* In canonical mode a call returns no bytes of two lines, and without a   *)
(* limit or a lap it ends with the '\n' of the line it began.              *)
OneLine ==
  canonical /\ pc = "copy" /\ ~lapped =>
    /\ \A i \in 1..Len(got) : got[i] \in nl => i = Len(got)
    /\ num = 0 /\ got # <<>> => got[Len(got)] \in nl

(* A call that reports a timeout has waited for it, unless the tick ran    *)
(* over during the wait: then it gives up at the next turn.                *)
TimeoutHonoured ==
  [][result' = "timeout" /\ result # "timeout" =>
       now - start >= timeout \/ now < start]_vars

(* Every call returns, also across the end of the tick and on a line that  *)
(* stays silent.                                                           *)
ReadReturns == (pc # "idle") ~> (pc = "idle")
=============================================================================
