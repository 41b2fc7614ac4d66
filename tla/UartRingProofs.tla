--------------------------- MODULE UartRingProofs ---------------------------
(***************************************************************************)
(* Proofs about the receive ring, for every size of it: what the unread    *)
(* part holds, that zeros are only made up after a lap, that a canonical   *)
(* read returns bytes of one line, and that the ring implements            *)
(* LossyStream.                                                            *)
(***************************************************************************)
EXTENDS UartRing, TLAPS, WellFoundedInduction

(* The number of the last byte that is not unread.                         *)
Base == wr - Pending

(* The unread part of rx_buffer holds the bytes that arrived last.         *)
RingInv ==
  /\ Pending <= wr
  /\ \A i \in 1..Pending : mem[At(tail, i - 1)] = Base + i

(* What uart_read has counted is still there unless it was lapped.         *)
CountInv ==
  /\ pc = "copy" /\ ~lapped => num <= Pending
  /\ PhantomOnlyWhenLapped

(* In canonical mode the count ends at the first '\n'.                     *)
LineInv ==
  canonical /\ pc = "copy" /\ ~lapped =>
    /\ num > 0 => /\ Base + num \in nl
                  /\ \A k \in nl : ~(Base < k /\ k < Base + num)
                  /\ \A i \in 1..Len(got) : got[i] \notin nl
    /\ num = 0 /\ got # <<>> =>
         /\ got[Len(got)] \in nl
         /\ \A i \in 1..Len(got) : got[i] \in nl => i = Len(got)

(* Nothing is copied before the wait is over.                              *)
WaitEmpty == pc = "wait" => got = <<>>

(* The inductive invariant.                                                *)
IInv == TypeOK /\ RingInv /\ CountInv /\ LineInv /\ WaitEmpty

Place == 0..(Size - 1)

-----------------------------------------------------------------------------
(* The geometry of the ring.                                               *)

LEMMA Geometry ==
  ASSUME head \in Place, tail \in Place
  PROVE  /\ Pending \in Place
         /\ Pending = 0 <=> head = tail
         /\ Step(head) \in Place /\ Step(tail) \in Place
         /\ Step(head) = tail <=> Pending = Size - 1
         /\ \A i \in 0..(Size - 1) : At(tail, i) \in Place
         /\ \A i \in 0..(Size - 1) : i < Pending => At(tail, i) # head
         /\ At(tail, Pending) = head
  BY RingAssumption DEF Place, Pending, Step, At

(* One more byte: one more is unread, or none.                             *)
LEMMA ArriveMoves ==
  ASSUME head \in Place, tail \in Place, head' = Step(head), tail' = tail
  PROVE  Pending' = IF Pending = Size - 1 THEN 0 ELSE Pending + 1
  BY RingAssumption DEF Place, Pending, Step

(* One byte is taken: the rest moves up by one.                            *)
LEMMA TakeMoves ==
  ASSUME head \in Place, tail \in Place, head # tail, head' = head, tail' = Step(tail)
  PROVE  /\ Pending' = Pending - 1
         /\ \A i \in 0..(Size - 2) : At(tail', i) = At(tail, i + 1)
  BY RingAssumption DEF Place, Pending, Step, At

LEMMA FlushMoves ==
  ASSUME head \in Place, head' = head, tail' = head
  PROVE  Pending' = 0
  BY RingAssumption DEF Place, Pending

LEMMA StillMoves ==
  ASSUME UNCHANGED <<head, tail>>
  PROVE  Pending' = Pending
  BY DEF Pending

(* The unread bytes by their numbers.                                      *)
LEMMA UnreadIs ==
  ASSUME TypeOK, RingInv
  PROVE  /\ Unread = [i \in 1..Pending |-> Base + i]
         /\ Pending \in Nat /\ Base \in Nat /\ Len(Unread) = Pending
<1>1. Pending \in Place
  BY Geometry DEF TypeOK, Place
<1>2. Pending \in Nat
  BY <1>1, RingAssumption DEF Place
<1>3. \A i \in 1..Pending : mem[At(tail, i - 1)] = Base + i
  BY DEF RingInv
<1>4. Unread = [i \in 1..Pending |-> Base + i]
  BY <1>3 DEF Unread
<1>5. Base \in Nat
  BY <1>2 DEF TypeOK, RingInv, Base
<1> QED
  BY <1>2, <1>4, <1>5

(* A set of naturals that is not empty has a least element.                *)
LEMMA Least ==
  ASSUME NEW S \in SUBSET Nat, S # {}
  PROVE  \E i \in S : \A j \in S : i <= j
<1>1. PICK i \in S : \A j \in S : ~(<<j, i>> \in OpToRel(<, Nat))
  BY NatLessThanWellFounded, WFMin
<1>2. \A j \in S : ~(j < i)
  BY <1>1 DEF OpToRel
<1> QED
  BY <1>2

(* uart_available counts no more than there is, and in canonical mode up   *)
(* to the first '\n'.                                                      *)
LEMMA AvailableIs ==
  ASSUME TypeOK, RingInv
  PROVE  /\ Available \in 0..Pending
         /\ canonical /\ Available > 0 =>
              /\ Base + Available \in nl
              /\ \A k \in nl : ~(Base < k /\ k < Base + Available)
<1>1. /\ Unread = [i \in 1..Pending |-> Base + i]
      /\ Pending \in Nat /\ Base \in Nat
  BY UnreadIs
<1>2. CASE ~canonical
  BY <1>1, <1>2 DEF Available
<1>3. CASE canonical /\ Lines = {}
  BY <1>1, <1>3 DEF Available
<1>4. CASE canonical /\ Lines # {}
  <2> DEFINE first(i) == i \in Lines /\ \A j \in Lines : i <= j
  <2>1. Lines = {i \in 1..Pending : Base + i \in nl}
    BY <1>1 DEF Lines
  <2>2. Lines \in SUBSET Nat
    BY <2>1, <1>1
  <2>3. \E i \in Lines : \A j \in Lines : i <= j
    BY <2>2, <1>4, Least
  <2>4. Available = CHOOSE i \in Lines : \A j \in Lines : i <= j
    BY <1>4 DEF Available
  <2>5. Available \in Lines /\ \A j \in Lines : Available <= j
    BY <2>3, <2>4
  <2>6. Available \in 1..Pending /\ Base + Available \in nl
    BY <2>5, <2>1
  <2>7. ASSUME NEW k \in nl, Base < k, k < Base + Available
        PROVE  FALSE
    <3>1. k \in Nat
      BY DEF TypeOK
    <3>2. (k - Base) \in 1..Pending /\ Base + (k - Base) = k
      BY <3>1, <2>7, <2>6, <1>1
    <3>3. (k - Base) \in Lines
      BY <3>2, <2>7, <2>1
    <3> QED
      BY <3>3, <2>5, <2>6, <2>7, <3>1, <1>1
  <2> QED
    BY <2>6, <2>7, <1>1
<1> QED
  BY <1>2, <1>3, <1>4

(* The byte at the tail is the oldest unread one.                          *)
LEMMA Oldest ==
  ASSUME TypeOK, RingInv, head # tail
  PROVE  mem[tail] = Base + 1 /\ Base + 1 \in 1..wr /\ Pending \in Nat \ {0}
<1>1. Pending \in Place /\ Pending # 0
  BY Geometry DEF TypeOK, Place
<1>2. Pending \in Nat \ {0} /\ 1 \in 1..Pending
  BY <1>1, RingAssumption DEF Place
<1>3. mem[At(tail, 1 - 1)] = Base + 1
  BY <1>2 DEF RingInv
<1>4. At(tail, 1 - 1) = tail
  BY RingAssumption DEF TypeOK, At
<1> QED
  BY <1>2, <1>3, <1>4 DEF RingInv, TypeOK, Base

-----------------------------------------------------------------------------
(* The initial states.                                                     *)
LEMMA InitIInv == Init => IInv
<1> SUFFICES ASSUME Init PROVE IInv
  OBVIOUS
<1>1. Pending = 0
  BY DEF Init, Pending
<1>2. TypeOK
  <2>1. mem \in [0..(Size - 1) -> 0..wr]
    BY DEF Init
  <2>2. got \in Seq(1..wr) /\ Copied = 0
    BY DEF Init, Copied
  <2>4. /\ head \in 0..(Size - 1) /\ tail \in 0..(Size - 1) /\ wr \in Nat /\ nl \subseteq 1..wr
        /\ timeout \in Nat /\ pc \in {"idle", "wait", "copy"}
    BY RingAssumption DEF Init
  <2>6. canonical \in BOOLEAN /\ lapped \in BOOLEAN
    BY DEF Init
  <2>5. /\ num \in Nat /\ size \in Nat \ {0} /\ phantoms \in Nat /\ Copied <= size
        /\ diff \in Nat /\ start \in 0..(TickMod - 1)
        /\ now \in 0..(TickMod - 1) /\ result \in {"none", "count", "timeout"}
    BY <2>2, RingAssumption DEF Init
  <2> QED
    BY <2>1, <2>2, <2>4, <2>5, <2>6 DEF TypeOK
<1>3. RingInv
  BY <1>1 DEF Init, RingInv
<1>4. CountInv /\ LineInv /\ WaitEmpty
  BY DEF Init, CountInv, LineInv, PhantomOnlyWhenLapped, WaitEmpty
<1> QED
  BY <1>2, <1>3, <1>4 DEF IInv

(* A byte arrives.                                                         *)
LEMMA ArriveIInv ==
  ASSUME IInv, NEW ends \in BOOLEAN, Arrive(ends)
  PROVE  IInv'
<1> USE DEF IInv
<1>1. /\ head \in Place /\ tail \in Place /\ wr \in Nat /\ nl \subseteq 1..wr
      /\ mem \in [Place -> 0..wr] /\ got \in Seq(1..wr)
  BY DEF TypeOK, Place
<1>2. /\ mem' = [mem EXCEPT ![head] = wr + 1] /\ head' = Step(head) /\ wr' = wr + 1
      /\ nl' = IF ends THEN nl \cup {wr + 1} ELSE nl
      /\ lapped' = (lapped \/ (pc # "idle" /\ head' = tail))
      /\ UNCHANGED <<tail, canonical, timeout, pc, num, size, got, phantoms, diff,
                     start, now, result>>
  BY DEF Arrive, mode, clock
<1>3. /\ Pending \in Place
      /\ Step(head) \in Place
      /\ Step(head) = tail <=> Pending = Size - 1
      /\ \A i \in 0..(Size - 1) : At(tail, i) \in Place
      /\ \A i \in 0..(Size - 1) : i < Pending => At(tail, i) # head
      /\ At(tail, Pending) = head
  BY <1>1, Geometry
<1>4. Pending' = IF Pending = Size - 1 THEN 0 ELSE Pending + 1
  BY <1>1, <1>2, ArriveMoves
<1>5. Size \in Nat /\ Size > 1 /\ Pending \in Nat
  BY <1>3, RingAssumption DEF Place
<1>6. TypeOK'
  <2>1. mem' \in [Place -> 0..wr']
    BY <1>1, <1>2
  <2>2. nl' \subseteq 1..wr' /\ wr' \in Nat
    BY <1>1, <1>2
  <2>3. got' \in Seq(1..wr')
    BY <1>1, <1>2
  <2>4. lapped' \in BOOLEAN
    BY <1>2 DEF TypeOK
  <2> QED
    BY <2>1, <2>2, <2>3, <2>4, <1>2, <1>3 DEF TypeOK, Place, Copied
<1>7. RingInv'
  <2>1. CASE Pending = Size - 1
    BY <2>1, <1>1, <1>2, <1>4 DEF RingInv
  <2>2. CASE Pending # Size - 1
    <3>1. Pending' = Pending + 1 /\ Base' = Base
      BY <2>2, <1>1, <1>2, <1>4, <1>5 DEF Base
    <3>2. Pending' <= wr'
      BY <3>1, <1>1, <1>2, <1>5 DEF RingInv
    <3>3. ASSUME NEW i \in 1..Pending'
          PROVE  mem'[At(tail', i - 1)] = Base' + i
      <4>1. At(tail', i - 1) = At(tail, i - 1) /\ At(tail, i - 1) \in Place
        BY <1>2, <1>3, <1>5, <3>1, <2>2 DEF At, Place
      <4>2. CASE i = Pending + 1
        <5>1. At(tail, i - 1) = head
          BY <4>2, <1>3, <1>5
        <5>2. mem'[head] = wr + 1
          BY <1>1, <1>2
        <5> QED
          BY <5>1, <5>2, <4>1, <4>2, <3>1, <1>1, <1>5 DEF Base
      <4>3. CASE i \in 1..Pending
        <5>1. At(tail, i - 1) # head
          BY <4>3, <1>3, <1>5 DEF Place
        <5>2. mem'[At(tail, i - 1)] = mem[At(tail, i - 1)]
          BY <5>1, <4>1, <1>1, <1>2
        <5> QED
          BY <5>2, <4>1, <4>3, <3>1 DEF RingInv
      <4> QED
        BY <4>2, <4>3, <3>1, <1>5
    <3> QED
      BY <3>2, <3>3 DEF RingInv
  <2> QED
    BY <2>1, <2>2
<1>8. CountInv'
  <2>1. ASSUME pc' = "copy", ~lapped'
        PROVE  num' <= Pending'
    <3>1. Pending' = Pending + 1 /\ num <= Pending
      BY <2>1, <1>2, <1>3, <1>4 DEF CountInv
    <3> QED
      BY <3>1, <1>2, <1>5 DEF TypeOK
  <2> QED
    BY <2>1, <1>2 DEF CountInv, PhantomOnlyWhenLapped, TypeOK
<1>9. LineInv'
  <2> SUFFICES ASSUME canonical', pc' = "copy", ~lapped'
               PROVE  LineInv'
    BY DEF LineInv
  <2>1. canonical /\ pc = "copy" /\ ~lapped
    BY <1>2
  <2>2. Pending' = Pending + 1 /\ num <= Pending
    BY <2>1, <1>2, <1>3, <1>4 DEF CountInv
  <2>3. Base' = Base /\ Base \in Int
    BY <2>2, <1>1, <1>2, <1>5 DEF Base
  <2>4. num \in Nat /\ Base + num <= wr
    BY <2>2, <1>1, <1>5 DEF TypeOK, Base
  <2>5. \A k \in nl' : k <= wr => k \in nl
    BY <1>1, <1>2
  <2>6. nl \subseteq nl'
    BY <1>2
  <2>7. \A i \in 1..Len(got) : got[i] \in nl' => got[i] \in nl
    BY <2>5, <1>1
  <2>8. ASSUME num > 0
        PROVE  /\ Base + num \in nl'
               /\ \A k \in nl' : ~(Base < k /\ k < Base + num)
               /\ \A i \in 1..Len(got) : got[i] \notin nl'
    <3>1. /\ Base + num \in nl
          /\ \A k \in nl : ~(Base < k /\ k < Base + num)
          /\ \A i \in 1..Len(got) : got[i] \notin nl
      BY <2>1, <2>8 DEF LineInv
    <3>2. ASSUME NEW k \in nl', Base < k, k < Base + num
          PROVE  FALSE
      <4>1. k \in Nat
        BY <1>1, <1>2
      <4>2. k <= wr
        BY <4>1, <3>2, <2>3, <2>4, <1>1
      <4> QED
        BY <4>2, <3>1, <3>2, <2>5
    <3> QED
      BY <3>1, <3>2, <2>6, <2>7
  <2>9. ASSUME num = 0, got # <<>>
        PROVE  /\ got[Len(got)] \in nl'
               /\ \A i \in 1..Len(got) : got[i] \in nl' => i = Len(got)
    BY <2>1, <2>6, <2>7, <2>9 DEF LineInv
  <2> QED
    BY <2>3, <2>8, <2>9, <1>2 DEF LineInv
<1>10. WaitEmpty'
  BY <1>2 DEF WaitEmpty
<1> QED
  BY <1>6, <1>7, <1>8, <1>9, <1>10

(* The steps that leave the ring alone.                                    *)
LEMMA StillRing ==
  ASSUME IInv, UNCHANGED <<ring, tail>>
  PROVE  RingInv' /\ Pending' = Pending /\ Base' = Base
<1>1. UNCHANGED <<head, mem, wr, nl, tail>>
  BY DEF ring
<1>2. Pending' = Pending /\ Base' = Base
  BY <1>1 DEF Pending, Base
<1>3. \A i : At(tail', i) = At(tail, i)
  BY <1>1 DEF At
<1> QED
  BY <1>1, <1>2, <1>3 DEF RingInv, IInv

(* serial_mode_..., serial_set_timeout.                                    *)
LEMMA SetModeIInv ==
  ASSUME IInv, NEW c \in BOOLEAN, NEW t \in Timeouts, SetMode(c, t)
  PROVE  IInv'
<1> USE DEF IInv
<1>1. /\ pc = "idle" /\ canonical' = c /\ timeout' = t
      /\ UNCHANGED <<ring, tail, pc, num, size, got, phantoms, lapped, diff, start,
                     now, result>>
  BY DEF SetMode, call, clock
<1>2. RingInv'
  BY <1>1, StillRing
<1>3. TypeOK'
  BY <1>1, RingAssumption DEF TypeOK, ring, Copied
<1>4. CountInv' /\ LineInv' /\ WaitEmpty'
  BY <1>1 DEF CountInv, LineInv, PhantomOnlyWhenLapped, WaitEmpty
<1> QED
  BY <1>2, <1>3, <1>4

(* uart_flush.                                                             *)
LEMMA FlushIInv ==
  ASSUME IInv, Flush
  PROVE  IInv'
<1> USE DEF IInv
<1>1. /\ pc = "idle" /\ tail' = head
      /\ UNCHANGED <<head, mem, wr, nl, canonical, timeout, pc, num, size, got,
                     phantoms, lapped, diff, start, now, result>>
  BY DEF Flush, ring, mode, call, clock
<1>2. Pending' = 0
  BY <1>1, FlushMoves DEF TypeOK, Place
<1>3. RingInv'
  BY <1>1, <1>2 DEF RingInv, TypeOK
<1>4. TypeOK'
  BY <1>1 DEF TypeOK, Copied
<1>5. CountInv' /\ LineInv' /\ WaitEmpty'
  BY <1>1 DEF CountInv, LineInv, PhantomOnlyWhenLapped, WaitEmpty
<1> QED
  BY <1>3, <1>4, <1>5

(* uart_read is called.                                                    *)
LEMMA ReadCallIInv ==
  ASSUME IInv, NEW n \in Requests, ReadCall(n)
  PROVE  IInv'
<1> USE DEF IInv
<1>1. /\ pc = "idle" /\ size' = n /\ num' = Available /\ got' = <<>>
      /\ phantoms' = 0 /\ lapped' = FALSE /\ pc' \in {"wait", "copy"}
      /\ now' = start' /\ diff' = 0 /\ result' = "none"
      /\ UNCHANGED <<ring, tail, canonical, timeout>>
  BY DEF ReadCall, mode
<1>2. RingInv' /\ Pending' = Pending /\ Base' = Base
  BY <1>1, StillRing
<1>3. /\ Available \in 0..Pending
      /\ canonical /\ Available > 0 =>
           /\ Base + Available \in nl
           /\ \A k \in nl : ~(Base < k /\ k < Base + Available)
  BY AvailableIs
<1>4. Pending \in Nat
  BY UnreadIs
<1>5. start' \in 0..(TickMod - 1)
  BY RingAssumption DEF ReadCall
<1>6. TypeOK'
  <2>1. got' \in Seq(1..wr') /\ Copied' = 0
    BY <1>1 DEF Copied
  <2>2. size' \in Nat \ {0}
    BY <1>1, RingAssumption
  <2>3. num' \in Nat
    BY <1>1, <1>3, <1>4
  <2>4. /\ pc' \in {"idle", "wait", "copy"} /\ phantoms' \in Nat /\ Copied' <= size'
        /\ diff' \in Nat /\ now' \in 0..(TickMod - 1)
        /\ result' \in {"none", "count", "timeout"}
    BY <2>1, <2>2, <1>1, <1>5
  <2>6. lapped' \in BOOLEAN
    BY <1>1
  <2>5. /\ UNCHANGED <<head, mem, wr, nl, tail, canonical, timeout>>
    BY <1>1 DEF ring
  <2> QED
    BY <2>1, <2>2, <2>3, <2>4, <2>5, <2>6, <1>5 DEF TypeOK
<1>7. CountInv'
  BY <1>1, <1>2, <1>3, <1>4 DEF CountInv, PhantomOnlyWhenLapped
<1>8. LineInv' /\ WaitEmpty'
  BY <1>1, <1>2, <1>3 DEF LineInv, ring, WaitEmpty
<1> QED
  BY <1>2, <1>6, <1>7, <1>8

(* diff_time stays a natural number.                                       *)
LEMMA ElapsedType ==
  ASSUME now \in 0..(TickMod - 1), start \in 0..(TickMod - 1)
  PROVE  Elapsed \in Nat
<1>1. TickMod \in Nat \ {0} /\ TickMod \div 2 \in Nat /\ TickMod \div 2 >= 1
  BY RingAssumption
<1>2. CASE now >= start
  BY <1>1, <1>2 DEF Elapsed
<1>3. CASE ~(now >= start)
  <2> DEFINE a == now + (TickMod \div 2 - 1) + TickMod - start
  <2>1. a \in Nat
    BY <1>1
  <2> HIDE DEF a
  <2>2. a % TickMod \in Nat
    BY <2>1, <1>1
  <2> QED
    BY <2>2, <1>3 DEF Elapsed, a
<1> QED
  BY <1>2, <1>3

(* A turn of the wait loop.                                                *)
LEMMA WaitTurnIInv ==
  ASSUME IInv, WaitTurn
  PROVE  IInv'
<1> USE DEF IInv
<1>1. /\ pc = "wait" /\ diff' = Elapsed /\ now' = (now + 1) % TickMod
      /\ num' = Available /\ pc' = IF Available > 0 THEN "copy" ELSE "wait"
      /\ UNCHANGED <<ring, tail, canonical, timeout, size, got, phantoms, lapped,
                     start, result>>
  BY DEF WaitTurn, mode
<1>2. RingInv' /\ Pending' = Pending /\ Base' = Base
  BY <1>1, StillRing
<1>3. /\ Available \in 0..Pending
      /\ canonical /\ Available > 0 =>
           /\ Base + Available \in nl
           /\ \A k \in nl : ~(Base < k /\ k < Base + Available)
  BY AvailableIs
<1>4. Pending \in Nat
  BY UnreadIs
<1>5. now' \in 0..(TickMod - 1) /\ diff' \in Nat
  BY <1>1, ElapsedType, RingAssumption DEF TypeOK
<1>6. TypeOK'
  BY <1>1, <1>3, <1>4, <1>5 DEF TypeOK, ring, Copied
<1>7. CountInv'
  BY <1>1, <1>2, <1>3, <1>4 DEF CountInv, PhantomOnlyWhenLapped
<1>8. LineInv' /\ WaitEmpty'
  BY <1>1, <1>2, <1>3 DEF LineInv, ring, WaitEmpty
<1> QED
  BY <1>2, <1>6, <1>7, <1>8

(* uart_read gives up, or returns: only pc and the result change.          *)
LEMMA EndIInv ==
  ASSUME IInv, TimesOut \/ ReadReturn
  PROVE  IInv'
<1> USE DEF IInv
<1>1. /\ pc' = "idle" /\ result' \in {"count", "timeout"}
      /\ UNCHANGED <<ring, tail, canonical, timeout, num, size, got, phantoms, lapped,
                     diff, start, now>>
  BY DEF TimesOut, ReadReturn, mode, clock
<1>2. RingInv'
  BY <1>1, StillRing
<1>3. TypeOK'
  BY <1>1 DEF TypeOK, ring, Copied
<1>4. CountInv' /\ LineInv' /\ WaitEmpty'
  BY <1>1 DEF CountInv, LineInv, PhantomOnlyWhenLapped, WaitEmpty
<1> QED
  BY <1>2, <1>3, <1>4

(* uart_getchar finds a byte.                                              *)
LEMMA CopyIInv ==
  ASSUME IInv, CopyByte, head # tail
  PROVE  IInv'
<1> USE DEF IInv
<1>1. /\ pc = "copy" /\ num > 0 /\ Copied < size /\ num' = num - 1
      /\ got' = Append(got, mem[tail]) /\ tail' = Step(tail)
      /\ UNCHANGED <<head, mem, wr, nl, canonical, timeout, pc, size, phantoms, lapped,
                     diff, start, now, result>>
  BY DEF CopyByte, ring, mode, clock
<1>2. /\ head \in Place /\ tail \in Place /\ wr \in Nat /\ nl \subseteq 1..wr
      /\ got \in Seq(1..wr) /\ num \in Nat
  BY DEF TypeOK, Place
<1>3. mem[tail] = Base + 1 /\ Base + 1 \in 1..wr /\ Pending \in Nat \ {0}
  BY Oldest
<1>4. /\ Pending' = Pending - 1
      /\ \A i \in 0..(Size - 2) : At(tail', i) = At(tail, i + 1)
      /\ Step(tail) \in Place /\ Pending <= Size - 1
  BY <1>1, <1>2, TakeMoves, Geometry DEF Place
<1>5. Base' = Base + 1 /\ Base \in Int
  BY <1>1, <1>2, <1>3, <1>4 DEF Base
<1>6. got' \in Seq(1..wr) /\ Len(got') = Len(got) + 1
  BY <1>1, <1>2, <1>3
<1>7. TypeOK'
  <2>1. Copied' <= size'
    BY <1>1, <1>2, <1>6 DEF TypeOK, Copied
  <2>2. num' \in Nat
    BY <1>1, <1>2
  <2> QED
    BY <2>1, <2>2, <1>1, <1>4, <1>6 DEF TypeOK, Place
<1>8. RingInv'
  <2>1. Pending' <= wr'
    BY <1>1, <1>2, <1>3, <1>4 DEF RingInv
  <2>2. ASSUME NEW i \in 1..Pending'
        PROVE  mem'[At(tail', i - 1)] = Base' + i
    <3>1. /\ (i - 1) \in 0..(Size - 2) /\ (i - 1) + 1 = i
          /\ (i + 1) \in 1..Pending /\ (i + 1) - 1 = i
      BY <1>3, <1>4, RingAssumption
    <3>2. At(tail', i - 1) = At(tail, i)
      BY <3>1, <1>4
    <3>3. mem[At(tail, i)] = Base + (i + 1)
      BY <3>1 DEF RingInv
    <3> QED
      BY <3>2, <3>3, <1>1, <1>5
  <2> QED
    BY <2>1, <2>2 DEF RingInv
<1>9. CountInv' /\ WaitEmpty'
  BY <1>1, <1>2, <1>3, <1>4 DEF CountInv, PhantomOnlyWhenLapped, WaitEmpty
<1>10. LineInv'
  <2> SUFFICES ASSUME canonical', pc' = "copy", ~lapped'
               PROVE  LineInv'
    BY DEF LineInv
  <2>1. /\ Base + num \in nl
        /\ \A k \in nl : ~(Base < k /\ k < Base + num)
        /\ \A i \in 1..Len(got) : got[i] \notin nl
    BY <1>1 DEF LineInv
  <2>2. /\ got'[Len(got')] = Base + 1
        /\ \A i \in 1..Len(got) : got'[i] = got[i]
    BY <1>1, <1>2, <1>3, <1>6
  <2>3. Base' + num' = Base + num
    BY <1>1, <1>2, <1>5
  <2>4. ASSUME num' > 0
        PROVE  /\ Base' + num' \in nl'
               /\ \A k \in nl' : ~(Base' < k /\ k < Base' + num')
               /\ \A i \in 1..Len(got') : got'[i] \notin nl'
    <3>1. Base + 1 \notin nl
      BY <2>1, <2>4, <1>1, <1>2, <1>5
    <3>2. \A k \in nl' : ~(Base' < k /\ k < Base' + num')
      BY <2>1, <2>3, <1>1, <1>2, <1>5
    <3>3. ASSUME NEW i \in 1..Len(got')
          PROVE  got'[i] \notin nl'
      <4>1. i = Len(got') \/ i \in 1..Len(got)
        BY <1>6, <1>2
      <4> QED
        BY <4>1, <3>1, <2>1, <2>2, <1>1
    <3> QED
      BY <3>2, <3>3, <2>1, <2>3, <1>1
  <2>5. ASSUME num' = 0
        PROVE  /\ got'[Len(got')] \in nl'
               /\ \A i \in 1..Len(got') : got'[i] \in nl' => i = Len(got')
    <3>1. num = 1
      BY <2>5, <1>1, <1>2
    <3>2. got'[Len(got')] \in nl'
      BY <3>1, <2>1, <2>2, <1>1
    <3>3. ASSUME NEW i \in 1..Len(got'), got'[i] \in nl'
          PROVE  i = Len(got')
      <4>1. i = Len(got') \/ i \in 1..Len(got)
        BY <1>6, <1>2
      <4> QED
        BY <4>1, <3>3, <2>1, <2>2, <1>1
    <3> QED
      BY <3>2, <3>3
  <2> QED
    BY <2>4, <2>5 DEF LineInv
<1> QED
  BY <1>7, <1>8, <1>9, <1>10

(* ... or makes up a zero, which only a lap makes possible.                *)
LEMMA PhantomIInv ==
  ASSUME IInv, CopyByte, head = tail
  PROVE  IInv'
<1> USE DEF IInv
<1>1. /\ pc = "copy" /\ num > 0 /\ Copied < size /\ num' = num - 1
      /\ phantoms' = phantoms + 1
      /\ UNCHANGED <<ring, tail, canonical, timeout, pc, size, got, lapped, diff,
                     start, now, result>>
  BY DEF CopyByte, mode, clock
<1>2. RingInv'
  BY <1>1, StillRing
<1>3. TypeOK'
  BY <1>1 DEF TypeOK, ring, Copied
<1>4. Pending = 0
  BY Geometry DEF TypeOK, Place
<1>5. lapped
  BY <1>1, <1>4 DEF CountInv, TypeOK
<1>6. CountInv' /\ LineInv' /\ WaitEmpty'
  BY <1>1, <1>5 DEF CountInv, LineInv, PhantomOnlyWhenLapped, WaitEmpty
<1> QED
  BY <1>2, <1>3, <1>6

(* A step that changes nothing.                                            *)
LEMMA StutterIInv ==
  ASSUME IInv, UNCHANGED vars
  PROVE  IInv'
<1> USE DEF IInv
<1>1. UNCHANGED <<ring, tail, canonical, timeout, pc, num, size, got, phantoms, lapped,
                  diff, start, now, result>>
  BY DEF vars, mode, call, clock
<1>2. RingInv' /\ Base' = Base /\ Pending' = Pending
  BY <1>1, StillRing
<1>3. TypeOK' /\ WaitEmpty'
  BY <1>1 DEF TypeOK, ring, Copied, WaitEmpty
<1>4. CountInv' /\ LineInv'
  BY <1>1, <1>2 DEF CountInv, LineInv, PhantomOnlyWhenLapped, ring
<1> QED
  BY <1>2, <1>3, <1>4

LEMMA NextIInv == IInv /\ [Next]_vars => IInv'
<1> SUFFICES ASSUME IInv, [Next]_vars PROVE IInv'
  OBVIOUS
<1>1. CASE \E ends \in BOOLEAN : Arrive(ends)
  BY <1>1, ArriveIInv
<1>2. CASE \E c \in BOOLEAN, t \in Timeouts : SetMode(c, t)
  BY <1>2, SetModeIInv
<1>3. CASE Flush
  BY <1>3, FlushIInv
<1>4. CASE \E n \in Requests : ReadCall(n)
  BY <1>4, ReadCallIInv
<1>5. CASE WaitTurn
  BY <1>5, WaitTurnIInv
<1>6. CASE TimesOut \/ ReadReturn
  BY <1>6, EndIInv
<1>7. CASE CopyByte
  BY <1>7, CopyIInv, PhantomIInv
<1>8. CASE UNCHANGED vars
  BY <1>8, StutterIInv
<1> QED
  BY <1>1, <1>2, <1>3, <1>4, <1>5, <1>6, <1>7, <1>8 DEF Next, Reader

LEMMA Invariance == Spec => []IInv
  BY InitIInv, NextIInv, PTL DEF Spec

-----------------------------------------------------------------------------
(* The indices never leave rx_buffer, whatever its size, and no call       *)
(* copies more than it was asked for (uart_read, uart_getchar).            *)
THEOREM RingTypeCorrect == Spec => []TypeOK
<1>1. IInv => TypeOK
  BY DEF IInv
<1> QED
  BY <1>1, Invariance, PTL

(* uart_read makes up a zero only if the DMA lapped it while it ran: what  *)
(* uart_available counted at the start of the copying is there.            *)
THEOREM PhantomOnlyWhenLappedHolds == Spec => []PhantomOnlyWhenLapped
<1>1. IInv => PhantomOnlyWhenLapped
  BY DEF IInv, CountInv
<1> QED
  BY <1>1, Invariance, PTL

(* In canonical mode a read returns bytes of one line only, and without a  *)
(* limit it ends with the line's '\n'.                                     *)
THEOREM OneLineHolds == Spec => []OneLine
<1>1. IInv => OneLine
  <2> SUFFICES ASSUME IInv, canonical, pc = "copy", ~lapped
               PROVE  /\ \A i \in 1..Len(got) : got[i] \in nl => i = Len(got)
                      /\ num = 0 /\ got # <<>> => got[Len(got)] \in nl
    BY DEF OneLine
  <2>1. LineInv /\ num \in Nat /\ got \in Seq(1..wr)
    BY DEF IInv, TypeOK
  <2>2. CASE num > 0
    BY <2>1, <2>2 DEF LineInv
  <2>3. CASE num = 0 /\ got # <<>>
    BY <2>1, <2>3 DEF LineInv
  <2>4. CASE num = 0 /\ got = <<>>
    BY <2>4
  <2> QED
    BY <2>1, <2>2, <2>3, <2>4
<1> QED
  BY <1>1, Invariance, PTL

-----------------------------------------------------------------------------
(* The refinement of LossyStream.                                          *)

(* The byte handed out last, as the refinement sees it.                    *)
Last == IF got = <<>> THEN <<>> ELSE <<got[Len(got)]>>

LEMMA InitStream == Init => Stream!Init
<1> SUFFICES ASSUME Init PROVE Stream!Init
  OBVIOUS
<1>1. Pending = 0
  BY DEF Init, Pending
<1>2. Unread = <<>>
  BY <1>1 DEF Unread
<1> QED
  BY <1>2 DEF Init, Stream!Init

(* A byte that arrives is appended, or everything unread is lost.          *)
LEMMA ArriveStream ==
  ASSUME IInv, IInv', NEW ends \in BOOLEAN, Arrive(ends)
  PROVE  Stream!Next
<1>1. /\ Unread = [i \in 1..Pending |-> Base + i] /\ Len(Unread) = Pending
      /\ Pending \in Nat /\ Base \in Nat
  BY UnreadIs DEF IInv
<1>2. Unread' = [i \in 1..Pending' |-> Base' + i]
  <2>1. \A i \in 1..Pending' : mem'[At(tail', i - 1)] = Base' + i
    BY DEF IInv, RingInv
  <2> QED
    BY <2>1 DEF Unread
<1>3. /\ head \in Place /\ tail \in Place /\ head' = Step(head) /\ tail' = tail
      /\ wr' = wr + 1 /\ wr \in Nat /\ got' = got
  BY DEF Arrive, IInv, TypeOK, Place
<1>4. Pending' = IF Pending = Size - 1 THEN 0 ELSE Pending + 1
  BY <1>3, ArriveMoves
<1>5. Pending \in Place
  BY <1>3, Geometry
<1>6. CASE Pending = Size - 1
  <2>1. Unread' = <<>>
    BY <1>2, <1>4, <1>6
  <2> QED
    BY <2>1, <1>1, <1>3, <1>6 DEF Stream!Next, Stream!Overrun
<1>7. CASE Pending # Size - 1
  <2>1. Pending' = Pending + 1 /\ Base' = Base /\ Base + Pending = wr
    BY <1>1, <1>3, <1>4, <1>7 DEF Base
  <2>2. Unread' = Append(Unread, wr + 1)
    BY <1>1, <1>2, <2>1, <1>3
  <2>3. Len(Unread) < Size - 1
    BY <1>1, <1>5, <1>7, RingAssumption DEF Place
  <2> QED
    BY <2>2, <2>3, <1>3 DEF Stream!Next, Stream!Accept
<1> QED
  BY <1>6, <1>7

(* uart_getchar hands out the oldest unread byte.                          *)
LEMMA CopyStream ==
  ASSUME IInv, IInv', CopyByte, head # tail
  PROVE  Stream!Next
<1>1. /\ Unread = [i \in 1..Pending |-> Base + i]
      /\ Pending \in Nat /\ Base \in Nat
  BY UnreadIs DEF IInv
<1>2. Unread' = [i \in 1..Pending' |-> Base' + i]
  <2>1. \A i \in 1..Pending' : mem'[At(tail', i - 1)] = Base' + i
    BY DEF IInv, RingInv
  <2> QED
    BY <2>1 DEF Unread
<1>3. mem[tail] = Base + 1 /\ Pending \in Nat \ {0}
  BY Oldest DEF IInv
<1>4. /\ head \in Place /\ tail \in Place /\ got \in Seq(1..wr)
      /\ got' = Append(got, mem[tail])
      /\ tail' = Step(tail) /\ head' = head /\ wr' = wr /\ wr \in Nat
  BY DEF CopyByte, IInv, TypeOK, Place, ring
<1>5. Pending' = Pending - 1 /\ Base' = Base + 1
  BY <1>1, <1>4, TakeMoves DEF Base
<1>6. Unread # <<>> /\ Head(Unread) = Base + 1 /\ Unread' = Tail(Unread)
  <2> DEFINE u == [i \in 1..Pending |-> Base + i]
             v == [i \in 1..(Pending - 1) |-> (Base + 1) + i]
  <2>1. u \in Seq(Nat) /\ Len(u) = Pending /\ u[1] = Base + 1
    BY <1>1, <1>3
  <2>2. v \in Seq(Nat) /\ Len(v) = Pending - 1
    BY <1>1, <1>3
  <2>3. \A i \in 1..(Pending - 1) : v[i] = u[i + 1]
    BY <1>1, <1>3
  <2>4. Unread = u /\ Unread' = v
    BY <1>1, <1>2, <1>5
  <2> HIDE DEF u, v
  <2>5. Tail(u) \in Seq(Nat) /\ Len(Tail(u)) = Pending - 1
        /\ \A i \in 1..(Pending - 1) : Tail(u)[i] = u[i + 1]
    BY <2>1, <1>3
  <2>6. v = Tail(u)
    BY <2>2, <2>3, <2>5
  <2> QED
    BY <2>1, <2>4, <2>6, <1>3
<1>7. Last' = <<Base + 1>>
  BY <1>3, <1>4, SMTT(30) DEF Last
<1> QED
  BY <1>4, <1>6, <1>7 DEF Stream!Next, Stream!Deliver, Last

LEMMA StillStream ==
  ASSUME UNCHANGED <<ring, tail>>
  PROVE  Unread' = Unread /\ wr' = wr
<1>1. UNCHANGED <<head, mem, wr, nl, tail>>
  BY DEF ring
<1>2. Pending' = Pending
  BY <1>1 DEF Pending
<1>3. \A i : At(tail', i) = At(tail, i)
  BY <1>1 DEF At
<1> QED
  BY <1>1, <1>2, <1>3 DEF Unread

LEMMA NextStream == IInv /\ IInv' /\ [Next]_vars => [Stream!Next]_(Stream!vars)
<1> SUFFICES ASSUME IInv, IInv', [Next]_vars
             PROVE  Stream!Next \/ UNCHANGED Stream!vars
  OBVIOUS
<1>1. CASE \E ends \in BOOLEAN : Arrive(ends)
  BY <1>1, ArriveStream
<1>2. CASE Flush
  <2>1. Pending' = 0
    BY <1>2, FlushMoves DEF Flush, IInv, TypeOK, Place, ring
  <2>2. Unread' = <<>>
    BY <2>1 DEF Unread
  <2> QED
    BY <1>2, <2>2 DEF Flush, ring, call, Stream!Next, Stream!Discard
<1>3. CASE \E n \in Requests : ReadCall(n)
  <2>1. Unread' = Unread /\ wr' = wr /\ got' = <<>>
    BY <1>3, StillStream DEF ReadCall
  <2> QED
    BY <2>1 DEF Stream!Next, Stream!Forget
<1>4. CASE CopyByte /\ head # tail
  BY <1>4, CopyStream
<1>5. CASE \/ \E c \in BOOLEAN, t \in Timeouts : SetMode(c, t)
           \/ WaitTurn \/ TimesOut \/ ReadReturn
           \/ CopyByte /\ head = tail
           \/ UNCHANGED vars
  <2>1. UNCHANGED <<ring, tail, got>>
    BY <1>5 DEF SetMode, WaitTurn, TimesOut, ReadReturn, CopyByte, vars, call
  <2> QED
    BY <2>1, StillStream DEF Stream!vars
<1> QED
  BY <1>1, <1>2, <1>3, <1>4, <1>5 DEF Next, Reader

(* The receive ring implements LossyStream, whatever its size: each byte   *)
(* of the line is handed out at most once and in order, and a hole is      *)
(* exactly the Size - 1 unread bytes that one more byte wipes out.         *)
THEOREM RingImplementsStream == Spec => StreamSpec
  BY InitStream, NextStream, Invariance, PTL DEF Spec, StreamSpec, Stream!Spec

-----------------------------------------------------------------------------
(* The timeout.                                                            *)

(* diff_time is the time waited up to the turn before; once the tick has   *)
(* run over, the next turn finds the timeout exceeded.                     *)
WaitInv ==
  pc = "wait" =>
    \/ now = start /\ diff = 0
    \/ now > start /\ diff = now - start - 1
    \/ now = 0 /\ now < start /\ diff = TickMod - 1 - start
    \/ now < start /\ diff >= timeout

TimeInv == WaitInv /\ timeout \in 0..(TickMod \div 2)

LEMMA TurnWaitInv ==
  ASSUME TypeOK, TimeInv, WaitTurn
  PROVE  TimeInv'
<1> DEFINE half == TickMod \div 2
<1>1. /\ TickMod \in Nat /\ TickMod > 2 /\ half \in Nat
      /\ half <= TickMod - 1 /\ timeout' = timeout
      /\ 2 * half <= TickMod
  BY RingAssumption DEF WaitTurn, mode
<1>0. timeout \in 0..half /\ WaitInv /\ timeout' \in 0..half
  BY <1>1 DEF TimeInv
<1>2. /\ now \in 0..(TickMod - 1) /\ start \in 0..(TickMod - 1) /\ start' = start
      /\ diff \in Nat /\ diff < timeout
  BY DEF WaitTurn, TypeOK
<1>3. now' = IF now + 1 = TickMod THEN 0 ELSE now + 1
  <2>1. now' = (now + 1) % TickMod
    BY DEF WaitTurn
  <2>2. CASE now + 1 = TickMod
    <3>1. TickMod % TickMod = 0
      BY <1>1
    <3> QED
      BY <2>1, <2>2, <3>1
  <2>3. CASE now + 1 # TickMod
    <3>1. (now + 1) \in 0..(TickMod - 1)
      BY <1>1, <1>2, <2>3
    <3> HIDE DEF half
    <3>2. (now + 1) % TickMod = now + 1
      BY <1>1, <3>1
    <3> QED
      BY <2>1, <2>3, <3>2
  <2> QED
    BY <2>2, <2>3
<1>4. diff' = Elapsed
  BY DEF WaitTurn
<1>5. ASSUME now >= start PROVE WaitInv'
  <2>1. diff' = now - start
    BY <1>4, <1>5 DEF Elapsed
  <2>2. diff = IF now = start THEN 0 ELSE now - start - 1
    BY <1>0, <1>2, <1>5 DEF WaitInv, WaitTurn
  <2> HIDE DEF half
  <2>3. CASE now + 1 = TickMod
    <3>1. start > 0
      BY <2>2, <2>3, <1>0, <1>1, <1>2
    <3> QED
      BY <3>1, <2>1, <2>3, <1>1, <1>2, <1>3 DEF WaitInv
  <2>4. CASE now + 1 # TickMod
    BY <2>1, <2>4, <1>1, <1>2, <1>3, <1>5 DEF WaitInv
  <2> QED
    BY <2>3, <2>4
<1>6. ASSUME now < start PROVE WaitInv'
  <2>1. now = 0 /\ diff = TickMod - 1 - start
    BY <1>0, <1>2, <1>6 DEF WaitInv, WaitTurn
  <2> DEFINE x == now + (half - 1) + TickMod - start
  <2>3. x \in 0..(TickMod - 1) /\ x >= half
    <3> HIDE DEF half
    <3> QED
      BY <2>1, <1>0, <1>1, <1>2
  <2>4. diff' = x % TickMod
    BY <1>4, <1>6, <1>2 DEF Elapsed
  <2> HIDE DEF x, half
  <2>5. x % TickMod = x
    BY <2>3, <1>1
  <2>6. diff' >= timeout' /\ now' = 1 /\ start > 1
    BY <2>1, <2>3, <2>4, <2>5, <1>0, <1>1, <1>2, <1>3
  <2> QED
    BY <2>6, <1>1, <1>2, <1>6 DEF WaitInv
<1>7. WaitInv'
  BY <1>2, <1>5, <1>6
<1> QED
  BY <1>0, <1>7 DEF TimeInv

LEMMA NextTimeInv == TypeOK /\ TimeInv /\ [Next]_vars => TimeInv'
<1> SUFFICES ASSUME TypeOK, TimeInv, [Next]_vars PROVE TimeInv'
  OBVIOUS
<1>1. CASE WaitTurn
  BY <1>1, TurnWaitInv
<1>2. CASE \E n \in Requests : ReadCall(n)
  <2>1. start' \in 0..(TickMod - 1) /\ now' = start' /\ diff' = 0 /\ timeout' = timeout
    BY <1>2, RingAssumption DEF ReadCall, mode
  <2>3. WaitInv'
    BY <2>1 DEF WaitInv
  <2> QED
    BY <2>1, <2>3 DEF TimeInv
<1>3. CASE \E c \in BOOLEAN, t \in Timeouts : SetMode(c, t)
  <2>1. pc' = "idle" /\ timeout' \in Timeouts
    BY <1>3 DEF SetMode, call
  <2> QED
    BY <2>1, RingAssumption DEF TimeInv, WaitInv
<1>4. CASE \/ \E ends \in BOOLEAN : Arrive(ends)
           \/ Flush \/ UNCHANGED vars
  BY <1>4 DEF Arrive, Flush, vars, call, clock, mode, TimeInv, WaitInv
<1>5. CASE TimesOut \/ CopyByte \/ ReadReturn
  <2>1. pc' # "wait" /\ timeout' = timeout
    BY <1>5 DEF TimesOut, CopyByte, ReadReturn, mode
  <2> QED
    BY <2>1 DEF TimeInv, WaitInv
<1> QED
  BY <1>1, <1>2, <1>3, <1>4, <1>5 DEF Next, Reader

(* A read that reports a timeout has waited for it, for every timeout of   *)
(* up to half the range of the tick, unless the tick ran over meanwhile.   *)
THEOREM TimeoutHonouredHolds == Spec => TimeoutHonoured
<1>1. Init => TimeInv
  BY RingAssumption DEF Init, TimeInv, WaitInv
<1>2. TypeOK /\ TimeInv /\ [Next]_vars =>
        [result' = "timeout" /\ result # "timeout" =>
           now - start >= timeout \/ now < start]_vars
  <2> SUFFICES ASSUME TypeOK, TimeInv, Next, result' = "timeout", result # "timeout"
               PROVE  now - start >= timeout \/ now < start
    OBVIOUS
  <2>1. TimesOut
    BY DEF Next, Arrive, SetMode, Flush, ReadCall, Reader, WaitTurn, CopyByte,
           ReadReturn, call
  <2> QED
    BY <2>1 DEF TimesOut, TimeInv, WaitInv, TypeOK
<1>3. IInv => TypeOK
  BY DEF IInv
<1> QED
  BY <1>1, <1>2, <1>3, NextTimeInv, Invariance, PTL DEF Spec, TimeoutHonoured

=============================================================================
