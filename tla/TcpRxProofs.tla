---------------------------- MODULE TcpRxProofs ----------------------------
(***************************************************************************)
(* Proofs about the receive path: the types (so no tot_len ever            *)
(* underflows), that the recorded state and the pbuf chain agree, that the *)
(* head of a chain counts its unread bytes, and that the bytes come out as *)
(* ByteStream says.                                                        *)
(***************************************************************************)
EXTENDS TcpRx, DataInduction, TLAPS

(* Each pbuf's tot_len is at least what is left in it.                     *)
Covers(c) == \A i \in 1..Len(c) : c[i].tot >= Len(c[i].data)

(* So it is in the chain in use and in those of freed blocks, one of which *)
(* may be the next chain in use.                                           *)
Chains == remains \cup {chain}
AllCover == \A c \in Chains : Covers(c)

(* The tcpip thread holds the mutex exactly inside the two stretches of a  *)
(* callback that are not a single step.                                    *)
LockInv == mutex = "tcpip" <=> core \in {"recvEnd", "close"}

(* A RECEIVED connection has a chain; a CONNECTED one has a chain only     *)
(* while tcp_client_recv is between linking it and recording it, or when   *)
(* p_rx is from before the connection.                                     *)
BufferInv ==
  /\ origin = "wild" => chain = <<>>
  /\ (live /\ state = "RECEIVED") => chain # <<>>
  /\ (live /\ state = "CONNECTED" /\ HasRx) => core = "recvEnd" \/ origin # "own"
  /\ (live /\ core = "recvEnd") => chain # <<>>

(* What the two threads rely on.  A command is only under way on an        *)
(* allocated struct client.                                                *)
Control == /\ LockInv
           /\ BufferInv
           /\ ard # "idle" => live
           /\ ReadHasData

(* The inductive invariant.                                                *)
IInv == TypeOK /\ AllCover /\ Control

-----------------------------------------------------------------------------
(* The chain lwIP passes up is a non-empty chain of pbufs.                 *)
LEMMA PbufType ==
  ASSUME NEW sg \in (Nat \ {0}) \X Nat, arrived \in Nat
  PROVE  /\ Pbuf(sg) \in Seq(Pbufs)
         /\ Pbuf(sg) # <<>>
         /\ Covers(Pbuf(sg))
<1> DEFINE a == sg[1]
           b == sg[2]
           first == [data |-> [i \in 1..a |-> arrived + i], tot |-> a + b]
           second == [data |-> [i \in 1..b |-> arrived + a + i], tot |-> b]
<1>1. a \in Nat /\ b \in Nat
  OBVIOUS
<1>2. first \in Pbufs /\ Len(first.data) = a /\ first.tot = a + b
  BY <1>1 DEF Pbufs
<1>3. second \in Pbufs /\ Len(second.data) = b /\ second.tot = b
  BY <1>1 DEF Pbufs
<1>4. Pbuf(sg) = IF b = 0 THEN <<first>> ELSE <<first, second>>
  BY DEF Pbuf
<1> HIDE DEF a, b, first, second
<1>5. CASE b = 0
  BY <1>1, <1>2, <1>4, <1>5 DEF Covers
<1>6. CASE b # 0
  BY <1>1, <1>2, <1>3, <1>4, <1>6 DEF Covers
<1> QED
  BY <1>5, <1>6

(* Appending a chain keeps the types and the lower bound on tot_len.       *)
LEMMA LinkType ==
  ASSUME NEW c \in Seq(Pbufs), NEW p \in Seq(Pbufs), p # <<>>,
         Covers(c), Covers(p)
  PROVE  /\ Link(c, p) \in Seq(Pbufs)
         /\ Link(c, p) # <<>>
         /\ Covers(Link(c, p))
<1> DEFINE n == Len(c)
           t == p[1].tot
           up == [i \in 1..n |-> [c[i] EXCEPT !.tot = @ + t]]
<1>1. n \in Nat /\ t \in Nat
  <2>1. p[1] \in Pbufs
    OBVIOUS
  <2> QED
    BY <2>1 DEF Pbufs
<1>2. \A i \in 1..n : c[i] \in Pbufs
  OBVIOUS
<1> HIDE DEF t
<1>3. ASSUME NEW i \in 1..n
      PROVE  /\ up[i] \in Pbufs
             /\ up[i].data = c[i].data
             /\ up[i].tot = c[i].tot + t
  <2>1. up[i] = [c[i] EXCEPT !.tot = @ + t]
    OBVIOUS
  <2>2. c[i] \in Pbufs
    BY <1>2
  <2> HIDE DEF up
  <2>3. up[i] = [data |-> c[i].data, tot |-> c[i].tot + t]
    BY <2>1, <2>2 DEF Pbufs
  <2> QED
    BY <1>1, <2>2, <2>3, SMTT(30) DEF Pbufs
<1>4. up \in Seq(Pbufs) /\ Len(up) = n
  BY <1>1, <1>3
<1>5. Covers(up)
  <2>1. ASSUME NEW i \in 1..n
        PROVE  up[i].tot >= Len(up[i].data)
    <3>1. c[i].tot \in Nat /\ Len(c[i].data) \in Nat /\ c[i].tot >= Len(c[i].data)
      BY <1>2 DEF Covers, Pbufs
    <3> QED
      BY <3>1, <1>1, <1>3
  <2> QED
    BY <2>1, <1>4 DEF Covers
<1>6. CASE c = <<>>
  BY <1>6 DEF Link
<1>7. CASE c # <<>>
  <2>1. Link(c, p) = up \o p
    BY <1>7 DEF Link, t
  <2> HIDE DEF up
  <2>2. up \o p \in Seq(Pbufs) /\ Len(up \o p) = Len(up) + Len(p) /\ Len(p) # 0
    BY <1>4
  <2>3. Covers(up \o p)
    <3> SUFFICES ASSUME NEW i \in 1..Len(up \o p)
                 PROVE  (up \o p)[i].tot >= Len((up \o p)[i].data)
      BY DEF Covers
    <3>1. CASE i <= Len(up)
      BY <3>1, <1>4, <1>5 DEF Covers
    <3>2. CASE i > Len(up)
      <4>1. (i - Len(up)) \in 1..Len(p) /\ (up \o p)[i] = p[i - Len(up)]
        BY <3>2, <2>2, <1>4, <1>1
      <4> QED
        BY <4>1 DEF Covers
    <3> QED
      BY <3>1, <3>2, <1>1, <1>4, <2>2
  <2> QED
    BY <2>1, <2>2, <2>3, <1>4
<1> QED
  BY <1>6, <1>7

(* Reading at most what a pbuf holds keeps the types: no tot_len goes      *)
(* below zero.                                                             *)
LEMMA ConsumeType ==
  ASSUME NEW c \in Seq(Pbufs), Covers(c), NEW i \in 1..Len(c), IsFront(c, i),
         NEW k \in Nat, k <= Len(c[i].data)
  PROVE  /\ Consume(c, i, k) \in Seq(Pbufs)
         /\ Consume(c, i, k) # <<>>
         /\ Covers(Consume(c, i, k))
<1> DEFINE n == Len(c)
           d == c[i].data
           left == c[i].tot - k
           rest == SubSeq(d, k + 1, Len(d))
           new == [j \in 1..n |->
                    [data |-> IF j = i THEN rest ELSE c[j].data,
                     tot  |-> IF j \in {1, i} THEN left ELSE c[j].tot]]
<1>1. n \in Nat /\ n # 0 /\ i \in Nat
  OBVIOUS
<1>2. \A j \in 1..n : c[j] \in Pbufs
  OBVIOUS
<1>3. d \in Seq(Nat) /\ c[i].tot \in Nat /\ Len(d) \in Nat
  BY <1>2 DEF Pbufs
<1>4. left \in Nat /\ left >= Len(d) - k
  BY <1>3 DEF Covers
<1>5. rest \in Seq(Nat) /\ Len(rest) = Len(d) - k
  BY <1>3, SMTT(30)
<1>6. \A j \in 1..n : j = 1 /\ j # i => c[j].data = <<>>
  BY <1>1 DEF IsFront
<1> HIDE DEF left, rest, d
<1>7. ASSUME NEW j \in 1..n
      PROVE  new[j] \in Pbufs /\ new[j].tot >= Len(new[j].data)
  <2>1. c[j] \in Pbufs /\ c[j].tot >= Len(c[j].data)
    BY <1>2 DEF Covers
  <2>2. CASE j = i
    BY <2>2, <1>3, <1>4, <1>5 DEF Pbufs
  <2>3. CASE j # i /\ j = 1
    BY <2>1, <2>3, <1>4, <1>6 DEF Pbufs
  <2>4. CASE j # i /\ j # 1
    BY <2>1, <2>4 DEF Pbufs
  <2> QED
    BY <2>2, <2>3, <2>4
<1>8. Consume(c, i, k) = new
  BY DEF Consume, left, rest, d
<1> HIDE DEF new
<1>9. new \in Seq(Pbufs) /\ Len(new) = n
  BY <1>1, <1>7 DEF new
<1> QED
  BY <1>1, <1>7, <1>8, <1>9 DEF Covers

-----------------------------------------------------------------------------
(* The state the connection starts from.                                   *)
LEMMA EmptyChain == <<>> \in Seq(Pbufs) /\ Covers(<<>>)
  BY DEF Covers

LEMMA InitIInv == Init => IInv
<1> SUFFICES ASSUME Init
             PROVE  IInv
  OBVIOUS
<1>1. TypeOK
  <2>1. seg \in (Nat \ {0}) \X Nat
    BY DEF Init
  <2>2. chain \in Seq(Pbufs) /\ out \in Seq(Nat) /\ remains \subseteq Seq(Pbufs)
    BY EmptyChain DEF Init
  <2> QED
    BY <2>1, <2>2 DEF Init, TypeOK, States
<1>2. AllCover
  BY EmptyChain DEF Init, AllCover, Chains
<1> QED
  BY <1>1, <1>2 DEF Init, IInv, Control, LockInv, BufferInv, ReadHasData, HasRx

-----------------------------------------------------------------------------
(* What a step does to the chains.                                         *)

LEMMA PartsType ==
  ASSUME NEW c \in Seq(Pbufs)
  PROVE  /\ Parts(c) \in Seq(Seq(Nat)) /\ Len(Parts(c)) = Len(c)
         /\ \A i \in 1..Len(c) : Parts(c)[i] = c[i].data /\ c[i].data \in Seq(Nat)
<1>1. Len(c) \in Nat /\ \A i \in 1..Len(c) : c[i] \in Pbufs
  OBVIOUS
<1>2. \A i \in 1..Len(c) : c[i].data \in Seq(Nat)
  BY <1>1 DEF Pbufs
<1> QED
  BY <1>1, <1>2 DEF Parts

(* What a read does with a chain that has data.                            *)
LEMMA ReadTakes ==
  ASSUME TypeOK, NEW n \in Requests, ReadBody(n), ~Drained(chain)
  PROVE  \E i \in 1..Len(chain), k \in Nat :
            /\ IsFront(chain, i) /\ k <= Len(chain[i].data)
            /\ out' = SubSeq(chain[i].data, 1, k)
            /\ chain' = Consume(chain, i, k)
<1>1. PICK i \in 1..Len(chain) :
        /\ IsFront(chain, i)
        /\ LET k == IF n < Len(chain[i].data) THEN n ELSE Len(chain[i].data)
           IN  /\ out' = SubSeq(chain[i].data, 1, k)
               /\ chain' = Consume(chain, i, k)
  BY DEF ReadBody
<1>2. chain[i].data \in Seq(Nat)
  BY PartsType DEF TypeOK
<1> DEFINE k == IF n < Len(chain[i].data) THEN n ELSE Len(chain[i].data)
<1>3. k \in Nat /\ k <= Len(chain[i].data)
  BY <1>2, RxAssumption
<1>4. out' = SubSeq(chain[i].data, 1, k) /\ chain' = Consume(chain, i, k)
  BY <1>1
<1> HIDE DEF k
<1> QED
  BY <1>1, <1>3, <1>4

(* Nothing; p_rx is reset or forgotten; it stays behind in a freed block;  *)
(* a connection begins with one that stayed behind; the board is reset.    *)
Stays == chain' = chain /\ remains' = remains
Drops == chain' = <<>> /\ remains' = remains
Leaves == /\ ard \in {"closeTake", "closeWait"}
          /\ chain' = <<>> /\ remains' = remains \cup ({chain} \ {<<>>})
Takes == chain' \in remains /\ remains' = remains \ {chain'}
Resets == chain' = <<>> /\ remains' = {}

Moves == /\ out' = out /\ arrived' = arrived
         /\ Stays \/ Drops \/ Leaves \/ Takes \/ Resets

LEMMA TakeBlockMoves == TakeBlock => Takes \/ Drops
BY DEF TakeBlock, Takes, Drops

(* A segment is linked, a read takes some bytes, or whole chains move.     *)
LEMMA ChainChanges ==
  ASSUME [Next]_vars
  PROVE  \/ RecvLink
         \/ \E n \in Requests : ReadBody(n) /\ ~Drained(chain)
         \/ Moves
<1>1. CASE Connected \/ Unresolved
  BY <1>1, TakeBlockMoves DEF Connected, Unresolved, Moves
<1>2. CASE Peer /\ ~(Connected \/ Unresolved)
  BY <1>2 DEF Peer, ConnectFails, SegmentArrives, FinArrives, es, past, Moves, Stays, Drops
<1>3. CASE (Tcpip /\ ~RecvLink) \/ TxDrained
  BY <1>3 DEF Tcpip, RecvEnd, RecvDrop, RecvFin, PollCloses, CallbackCloses,
     CallbackAfterFree, WildUsed, TxDrained, es, past, Moves, Stays
<1>4. ASSUME NEW n \in Requests, ReadBody(n), Drained(chain)
      PROVE  Moves
  BY <1>4 DEF ReadBody, past, Moves, Stays
<1>5. CASE ReadWakes \/ ReadTimeout \/ ReadNull \/ FreeBody
           \/ \E force \in BOOLEAN : FreeCheck(force)
  BY <1>5 DEF ReadWakes, ReadTimeout, ReadNull, FreeCheck, FreeBody, es, past,
     Moves, Stays, Drops
<1>6. CASE CloseWhenClosed \/ CloseRequest \/ CloseWhenClosing \/ CloseTimeout \/ CloseDone
  BY <1>6 DEF CloseWhenClosed, CloseRequest, CloseWhenClosing, CloseTimeout, CloseDone,
     Release, es, past, Moves, Stays, Leaves
<1>7. CASE Sketch
  BY <1>7 DEF Sketch, Write, CloseCall, ReadCall, es, past, Moves, Stays
<1>8. CASE Watchdog
  BY <1>8 DEF Watchdog, Moves, Resets
<1>9. CASE UNCHANGED vars
  BY <1>9 DEF vars, past, Moves, Stays
<1> QED
  BY <1>1, <1>2, <1>3, <1>4, <1>5, <1>6, <1>7, <1>8, <1>9 DEF Next, Arduino

(* A chain that moved is one that was there before, or none.               *)
LEMMA MovesKeep ==
  ASSUME Moves
  PROVE  Chains' \subseteq Chains \cup {<<>>}
<1>1. remains' \cup {chain'} \subseteq (remains \cup {chain}) \cup {<<>>}
  BY DEF Moves, Stays, Drops, Leaves, Takes, Resets
<1> QED
  BY <1>1 DEF Chains

(* A linked segment, and what a read leaves.                               *)
LEMMA RecvLinkIs ==
  ASSUME TypeOK, AllCover, RecvLink
  PROVE  /\ chain' = Link(chain, Pbuf(seg)) /\ remains' = remains
         /\ chain' \in Seq(Pbufs) /\ chain' # <<>> /\ Covers(chain')
         /\ out' = out /\ arrived' = arrived + seg[1] + seg[2] /\ arrived' \in Nat
<1>1. /\ chain \in Seq(Pbufs) /\ Covers(chain)
      /\ seg \in (Nat \ {0}) \X Nat /\ arrived \in Nat
  BY DEF TypeOK, AllCover, Chains
<1>2. Pbuf(seg) \in Seq(Pbufs) /\ Pbuf(seg) # <<>> /\ Covers(Pbuf(seg))
  BY <1>1, PbufType
<1>3. /\ Link(chain, Pbuf(seg)) \in Seq(Pbufs) /\ Link(chain, Pbuf(seg)) # <<>>
      /\ Covers(Link(chain, Pbuf(seg)))
  BY <1>1, <1>2, LinkType
<1>4. /\ chain' = Link(chain, Pbuf(seg)) /\ remains' = remains /\ out' = out
      /\ arrived' = arrived + seg[1] + seg[2]
  BY DEF RecvLink, past
<1> QED
  BY <1>1, <1>3, <1>4

LEMMA ReadBodyIs ==
  ASSUME TypeOK, AllCover, NEW n \in Requests, ReadBody(n), ~Drained(chain)
  PROVE  /\ \E i \in 1..Len(chain), k \in Nat :
              /\ IsFront(chain, i) /\ k <= Len(chain[i].data)
              /\ out' = SubSeq(chain[i].data, 1, k)
              /\ chain' = Consume(chain, i, k)
         /\ remains' = remains /\ arrived' = arrived /\ out' \in Seq(Nat)
         /\ chain' \in Seq(Pbufs) /\ chain' # <<>> /\ Covers(chain')
<1>1. PICK i \in 1..Len(chain) : \E k \in Nat :
        /\ IsFront(chain, i) /\ k <= Len(chain[i].data)
        /\ out' = SubSeq(chain[i].data, 1, k)
        /\ chain' = Consume(chain, i, k)
  BY ReadTakes
<1>2. PICK k \in Nat :
        /\ IsFront(chain, i) /\ k <= Len(chain[i].data)
        /\ out' = SubSeq(chain[i].data, 1, k)
        /\ chain' = Consume(chain, i, k)
  BY <1>1
<1>3. chain \in Seq(Pbufs) /\ Covers(chain)
  BY DEF TypeOK, AllCover, Chains
<1>4. /\ Consume(chain, i, k) \in Seq(Pbufs) /\ Consume(chain, i, k) # <<>>
      /\ Covers(Consume(chain, i, k))
  BY <1>2, <1>3, ConsumeType
<1>5. out' \in Seq(Nat)
  <2>1. chain[i].data \in Seq(Nat)
    BY <1>3, PartsType
  <2> QED
    BY <1>2, <2>1, SplitSeq
<1>6. remains' = remains /\ arrived' = arrived
  BY DEF ReadBody, past
<1> QED
  BY <1>1, <1>2, <1>4, <1>5, <1>6

(* So the chains keep their types and their bounds.                        *)
LEMMA NextChains ==
  ASSUME IInv, [Next]_vars
  PROVE  /\ chain' \in Seq(Pbufs) /\ remains' \subseteq Seq(Pbufs)
         /\ out' \in Seq(Nat) /\ arrived' \in Nat
         /\ AllCover'
<1>1. /\ TypeOK /\ AllCover /\ remains \subseteq Seq(Pbufs) /\ chain \in Seq(Pbufs)
      /\ out \in Seq(Nat) /\ arrived \in Nat
  BY DEF IInv, TypeOK
<1>2. ASSUME chain' \in Seq(Pbufs), Covers(chain'), remains' = remains
      PROVE  AllCover'
  BY <1>1, <1>2 DEF AllCover, Chains, Covers
<1>3. CASE RecvLink
  BY <1>1, <1>2, <1>3, RecvLinkIs
<1>4. ASSUME NEW n \in Requests, ReadBody(n), ~Drained(chain)
      PROVE  /\ chain' \in Seq(Pbufs) /\ remains' \subseteq Seq(Pbufs)
             /\ out' \in Seq(Nat) /\ arrived' \in Nat
             /\ AllCover'
  BY <1>1, <1>2, <1>4, ReadBodyIs
<1>5. CASE Moves
  <2>1. Chains' \subseteq Chains \cup {<<>>}
    BY <1>5, MovesKeep
  <2>2. chain' \in Seq(Pbufs) /\ remains' \subseteq Seq(Pbufs)
    BY <1>1, <2>1, EmptyChain DEF Chains
  <2>3. AllCover'
    BY <1>1, <2>1, EmptyChain DEF AllCover, Covers
  <2>4. out' \in Seq(Nat) /\ arrived' \in Nat
    BY <1>1, <1>5 DEF Moves
  <2> QED
    BY <2>2, <2>3, <2>4
<1> QED
  BY <1>3, <1>4, <1>5, ChainChanges

-----------------------------------------------------------------------------
(* The invariant.                                                          *)

(* Every step keeps the types.                                             *)
LEMMA NextTypeOK == IInv /\ [Next]_vars => TypeOK' /\ AllCover'
<1> SUFFICES ASSUME IInv, [Next]_vars
             PROVE  TypeOK'
  BY NextChains
<1>a. /\ chain' \in Seq(Pbufs) /\ remains' \subseteq Seq(Pbufs)
      /\ out' \in Seq(Nat) /\ arrived' \in Nat
  BY NextChains
<1>b. TypeOK
  BY DEF IInv
<1> USE <1>a, <1>b DEF TypeOK
<1>1. CASE Connected
  BY <1>1 DEF Connected, TakeBlock, States
<1>2. CASE Unresolved
  BY <1>2 DEF Unresolved, TakeBlock, States
<1>3. CASE ConnectFails
  <2>1. live' \in BOOLEAN /\ UNCHANGED <<txBusy, registered, peerFin, fault>>
    BY <1>3 DEF ConnectFails
  <2> QED
    BY <1>3, <2>1 DEF ConnectFails
<1>4. ASSUME NEW sg \in Segments, SegmentArrives(sg)
      PROVE  TypeOK'
  BY <1>4, RxAssumption DEF SegmentArrives, es, past
<1>5. CASE FinArrives
  BY <1>5 DEF FinArrives, es, past
<1>6. CASE RecvLink
  BY <1>6 DEF RecvLink, past
<1>7. CASE RecvEnd \/ RecvDrop \/ RecvFin \/ CallbackAfterFree \/ WildUsed
  BY <1>7 DEF RecvEnd, RecvDrop, RecvFin, CallbackAfterFree, WildUsed, es, past, States
<1>8. CASE PollCloses \/ CallbackCloses \/ TxDrained
  BY <1>8 DEF PollCloses, CallbackCloses, TxDrained, es, past, States
<1>9. CASE Write
  BY <1>9 DEF Write, es, past
<1>10. CASE CloseCall
  BY <1>10 DEF CloseCall, es, past
<1>11. ASSUME NEW j \in {"read", "rtc"}, ReadCall(j)
       PROVE  TypeOK'
  BY <1>11 DEF ReadCall, es, past
<1>12. CASE ReadWakes \/ ReadTimeout \/ ReadNull
  BY <1>12 DEF ReadWakes, ReadTimeout, ReadNull, es, past
<1>13. ASSUME NEW n \in Requests, ReadBody(n)
       PROVE  TypeOK'
  BY <1>13 DEF ReadBody, past
<1>14. ASSUME NEW force \in BOOLEAN, FreeCheck(force)
       PROVE  TypeOK'
  BY <1>14 DEF FreeCheck, es, past
<1>15. CASE FreeBody
  BY <1>15 DEF FreeBody, States
<1>16. CASE CloseWhenClosed \/ CloseDone
  BY <1>16 DEF CloseWhenClosed, CloseDone, Release
<1>17. CASE CloseRequest \/ CloseWhenClosing \/ CloseTimeout
  BY <1>17 DEF CloseRequest, CloseWhenClosing, CloseTimeout, es, past, States
<1>18. CASE Watchdog
  BY <1>18 DEF Watchdog, States
<1>19. CASE UNCHANGED vars
  BY <1>19 DEF vars, past
<1> QED
  BY <1>1, <1>2, <1>3, <1>4, <1>5, <1>6, <1>7, <1>8, <1>9, <1>10, <1>11, <1>12, <1>13,
     <1>14, <1>15, <1>16, <1>17, <1>18, <1>19 DEF Next, Peer, Tcpip, Arduino, Sketch

(* Every step keeps what the two threads rely on.                          *)
LEMMA NextControl == IInv /\ [Next]_vars => Control'
<1> SUFFICES ASSUME TypeOK, AllCover, Control, [Next]_vars
             PROVE  Control'
  BY DEF IInv
<1> USE DEF Control, LockInv, BufferInv, ReadHasData, HasRx
<1>1. CASE Connected
  BY <1>1 DEF Connected, Connectable, TakeBlock
<1>2. CASE Unresolved
  BY <1>2 DEF Unresolved, Connectable, TakeBlock
<1>3. CASE ConnectFails
  BY <1>3 DEF ConnectFails, Connectable
<1>4. ASSUME NEW sg \in Segments, SegmentArrives(sg)
      PROVE  Control'
  BY <1>4 DEF SegmentArrives, es, past
<1>5. CASE FinArrives
  BY <1>5 DEF FinArrives, es, past
<1>6. CASE RecvLink
  <2>1. chain' # <<>>
    BY <1>6, RecvLinkIs
  <2> QED
    BY <1>6, <2>1 DEF RecvLink, past
<1>7. CASE RecvEnd
  BY <1>7 DEF RecvEnd, past
<1>8. CASE RecvDrop \/ CallbackAfterFree \/ WildUsed
  BY <1>8 DEF RecvDrop, CallbackAfterFree, WildUsed, es, past
<1>9. CASE RecvFin
  BY <1>9 DEF RecvFin, past
<1>10. CASE PollCloses \/ CallbackCloses \/ TxDrained
  BY <1>10 DEF PollCloses, CallbackCloses, TxDrained, es, past
<1>11. CASE Write \/ CloseCall \/ \E j \in {"read", "rtc"} : ReadCall(j)
  BY <1>11 DEF Write, CloseCall, ReadCall, ArdIdle, es, past
<1>12. CASE ReadWakes \/ ReadTimeout \/ ReadNull
  BY <1>12 DEF ReadWakes, ReadTimeout, ReadNull, es, past
<1>13. ASSUME NEW n \in Requests, ReadBody(n)
       PROVE  Control'
  <2>1. CASE Drained(chain)
    BY <1>13, <2>1 DEF ReadBody, past
  <2>2. CASE ~Drained(chain)
    <3>1. chain' # <<>> /\ chain # <<>>
      BY <1>13, <2>2, ReadBodyIs DEF ReadBody
    <3>2. ard = "readTake" /\ ard' = "sending" /\ mutex = "none"
      BY <1>13, <2>2 DEF ReadBody
    <3>3. UNCHANGED <<live, state, mutex, core, origin>>
      BY <1>13 DEF ReadBody, past
    <3> QED
      BY <3>1, <3>2, <3>3
  <2> QED
    BY <2>1, <2>2
<1>14. ASSUME NEW force \in BOOLEAN, FreeCheck(force)
       PROVE  Control'
  BY <1>14 DEF FreeCheck, es, past
<1>15. CASE FreeBody
  BY <1>15 DEF FreeBody
<1>16. CASE CloseWhenClosed \/ CloseDone
  BY <1>16 DEF CloseWhenClosed, CloseDone, Release
<1>17. CASE CloseRequest \/ CloseTimeout
  BY <1>17 DEF CloseRequest, CloseTimeout, past
<1>18. CASE CloseWhenClosing
  BY <1>18 DEF CloseWhenClosing, es, past
<1>19. CASE Watchdog
  BY <1>19 DEF Watchdog
<1>20. CASE UNCHANGED vars
  BY <1>20 DEF vars, past
<1> QED
  BY <1>1, <1>2, <1>3, <1>4, <1>5, <1>6, <1>7, <1>8, <1>9, <1>10, <1>11, <1>12, <1>13,
     <1>14, <1>15, <1>16, <1>17, <1>18, <1>19, <1>20
  DEF Next, Peer, Tcpip, Arduino, Sketch

LEMMA Invariance == Spec => []IInv
<1>1. IInv /\ [Next]_vars => IInv'
  BY NextTypeOK, NextControl DEF IInv
<1> QED
  BY InitIInv, <1>1, PTL DEF Spec

-----------------------------------------------------------------------------
(* What the totals of a chain count.  A chain is a run of empty pbufs and  *)
(* then of pbufs with data.  Each of the latter counts its own bytes and   *)
(* those behind it; the head counts what the first of them does, and       *)
(* nothing if there is none.                                               *)
Counted(c) ==
  /\ \A j \in 1..Len(c) : c[j].data # <<>> =>
       \/ j = Len(c) /\ c[j].tot = Len(c[j].data)
       \/ /\ j < Len(c) /\ c[j + 1].data # <<>>
          /\ c[j].tot = Len(c[j].data) + c[j + 1].tot
  /\ \A j \in 1..Len(c) : IsFront(c, j) => c[1].tot = c[j].tot
  /\ c # <<>> /\ Drained(c) => c[1].tot = 0

(* A chain without data is there only between the read that emptied it and *)
(* read_buffer_free; none stays behind.                                    *)
DrainInv == /\ \A c \in Chains : Counted(c)
            /\ \A c \in remains : ~Drained(c)
            /\ chain # <<>> /\ Drained(chain) => ard \in {"sending", "freeTake"}

LEMMA PbufCounted ==
  ASSUME NEW sg \in (Nat \ {0}) \X Nat, arrived \in Nat
  PROVE  Counted(Pbuf(sg)) /\ Pbuf(sg)[1].data # <<>>
<1> DEFINE a == sg[1]
           b == sg[2]
           first == [data |-> [i \in 1..a |-> arrived + i], tot |-> a + b]
           second == [data |-> [i \in 1..b |-> arrived + a + i], tot |-> b]
<1>1. a \in Nat \ {0} /\ b \in Nat
  OBVIOUS
<1>2. Len(first.data) = a /\ first.tot = a + b /\ first.data # <<>>
  BY <1>1
<1>3. Len(second.data) = b /\ second.tot = b /\ (b # 0 => second.data # <<>>)
  BY <1>1
<1>4. Pbuf(sg) = IF b = 0 THEN <<first>> ELSE <<first, second>>
  BY DEF Pbuf
<1> HIDE DEF a, b, first, second
<1>5. CASE b = 0
  BY <1>1, <1>2, <1>4, <1>5 DEF Counted, IsFront, Drained
<1>6. CASE b # 0
  <2>1. Pbuf(sg) = <<first, second>> /\ Len(<<first, second>>) = 2
    BY <1>4, <1>6
  <2>2. \A j \in 1..2 : IsFront(<<first, second>>, j) => j = 1
    BY <1>2 DEF IsFront
  <2> QED
    BY <1>1, <1>2, <1>3, <1>6, <2>1, <2>2 DEF Counted, Drained
<1> QED
  BY <1>5, <1>6

LEMMA LinkCounted ==
  ASSUME NEW c \in Seq(Pbufs), NEW p \in Seq(Pbufs), p # <<>>,
         Counted(c), Counted(p), p[1].data # <<>>
  PROVE  Counted(Link(c, p)) /\ ~Drained(Link(c, p))
<1> DEFINE n == Len(c)
           t == p[1].tot
           up == [i \in 1..n |-> [c[i] EXCEPT !.tot = @ + t]]
           l == Link(c, p)
<1>1. n \in Nat /\ Len(p) \in Nat \ {0}
  OBVIOUS
<1>2. p[1] \in Pbufs /\ t \in Nat /\ \A i \in 1..n : c[i] \in Pbufs
  <2>1. p[1] \in Pbufs
    OBVIOUS
  <2>2. t \in Nat
    BY <2>1 DEF Pbufs
  <2>3. \A i \in 1..n : c[i] \in Pbufs
    OBVIOUS
  <2> QED
    BY <2>1, <2>2, <2>3
<1>3. CASE c = <<>>
  <2>1. l = p
    BY <1>3 DEF Link
  <2> QED
    BY <1>1, <2>1 DEF Drained
<1>4. CASE c # <<>>
  <2>1. l = up \o p
    BY <1>4 DEF Link
  <2>2. \A i \in 1..n : up[i].data = c[i].data /\ up[i].tot = c[i].tot + t
    BY <1>2 DEF Pbufs
  <2>3. /\ Len(l) = n + Len(p) /\ n # 0
        /\ \A i \in 1..n : l[i].data = c[i].data /\ l[i].tot = c[i].tot + t
        /\ \A i \in 1..Len(p) : l[n + i] = p[i]
    <3>1. ASSUME NEW i \in 1..n
          PROVE  up[i] \in Pbufs
      <4>1. c[i] \in Pbufs /\ up[i] = [c[i] EXCEPT !.tot = @ + t]
        BY <1>2
      <4>2. t \in Nat
        BY <1>2
      <4> HIDE DEF up, t
      <4>3. up[i] = [data |-> c[i].data, tot |-> c[i].tot + t]
        BY <4>1 DEF Pbufs
      <4>4. c[i].data \in Seq(Nat) /\ c[i].tot \in Nat
        BY <1>2 DEF Pbufs
      <4>5. c[i].tot + t \in Nat
        BY <4>2, <4>4
      <4> QED
        BY <4>3, <4>4, <4>5 DEF Pbufs
    <3>2. up \in Seq(Pbufs) /\ Len(up) = n
      BY <1>1, <3>1
    <3> HIDE DEF up
    <3>3. /\ Len(up \o p) = n + Len(p)
          /\ \A i \in 1..n : (up \o p)[i] = up[i]
          /\ \A i \in 1..Len(p) : (up \o p)[n + i] = p[i]
      BY <1>1, <3>2, SMTT(30)
    <3> QED
      BY <1>1, <1>4, <2>1, <2>2, <3>3
  <2> HIDE DEF l, up, n, t
  <2>4. /\ \A i \in 1..n : c[i].tot \in Nat /\ Len(c[i].data) \in Nat
        /\ \A i \in 1..Len(p) : p[i].tot \in Nat /\ Len(p[i].data) \in Nat
    <3>1. \A i \in 1..Len(p) : p[i] \in Pbufs
      OBVIOUS
    <3>2. \A b \in Pbufs : b.tot \in Nat /\ Len(b.data) \in Nat
      BY DEF Pbufs
    <3> QED
      BY <1>2, <3>1, <3>2
  <2>5. l[n + 1] = p[1] /\ l[n + 1].data # <<>> /\ l[n + 1].tot = t
    BY <1>1, <2>3 DEF t
  <2>6. ASSUME NEW j \in 1..Len(l), l[j].data # <<>>
        PROVE  \/ j = Len(l) /\ l[j].tot = Len(l[j].data)
               \/ /\ j < Len(l) /\ l[j + 1].data # <<>>
                  /\ l[j].tot = Len(l[j].data) + l[j + 1].tot
    <3>1. CASE j < n
      <4>1. j \in 1..n /\ j + 1 \in 1..n /\ c[j].data # <<>> /\ j # Len(c)
        BY <1>1, <2>3, <2>6, <3>1 DEF n
      <4>2. c[j + 1].data # <<>> /\ c[j].tot = Len(c[j].data) + c[j + 1].tot
        BY <4>1 DEF Counted, n
      <4>3. l[j + 1].data = c[j + 1].data /\ l[j + 1].tot = c[j + 1].tot + t
        BY <2>3, <4>1
      <4>4. l[j].data = c[j].data /\ l[j].tot = c[j].tot + t /\ j < Len(l)
        BY <1>1, <2>3, <3>1, <4>1
      <4>5. Len(c[j].data) \in Nat /\ c[j + 1].tot \in Nat /\ t \in Nat
        BY <1>2, <2>4, <4>1
      <4> QED
        BY <4>2, <4>3, <4>4, <4>5, SMTT(30)
    <3>2. CASE j = n
      <4>1. c[n].data # <<>> /\ n \in 1..n /\ n = Len(c)
        BY <1>1, <2>3, <2>6, <3>2 DEF n
      <4>2. c[n].tot = Len(c[n].data)
        BY <4>1 DEF Counted
      <4> QED
        BY <1>1, <1>2, <2>3, <2>5, <3>2, <4>1, <4>2
    <3>3. CASE j > n
      <4>1. PICK k \in 1..Len(p) : j = n + k
        <5>1. j - n \in 1..Len(p) /\ j = n + (j - n)
          BY <1>1, <2>3, <3>3
        <5> QED
          BY <5>1
      <4>2. l[j] = p[k] /\ p[k].data # <<>>
        BY <2>3, <2>6, <4>1
      <4>3. CASE k = Len(p)
        BY <1>1, <2>3, <4>1, <4>2, <4>3 DEF Counted
      <4>4. CASE k < Len(p)
        <5>1. p[k + 1].data # <<>> /\ p[k].tot = Len(p[k].data) + p[k + 1].tot
          BY <4>2, <4>4 DEF Counted
        <5>2. j + 1 = n + (k + 1) /\ k + 1 \in 1..Len(p)
          BY <1>1, <4>1, <4>4
        <5>3. l[j + 1] = p[k + 1] /\ j < Len(l)
          BY <1>1, <2>3, <4>1, <4>4, <5>2
        <5> QED
          BY <4>2, <5>1, <5>3
      <4> QED
        BY <1>1, <4>1, <4>3, <4>4
    <3> QED
      BY <1>1, <2>3, <3>1, <3>2, <3>3
  <2>7. ASSUME NEW j \in 1..Len(l), IsFront(l, j)
        PROVE  l[1].tot = l[j].tot
    <3>1. CASE j <= n
      <4>0. j \in 1..n /\ \A h \in 1..(j - 1) : h \in 1..n
        BY <1>1, <2>3, <3>1
      <4>1. IsFront(c, j) /\ j \in 1..Len(c)
        BY <2>3, <2>7, <4>0 DEF IsFront, n
      <4>2. c[1].tot = c[j].tot
        BY <4>1 DEF Counted
      <4> QED
        BY <1>1, <2>3, <3>1, <4>2
    <3>2. CASE j > n
      <4>1. \A i \in 1..n : c[i].data = <<>>
        BY <1>1, <2>3, <2>7, <3>2 DEF IsFront
      <4>2. c[1].tot = 0
        BY <1>4, <4>1 DEF Counted, Drained, n
      <4>3. j = n + 1
        BY <1>1, <2>3, <2>5, <2>7, <3>2 DEF IsFront
      <4> QED
        BY <1>1, <1>2, <2>3, <2>5, <4>2, <4>3
    <3> QED
      BY <1>1, <2>3, <3>1, <3>2
  <2>8. ~Drained(l)
    BY <1>1, <2>3, <2>5 DEF Drained
  <2> QED
    BY <2>6, <2>7, <2>8 DEF Counted, l
<1> QED
  BY <1>3, <1>4

(* A read that takes the last byte of a pbuf leaves the next one in front, *)
(* whose total is what the head is set to.                                 *)
LEMMA ConsumeCounted ==
  ASSUME NEW c \in Seq(Pbufs), Counted(c), NEW i \in 1..Len(c), IsFront(c, i),
         NEW k \in Nat, k <= Len(c[i].data)
  PROVE  Counted(Consume(c, i, k))
<1> DEFINE d == c[i].data
           left == c[i].tot - k
           rest == SubSeq(d, k + 1, Len(d))
           new == Consume(c, i, k)
<1>1. Len(c) \in Nat /\ i \in Nat /\ i >= 1
  OBVIOUS
<1>2. \A j \in 1..Len(c) : c[j].data \in Seq(Nat) /\ c[j].tot \in Nat
  <2>1. \A j \in 1..Len(c) : c[j] \in Pbufs
    OBVIOUS
  <2> QED
    BY <2>1 DEF Pbufs
<1>3. /\ rest \in Seq(Nat) /\ Len(rest) = Len(d) - k /\ Len(d) \in Nat
      /\ rest = <<>> <=> k = Len(d)
  <2>1. d \in Seq(Nat) /\ Len(d) \in Nat
    BY <1>2
  <2>2. rest \in Seq(Nat) /\ Len(rest) = Len(d) - k
    BY <2>1
  <2> HIDE DEF rest, d
  <2> QED
    BY <2>1, <2>2
<1>4. /\ Len(new) = Len(c)
      /\ \A j \in 1..Len(c) : /\ new[j].data = IF j = i THEN rest ELSE c[j].data
                              /\ new[j].tot = IF j \in {1, i} THEN left ELSE c[j].tot
  BY <1>1 DEF Consume
<1>5. d # <<>> /\ \A j \in 1..(i - 1) : c[j].data = <<>>
  BY DEF IsFront
<1>6. \A j \in 1..Len(c) : c[j].data # <<>> =>
       \/ j = Len(c) /\ c[j].tot = Len(c[j].data)
       \/ /\ j < Len(c) /\ c[j + 1].data # <<>>
          /\ c[j].tot = Len(c[j].data) + c[j + 1].tot
  BY DEF Counted
<1>7. c[i].tot \in Nat
  BY <1>2
<1> HIDE DEF new, rest, left
<1>8. ASSUME NEW j \in 1..Len(new), new[j].data # <<>>
      PROVE  \/ j = Len(new) /\ new[j].tot = Len(new[j].data)
             \/ /\ j < Len(new) /\ new[j + 1].data # <<>>
                /\ new[j].tot = Len(new[j].data) + new[j + 1].tot
  <2>1. c[j].data # <<>> /\ j >= i /\ (j = 1 => j = i)
    BY <1>1, <1>3, <1>4, <1>5, <1>8
  <2>2. CASE j = Len(c)
    <3>1. c[j].tot = Len(c[j].data)
      BY <1>6, <2>1, <2>2
    <3> QED
      BY <1>3, <1>4, <2>1, <2>2, <3>1, <1>7 DEF left
  <2>3. CASE j < Len(c)
    <3>1. /\ c[j + 1].data # <<>> /\ c[j].tot = Len(c[j].data) + c[j + 1].tot
          /\ j + 1 \in 1..Len(c) /\ j + 1 \notin {1, i}
      BY <1>1, <1>4, <1>6, <2>1, <2>3
    <3>2. new[j + 1].data = c[j + 1].data /\ new[j + 1].tot = c[j + 1].tot
      BY <1>4, <3>1
    <3>3. Len(c[j].data) \in Nat /\ c[j + 1].tot \in Nat
      <4>1. c[j].data \in Seq(Nat)
        BY <1>2, <1>4
      <4> QED
        BY <1>2, <3>1, <4>1
    <3>4. new[j].tot = Len(new[j].data) + c[j + 1].tot
      <4>1. CASE j = i
        <5>1. new[j].tot = c[j].tot - k /\ Len(new[j].data) = Len(c[j].data) - k
          BY <1>3, <1>4, <4>1 DEF left
        <5> QED
          BY <3>1, <3>3, <5>1, SMTT(30)
      <4>2. CASE j # i
        <5>1. new[j].tot = c[j].tot /\ new[j].data = c[j].data
          BY <1>4, <2>1, <4>2
        <5> QED
          BY <3>1, <5>1
      <4> QED
        BY <4>1, <4>2
    <3> QED
      BY <1>4, <2>3, <3>1, <3>2, <3>4
  <2> QED
    BY <1>4, <1>1, <2>2, <2>3
<1>9. ASSUME NEW j \in 1..Len(new), IsFront(new, j)
      PROVE  new[1].tot = new[j].tot
  <2>1. new[1].tot = left /\ new[i].tot = left
    BY <1>1, <1>4
  <2>2. /\ j \in 1..Len(c) /\ new[j].data # <<>>
        /\ \A h \in 1..(j - 1) : new[h].data = <<>>
    BY <1>4, <1>9 DEF IsFront
  <2>3. CASE j = i
    BY <2>1, <2>3
  <2>4. CASE j < i
    BY <1>1, <1>4, <1>5, <2>2, <2>4
  <2>5. CASE j > i
    <3>1. rest = <<>> /\ k = Len(d) /\ i < Len(c)
      BY <1>1, <1>3, <1>4, <2>2, <2>5
    <3>2. c[i + 1].data # <<>> /\ c[i].tot = Len(d) + c[i + 1].tot
      BY <1>1, <1>5, <1>6, <3>1
    <3>3. i + 1 \in 1..Len(c) /\ i + 1 \notin {1, i}
      BY <1>1, <3>1
    <3>4. new[i + 1].data # <<>> /\ new[i + 1].tot = c[i + 1].tot
      BY <1>4, <3>2, <3>3
    <3>5. j = i + 1
      BY <1>1, <2>2, <2>5, <3>4
    <3>6. c[i + 1].tot \in Nat
      BY <1>2, <3>3
    <3> QED
      BY <1>3, <2>1, <3>1, <3>2, <3>4, <3>5, <3>6 DEF left
  <2> QED
    BY <1>1, <1>4, <2>3, <2>4, <2>5
<1>10. ASSUME new # <<>>, Drained(new)
       PROVE  new[1].tot = 0
  <2>1. rest = <<>> /\ k = Len(d)
    BY <1>3, <1>4, <1>10 DEF Drained
  <2>2. i = Len(c)
    <3>1. SUFFICES ASSUME i < Len(c) PROVE FALSE
      BY <1>1
    <3>2. c[i + 1].data # <<>> /\ i + 1 \in 1..Len(c) /\ i + 1 # i
      BY <1>1, <1>5, <1>6, <3>1
    <3> QED
      BY <1>4, <1>10, <3>2 DEF Drained
  <2>3. c[i].tot = Len(d)
    BY <1>1, <1>5, <1>6, <2>2
  <2> QED
    BY <1>1, <1>3, <1>4, <2>1, <2>3 DEF left
<1> QED
  BY <1>8, <1>9, <1>10 DEF Counted, new

LEMMA InitDrained == Init => DrainInv
BY DEF Init, DrainInv, Chains, Counted, IsFront

LEMMA NextDrained == IInv /\ DrainInv /\ [Next]_vars => DrainInv'
<1> SUFFICES ASSUME IInv, DrainInv, [Next]_vars
             PROVE  DrainInv'
  OBVIOUS
<1>t. TypeOK /\ AllCover /\ Counted(chain) /\ chain \in Seq(Pbufs)
  BY DEF IInv, TypeOK, DrainInv, Chains
(* The chains move, and the arduino thread does not leave the stretch in   *)
(* which its chain may be empty.                                           *)
<1>a. ASSUME Moves,
             Stays /\ ard \in {"sending", "freeTake"} /\ chain # <<>> /\ Drained(chain)
               => ard' \in {"sending", "freeTake"}
      PROVE  DrainInv'
  <2>1. \A c \in Chains' : Counted(c)
    <3>1. Counted(<<>>)
      BY DEF Counted, IsFront
    <3> QED
      BY <1>a, <3>1, MovesKeep DEF DrainInv
  <2>2. \A c \in remains' : ~Drained(c)
    <3>1. Leaves => ~Drained(chain) \/ chain = <<>>
      BY DEF Leaves, DrainInv
    <3> QED
      BY <1>a, <3>1 DEF Moves, Stays, Drops, Leaves, Takes, Resets, DrainInv
  <2>3. chain' # <<>> /\ Drained(chain') => ard' \in {"sending", "freeTake"}
    BY <1>a DEF Moves, Stays, Drops, Leaves, Takes, Resets, DrainInv
  <2> QED
    BY <2>1, <2>2, <2>3 DEF DrainInv, Counted, Drained, IsFront
(* One chain is replaced.                                                  *)
<1>b. ASSUME remains' = remains, Counted(chain'),
             ~Drained(chain') \/ ard' \in {"sending", "freeTake"}
      PROVE  DrainInv'
  <2>1. \A c \in Chains' : Counted(c)
    BY <1>b DEF DrainInv, Chains
  <2>2. \A c \in remains' : ~Drained(c)
    BY <1>b DEF DrainInv
  <2>3. chain' # <<>> /\ Drained(chain') => ard' \in {"sending", "freeTake"}
    BY <1>b
  <2> QED
    BY <2>1, <2>2, <2>3 DEF DrainInv, Counted, Drained, IsFront
<1>0. CASE Connected \/ Unresolved
  BY <1>0, <1>a, TakeBlockMoves DEF Connected, Unresolved, Connectable, Moves
<1>1. CASE Peer /\ ~(Connected \/ Unresolved)
  BY <1>1, <1>a DEF Peer, ConnectFails, SegmentArrives, FinArrives, es, past, Moves,
     Stays, Drops
<1>2. CASE RecvLink
  <2>1. arrived \in Nat /\ seg \in (Nat \ {0}) \X Nat
    BY <1>t DEF TypeOK
  <2>2. Pbuf(seg) \in Seq(Pbufs) /\ Pbuf(seg) # <<>>
    BY <2>1, PbufType
  <2>3. Counted(Pbuf(seg)) /\ Pbuf(seg)[1].data # <<>>
    BY <2>1, PbufCounted
  <2>4. Counted(Link(chain, Pbuf(seg))) /\ ~Drained(Link(chain, Pbuf(seg)))
    BY <1>t, <2>2, <2>3, LinkCounted
  <2>5. chain' = Link(chain, Pbuf(seg)) /\ remains' = remains
    BY <1>2 DEF RecvLink, past
  <2> QED
    BY <1>b, <2>4, <2>5
<1>3. CASE Tcpip /\ ~RecvLink
  BY <1>3, <1>a DEF Tcpip, RecvEnd, RecvDrop, RecvFin, PollCloses, CallbackCloses,
     CallbackAfterFree, WildUsed, es, past, Moves, Stays
<1>4. CASE TxDrained
  BY <1>4, <1>a DEF TxDrained, es, past, Moves, Stays
<1>5. CASE Sketch
  BY <1>5, <1>a DEF Sketch, Write, CloseCall, ReadCall, ArdIdle, es, past, Moves, Stays
<1>6. CASE ReadWakes \/ ReadTimeout \/ ReadNull
  BY <1>6, <1>a DEF ReadWakes, ReadTimeout, ReadNull, es, past, Moves, Stays
<1>7. ASSUME NEW n \in Requests, ReadBody(n)
      PROVE  DrainInv'
  <2>1. ard = "readTake" /\ chain # <<>> /\ ~Drained(chain)
    BY <1>7 DEF ReadBody, DrainInv
  <2>2. PICK i \in 1..Len(chain) : \E k \in Nat :
          /\ IsFront(chain, i) /\ k <= Len(chain[i].data)
          /\ chain' = Consume(chain, i, k)
    BY <1>t, <1>7, <2>1, ReadTakes
  <2>3. Counted(chain')
    BY <1>t, <2>2, ConsumeCounted
  <2>4. ard' = "sending" /\ remains' = remains
    BY <1>7, <2>1 DEF ReadBody, past
  <2> QED
    BY <1>b, <2>3, <2>4
<1>8. ASSUME NEW force \in BOOLEAN, FreeCheck(force)
      PROVE  DrainInv'
  <2>1. chain # <<>> /\ Drained(chain) => chain[1].tot = 0
    BY <1>t DEF Counted
  <2> QED
    BY <1>8, <1>a, <2>1 DEF FreeCheck, es, past, Moves, Stays
<1>9. CASE FreeBody
  BY <1>9, <1>a DEF FreeBody, Moves, Stays, Drops
<1>10. CASE CloseWhenClosed \/ CloseDone
  BY <1>10, <1>a DEF CloseWhenClosed, CloseDone, Release, Moves, Stays, Leaves
<1>11. CASE CloseRequest \/ CloseWhenClosing \/ CloseTimeout
  BY <1>11, <1>a DEF CloseRequest, CloseWhenClosing, CloseTimeout, es, past, Moves, Stays
<1>12. CASE Watchdog
  BY <1>12, <1>a DEF Watchdog, Moves, Stays, Resets
<1>13. CASE UNCHANGED vars
  BY <1>13, <1>a DEF vars, past, Moves, Stays
<1> QED
  BY <1>0, <1>1, <1>2, <1>3, <1>4, <1>5, <1>6, <1>7, <1>8, <1>9, <1>10, <1>11, <1>12, <1>13
  DEF Next, Arduino

-----------------------------------------------------------------------------
(* The types hold for every number of bytes, segment shape and request     *)
(* size; in particular the unsigned tot_len never goes below zero.         *)
THEOREM TypeCorrect == Spec => []TypeOK
<1>1. IInv => TypeOK
  BY DEF IInv
<1> QED
  BY Invariance, <1>1, PTL

(* While nobody is inside the mutex a RECEIVED connection has a chain, and *)
(* a CONNECTED one has none but what was in its heap block before it: what *)
(* tcp_client_connect does not reset is the only way in which state and    *)
(* p_rx come to disagree.                                                  *)
THEOREM StateBufferHolds == Spec => []StateBuffer
<1>1. IInv => StateBuffer
  BY DEF IInv, Control, LockInv, BufferInv, StateBuffer, HasRx
<1> QED
  BY Invariance, <1>1, PTL

(* A read goes into its critical section without a chain only on a         *)
(* connection that is closing.                                             *)
THEOREM ReadHasDataHolds == Spec => []ReadHasData
<1>1. IInv => ReadHasData
  BY DEF IInv, Control
<1> QED
  BY Invariance, <1>1, PTL

(* tcpip_tcp_read that gets the mutex with a chain finds data in it: its   *)
(* "read list error" never comes, because tot_len of the head, which       *)
(* read_buffer_free looks at without the mutex, is zero when the chain is  *)
(* drained.                                                                *)
THEOREM NoListErrorHolds == Spec => []NoListError
<1>1. Init => IInv /\ DrainInv
  BY InitIInv, InitDrained
<1>2. IInv /\ DrainInv /\ [Next]_vars => (IInv /\ DrainInv)'
  BY NextTypeOK, NextControl, NextDrained DEF IInv
<1>3. IInv /\ DrainInv => NoListError
  BY DEF DrainInv, NoListError
<1> QED
  BY <1>1, <1>2, <1>3, PTL DEF Spec

-----------------------------------------------------------------------------
(* The bytes of a chain.                                                   *)

LEMMA BytesType ==
  ASSUME NEW c \in Seq(Pbufs)
  PROVE  Bytes(c) \in Seq(Nat)
BY PartsType, FlattenType DEF Bytes

(* The next n bytes of the stream, which is what a segment brings.         *)
Run(n) == [i \in 1..n |-> arrived + i]

(* The parts of a linked chain are the parts of one and then of the other. *)
LEMMA LinkParts ==
  ASSUME NEW c \in Seq(Pbufs), NEW p \in Seq(Pbufs), p # <<>>
  PROVE  Link(c, p) \in Seq(Pbufs) /\ Parts(Link(c, p)) = Parts(c) \o Parts(p)
<1>1. CASE c = <<>>
  <2>1. Parts(c) = <<>> /\ Link(c, p) = p
    BY <1>1 DEF Parts, Link
  <2> QED
    BY <2>1, PartsType, ConcatEmptySeq
<1>2. CASE c # <<>>
  <2> DEFINE n == Len(c)
             t == p[1].tot
             up == [i \in 1..n |-> [c[i] EXCEPT !.tot = @ + t]]
  <2>1. Link(c, p) = up \o p
    BY <1>2 DEF Link
  <2>2. n \in Nat /\ t \in Nat /\ \A i \in 1..n : c[i] \in Pbufs
    <3>1. p[1] \in Pbufs
      OBVIOUS
    <3>2. t \in Nat
      BY <3>1 DEF Pbufs
    <3> QED
      BY <3>2
  <2> HIDE DEF t
  <2>3. ASSUME NEW i \in 1..n
        PROVE  up[i] \in Pbufs /\ up[i].data = c[i].data
    <3>1. up[i] = [c[i] EXCEPT !.tot = @ + t]
      OBVIOUS
    <3>2. c[i] \in Pbufs
      BY <2>2
    <3> HIDE DEF up
    <3>3. up[i] = [data |-> c[i].data, tot |-> c[i].tot + t]
      BY <3>1, <3>2 DEF Pbufs
    <3> QED
      BY <2>2, <3>2, <3>3, SMTT(30) DEF Pbufs
  <2>4. up \in Seq(Pbufs) /\ Len(up) = n
    BY <2>2, <2>3
  <2> DEFINE l == up \o p
             q == Parts(c) \o Parts(p)
  <2> HIDE DEF up
  <2>5. /\ l \in Seq(Pbufs) /\ Len(l) = n + Len(p)
        /\ \A i \in 1..(n + Len(p)) : l[i] = IF i <= n THEN up[i] ELSE p[i - n]
    <3>1. l \in Seq(Pbufs) /\ Len(l) = n + Len(p)
      BY <2>4
    <3>2. ASSUME NEW i \in 1..(n + Len(p))
          PROVE  l[i] = IF i <= n THEN up[i] ELSE p[i - n]
      BY <2>4
    <3> QED
      BY <3>1, <3>2
  <2>6. /\ Parts(c) \in Seq(Seq(Nat)) /\ Len(Parts(c)) = n
        /\ \A i \in 1..n : Parts(c)[i] = c[i].data
    BY PartsType
  <2>7. /\ Parts(p) \in Seq(Seq(Nat)) /\ Len(Parts(p)) = Len(p)
        /\ \A i \in 1..Len(p) : Parts(p)[i] = p[i].data
    BY PartsType
  <2>8. /\ q \in Seq(Seq(Nat)) /\ Len(q) = n + Len(p)
        /\ \A i \in 1..(n + Len(p)) :
             q[i] = IF i <= n THEN Parts(c)[i] ELSE Parts(p)[i - n]
    <3>1. q \in Seq(Seq(Nat)) /\ Len(q) = n + Len(p)
      <4>1. q \in Seq(Seq(Nat)) /\ Len(q) = Len(Parts(c)) + Len(Parts(p))
        BY ONLY <2>6, <2>7, ConcatProperties
      <4> QED
        BY <2>6, <2>7, <4>1
    <3>2. ASSUME NEW i \in 1..(n + Len(p))
          PROVE  q[i] = IF i <= n THEN Parts(c)[i] ELSE Parts(p)[i - n]
      BY <2>6, <2>7
    <3> QED
      BY <3>1, <3>2
  <2> HIDE DEF l, q, n
  <2>9. /\ Parts(l) \in Seq(Seq(Nat)) /\ Len(Parts(l)) = Len(l)
        /\ \A i \in 1..Len(l) : Parts(l)[i] = l[i].data
    BY <2>5, PartsType
  <2>10. ASSUME NEW i \in 1..(n + Len(p))
         PROVE  Parts(l)[i] = q[i]
    <3>1. Parts(l)[i] = l[i].data
      BY <2>5, <2>9
    <3>2. CASE i <= n
      <4>1. i \in 1..n
        BY <2>2, <3>2
      <4> QED
        BY <2>3, <2>5, <2>6, <2>8, <3>1, <3>2, <4>1
    <3>3. CASE ~(i <= n)
      <4>1. i - n \in 1..Len(p)
        BY <2>2, <3>3
      <4> QED
        BY <2>5, <2>7, <2>8, <3>1, <3>3, <4>1
    <3> QED
      BY <3>2, <3>3
  <2>11. Parts(l) = q
    BY <2>5, <2>8, <2>9, <2>10, SeqEqual
  <2> QED
    BY <2>1, <2>5, <2>11 DEF l, q
<1> QED
  BY <1>1, <1>2

(* Linking a segment puts its bytes behind the unread ones.                *)
LEMMA LinkBytes ==
  ASSUME NEW c \in Seq(Pbufs), NEW sg \in (Nat \ {0}) \X Nat, arrived \in Nat
  PROVE  Bytes(Link(c, Pbuf(sg))) = Bytes(c) \o Run(sg[1] + sg[2])
<1> DEFINE a == sg[1]
           b == sg[2]
           d1 == [i \in 1..a |-> arrived + i]
           d2 == [i \in 1..b |-> arrived + a + i]
           p == Pbuf(sg)
<1>1. a \in Nat /\ b \in Nat
  OBVIOUS
<1> HIDE DEF a, b
<1>2. /\ d1 \in Seq(Nat) /\ d2 \in Seq(Nat) /\ Len(d1) = a /\ Len(d2) = b
      /\ Run(a + b) \in Seq(Nat) /\ Len(Run(a + b)) = a + b
  <2>1. /\ \A i \in 1..a : arrived + i \in Nat
        /\ \A i \in 1..b : arrived + a + i \in Nat
        /\ \A i \in 1..(a + b) : arrived + i \in Nat
    BY <1>1
  <2> QED
    BY <1>1, <2>1 DEF Run
<1>3. p \in Seq(Pbufs) /\ p # <<>>
  BY PbufType
<1>4. Parts(p) = IF b = 0 THEN <<d1>> ELSE <<d1, d2>>
  <2>1. p = IF b = 0 THEN <<[data |-> d1, tot |-> a + b]>>
            ELSE <<[data |-> d1, tot |-> a + b], [data |-> d2, tot |-> b]>>
    BY DEF Pbuf, a, b
  <2> HIDE DEF p, d1, d2
  <2>2. CASE b = 0
    BY <2>1, <2>2 DEF Parts
  <2>3. CASE b # 0
    BY <2>1, <2>3 DEF Parts
  <2> QED
    BY <2>2, <2>3
<1>5. d1 \o d2 = Run(a + b)
  <2> DEFINE q == d1 \o d2
  <2>1. /\ q \in Seq(Nat) /\ Len(q) = a + b
        /\ \A i \in 1..(a + b) : q[i] = IF i <= a THEN d1[i] ELSE d2[i - a]
    <3> HIDE DEF d1, d2
    <3> QED
      BY <1>2, ConcatProperties, ZenonT(60)
  <2>2. \A i \in 1..(a + b) : i <= a => d1[i] = arrived + i
    BY <1>1
  <2>3. ASSUME NEW i \in 1..(a + b), ~(i <= a)
        PROVE  d2[i - a] = arrived + i
    <3>1. i - a \in 1..b /\ arrived + a + (i - a) = arrived + i
      BY <1>1, <2>3
    <3> QED
      BY <3>1
  <2>4. \A i \in 1..(a + b) : Run(a + b)[i] = arrived + i
    BY DEF Run
  <2> HIDE DEF q, d1, d2
  <2>5. \A i \in 1..(a + b) : q[i] = Run(a + b)[i]
    BY <2>1, <2>2, <2>3, <2>4
  <2>6. q = Run(a + b)
    BY <1>2, <2>1, <2>5, SeqEqual
  <2> QED
    BY <2>6 DEF q
<1>6. Parts(c) \in Seq(Seq(Nat))
  BY PartsType
<1>7. Parts(Link(c, p)) = Parts(c) \o Parts(p)
  BY <1>3, LinkParts
<1> HIDE DEF a, b, d1, d2, p
<1>8. CASE b = 0
  <2>1. Parts(Link(c, p)) = Append(Parts(c), d1)
    BY <1>2, <1>4, <1>6, <1>7, <1>8, AppendIsConcat
  <2>2. d1 = Run(a + b)
    BY <1>1, <1>8 DEF Run, d1
  <2> QED
    BY <1>2, <1>6, <2>1, <2>2, FlattenAppend DEF Bytes, a, b, p
<1>9. CASE b # 0
  <2> DEFINE one == Append(Parts(c), d1)
  <2>1. one \in Seq(Seq(Nat)) /\ FlattenSeq(one) = Bytes(c) \o d1
    <3>1. FlattenSeq(one) = FlattenSeq(Parts(c)) \o d1
      BY <1>2, <1>6, FlattenAppend, Zenon
    <3>2. one \in Seq(Seq(Nat))
      BY <1>2, <1>6, AppendProperties, Zenon
    <3> QED
      BY <3>1, <3>2 DEF Bytes
  <2>2. Parts(Link(c, p)) = Append(one, d2)
    BY <1>2, <1>4, <1>6, <1>7, <1>9
  <2> HIDE DEF one
  <2>3. Bytes(Link(c, p)) = (Bytes(c) \o d1) \o d2
    BY <1>2, <2>1, <2>2, FlattenAppend DEF Bytes
  <2>4. (Bytes(c) \o d1) \o d2 = Bytes(c) \o (d1 \o d2)
    <3>1. Bytes(c) \in Seq(Nat)
      BY BytesType
    <3> QED
      BY <1>2, <3>1, AssociativeNat, ZenonT(60)
  <2> QED
    BY <1>5, <2>3, <2>4 DEF a, b, p
<1> QED
  BY <1>8, <1>9

(* A read takes its bytes from the front of the unread ones.               *)
LEMMA ConsumeBytes ==
  ASSUME NEW c \in Seq(Pbufs), NEW i \in 1..Len(c), IsFront(c, i),
         NEW k \in Nat, k <= Len(c[i].data), Consume(c, i, k) \in Seq(Pbufs)
  PROVE  Bytes(c) = SubSeq(c[i].data, 1, k) \o Bytes(Consume(c, i, k))
<1> DEFINE d == c[i].data
           x == SubSeq(d, 1, k)
           rest == SubSeq(d, k + 1, Len(d))
           new == Consume(c, i, k)
<1>1. d \in Seq(Nat) /\ Len(d) \in Nat
  BY PartsType
<1>2. x \in Seq(Nat) /\ x \o rest = d
  BY <1>1, SplitSeq
<1>3. /\ Len(new) = Len(c)
      /\ \A j \in 1..Len(c) : new[j].data = IF j = i THEN rest ELSE c[j].data
  BY DEF Consume
<1>4. \A j \in 1..(i - 1) : c[j].data = <<>>
  BY DEF IsFront
<1> DEFINE s == Parts(c)
           t == Parts(new)
<1>5. s \in Seq(Seq(Nat)) /\ Len(s) = Len(c) /\ \A j \in 1..Len(c) : s[j] = c[j].data
  BY PartsType
<1>6. t \in Seq(Seq(Nat)) /\ Len(t) = Len(c) /\ \A j \in 1..Len(c) : t[j] = new[j].data
  BY <1>3, PartsType
<1> HIDE DEF d, x, rest, new, s, t
<1>7. s[i] = x \o t[i]
  BY <1>2, <1>3, <1>5, <1>6 DEF d
<1>8. ASSUME NEW j \in 1..(i - 1)
      PROVE  s[j] = <<>> /\ t[j] = <<>>
  <2>1. j \in 1..Len(c) /\ j # i
    BY LenProperties
  <2> QED
    BY <1>3, <1>4, <1>5, <1>6, <2>1
<1>9. ASSUME NEW j \in (i + 1)..Len(c)
      PROVE  s[j] = t[j]
  <2>1. j \in 1..Len(c) /\ j # i
    BY LenProperties
  <2> QED
    BY <1>3, <1>5, <1>6, <2>1
<1>10. Len(t) = Len(s) /\ i \in 1..Len(s)
  BY <1>5, <1>6
<1>11. \A j \in (i + 1)..Len(s) : s[j] = t[j]
  BY <1>5, <1>9
<1>12. \A j \in 1..(i - 1) : s[j] = <<>> /\ t[j] = <<>>
  BY <1>8, Zenon
<1>13. FlattenSeq(s) = x \o FlattenSeq(t)
  <2>1. TakenInFront(Nat, s, t, i, x)
    BY <1>2, <1>5, <1>6, <1>7, <1>10, <1>11, <1>12, Zenon DEF TakenInFront
  <2> QED
    BY <2>1, FlattenFront
<1> QED
  BY <1>13 DEF Bytes, new, x, d, s, t

(* The head of the chain totals the bytes of the chain.                    *)
Summed(c) == c # <<>> => c[1].tot = Len(Bytes(c))

LEMMA LinkSummed ==
  ASSUME NEW c \in Seq(Pbufs), Summed(c), NEW sg \in (Nat \ {0}) \X Nat, arrived \in Nat
  PROVE  Summed(Link(c, Pbuf(sg)))
<1> DEFINE n == sg[1] + sg[2]
           p == Pbuf(sg)
<1>1. p \in Seq(Pbufs) /\ p # <<>>
  BY PbufType
<1>2. p[1].tot = n /\ n \in Nat
  BY DEF Pbuf
<1>3. Len(Run(n)) = n /\ Run(n) \in Seq(Nat)
  <2> HIDE DEF n
  <2>1. \A i \in 1..n : arrived + i \in Nat
    BY <1>2
  <2> QED
    BY <1>2, <2>1 DEF Run
<1>4. Bytes(Link(c, p)) = Bytes(c) \o Run(n) /\ Bytes(c) \in Seq(Nat)
  BY LinkBytes, BytesType
<1> HIDE DEF n, p
<1>5. Len(Bytes(Link(c, p))) = Len(Bytes(c)) + n
  BY <1>2, <1>3, <1>4
<1>6. CASE c = <<>>
  <2>1. Link(c, p) = p
    BY <1>6 DEF Link
  <2>2. Parts(c) = <<>>
    BY <1>6 DEF Parts
  <2>3. Len(Bytes(c)) = 0
    BY <2>2, FlattenEmpty DEF Bytes
  <2> QED
    BY <1>2, <1>5, <2>1, <2>3 DEF Summed, p
<1>7. CASE c # <<>>
  <2> DEFINE up == [i \in 1..Len(c) |-> [c[i] EXCEPT !.tot = @ + p[1].tot]]
  <2>1. Link(c, p) = up \o p
    BY <1>7 DEF Link
  <2>2. c[1] \in Pbufs /\ 1 \in 1..Len(c) /\ Len(c) \in Nat
    BY <1>7
  <2>3. up[1] = [c[1] EXCEPT !.tot = @ + p[1].tot]
    BY <2>2
  <2>4. up[1].tot = c[1].tot + n
    BY <1>2, <2>2, <2>3 DEF Pbufs
  <2>5. (up \o p)[1] = up[1]
    <3>1. Len(up) = Len(c) /\ up \in Seq(Range(up))
      BY <2>2 DEF Range
    <3> HIDE DEF up
    <3> QED
      BY <1>1, <2>2, <3>1
  <2> QED
    BY <1>5, <1>7, <2>1, <2>4, <2>5 DEF Summed, p
<1> QED
  BY <1>6, <1>7

LEMMA ConsumeSummed ==
  ASSUME NEW c \in Seq(Pbufs), Counted(c), Covers(c), Summed(c),
         NEW i \in 1..Len(c), IsFront(c, i), NEW k \in Nat, k <= Len(c[i].data)
  PROVE  Summed(Consume(c, i, k))
<1> DEFINE new == Consume(c, i, k)
           x == SubSeq(c[i].data, 1, k)
<1>1. new \in Seq(Pbufs)
  BY ConsumeType
<1>2. Bytes(c) = x \o Bytes(new)
  BY <1>1, ConsumeBytes
<1>3. x \in Seq(Nat) /\ Len(x) = k /\ Bytes(new) \in Seq(Nat)
  <2>1. c[i].data \in Seq(Nat)
    BY PartsType
  <2>2. Bytes(new) \in Seq(Nat)
    BY <1>1, BytesType
  <2> QED
    BY <2>1, <2>2, SplitSeq
<1>4. c # <<>> /\ 1 \in 1..Len(c) /\ c[1].tot = c[i].tot
  BY DEF Counted
<1>5. new[1].tot = c[i].tot - k
  BY <1>4 DEF Consume
<1>6. c[i].tot = Len(Bytes(c))
  BY <1>4 DEF Summed
<1> HIDE DEF new, x
<1>7. Len(Bytes(c)) = k + Len(Bytes(new)) /\ Len(Bytes(new)) \in Nat
  <2>1. Len(x \o Bytes(new)) = Len(x) + Len(Bytes(new))
    BY <1>3, ConcatProperties
  <2>2. Len(Bytes(new)) \in Nat
    BY <1>3, LenProperties
  <2> QED
    BY <1>2, <1>3, <2>1, <2>2
<1> QED
  BY <1>5, <1>6, <1>7 DEF Summed, new

AllSummed == \A c \in Chains : Summed(c)

LEMMA InitSummed == Init => AllSummed
BY DEF Init, AllSummed, Chains, Summed

LEMMA NextSummed == IInv /\ DrainInv /\ AllSummed /\ [Next]_vars => AllSummed'
<1> SUFFICES ASSUME IInv, DrainInv, AllSummed, [Next]_vars
             PROVE  \A c \in Chains' : Summed(c)
  BY DEF AllSummed, Summed, Bytes, Parts
<1>1. /\ TypeOK /\ AllCover /\ chain \in Seq(Pbufs) /\ arrived \in Nat
      /\ seg \in (Nat \ {0}) \X Nat
      /\ Covers(chain) /\ Counted(chain) /\ Summed(chain)
  BY DEF IInv, TypeOK, AllCover, DrainInv, AllSummed, Chains
<1>2. ASSUME remains' = remains, Summed(chain')
      PROVE  \A c \in Chains' : Summed(c)
  BY <1>2 DEF AllSummed, Chains
<1>3. CASE RecvLink
  <2>1. chain' = Link(chain, Pbuf(seg)) /\ remains' = remains
    BY <1>3 DEF RecvLink, past
  <2> QED
    BY <1>1, <1>2, <2>1, LinkSummed
<1>4. ASSUME NEW n \in Requests, ReadBody(n), ~Drained(chain)
      PROVE  \A c \in Chains' : Summed(c)
  <2>1. PICK i \in 1..Len(chain) : \E k \in Nat :
          /\ IsFront(chain, i) /\ k <= Len(chain[i].data)
          /\ chain' = Consume(chain, i, k)
    BY <1>1, <1>4, ReadTakes
  <2>2. Summed(chain')
    BY <1>1, <2>1, ConsumeSummed
  <2>3. remains' = remains
    BY <1>4 DEF ReadBody, past
  <2> QED
    BY <1>2, <2>2, <2>3
<1>5. CASE Moves
  <2>1. Summed(<<>>)
    BY DEF Summed
  <2> QED
    BY <1>5, <2>1, MovesKeep DEF AllSummed
<1> QED
  BY <1>3, <1>4, <1>5, ChainChanges

(* The tot_len of the first pbuf counts the unread bytes of the whole      *)
(* chain, for segments and requests of every size and for every            *)
(* interleaving of tcp_client_recv with the reads: read_buffer_free, which *)
(* looks at it alone, never takes a chain with data for an empty one.      *)
THEOREM TotLenSumHolds == Spec => []TotLenSum
<1>1. Init => IInv /\ DrainInv /\ AllSummed
  BY InitIInv, InitDrained, InitSummed
<1>2. IInv /\ DrainInv /\ AllSummed /\ [Next]_vars => (IInv /\ DrainInv /\ AllSummed)'
  BY NextTypeOK, NextControl, NextDrained, NextSummed DEF IInv
<1>3. AllSummed => TotLenSum
  BY DEF AllSummed, Chains, Summed, TotLenSum, Unread, Bytes, Parts
<1> QED
  BY <1>1, <1>2, <1>3, PTL DEF Spec

-----------------------------------------------------------------------------
(* The refinement of ByteStream.                                           *)

(* The segment in tcp_client_recv is one the stack may deliver.            *)
SegInv == core = "recv" => seg \in Segments

LEMMA NextSeg == SegInv /\ [Next]_vars => SegInv'
<1> SUFFICES ASSUME SegInv, [Next]_vars PROVE SegInv'
  OBVIOUS
<1> USE DEF SegInv
<1>1. CASE Peer
  BY <1>1 DEF Peer, Connected, Unresolved, ConnectFails, Connectable, SegmentArrives,
     FinArrives
<1>2. CASE Tcpip \/ TxDrained
  BY <1>2 DEF Tcpip, RecvLink, RecvEnd, RecvDrop, RecvFin, PollCloses, CallbackCloses,
     CallbackAfterFree, WildUsed, TxDrained
<1>3. CASE Arduino
  BY <1>3 DEF Arduino, ReadWakes, ReadTimeout, ReadBody, ReadNull, FreeCheck, FreeBody,
     CloseWhenClosed, CloseRequest, CloseWhenClosing, CloseTimeout, CloseDone
<1>6. CASE Watchdog
  BY <1>6 DEF Watchdog
<1>4. CASE Sketch
  BY <1>4 DEF Sketch, Write, CloseCall, ReadCall
<1>5. CASE UNCHANGED vars
  BY <1>5 DEF vars
<1> QED
  BY <1>1, <1>2, <1>3, <1>4, <1>5, <1>6 DEF Next

LEMMA UnreadIs ==
  /\ Unread = Bytes(chain) /\ Unread' = Bytes(chain')
  /\ {Bytes(c) : c \in remains}' = {Bytes(c) : c \in remains'}
BY DEF Unread, Bytes, Parts

LEMMA NoBytes == Bytes(<<>>) = <<>>
<1>1. Parts(<<>>) = <<>>
  BY DEF Parts
<1> QED
  BY <1>1, FlattenEmpty DEF Bytes

LEMMA InitStream == Init => Stream!Init
BY UnreadIs, NoBytes DEF Init, Stream!Init

(* A chain that is not drained has bytes: those of its front.              *)
LEMMA SomeBytes ==
  ASSUME NEW c \in Seq(Pbufs), Covers(c), ~Drained(c)
  PROVE  Bytes(c) # <<>>
<1> DEFINE S == {i \in 1..Len(c) : c[i].data # <<>>}
<1>1. S \in SUBSET Nat /\ S # {}
  BY DEF Drained
<1>2. PICK i \in S : \A j \in S : i <= j
  BY <1>1, LeastElement
<1>3. i \in 1..Len(c) /\ c[i].data # <<>> /\ c[i].data \in Seq(Nat)
  BY PartsType
<1>4. IsFront(c, i)
  <2>1. ASSUME NEW j \in 1..(i - 1), c[j].data # <<>>
        PROVE  FALSE
    <3>1. j \in 1..Len(c) /\ ~(i <= j)
      BY <1>3, LenProperties
    <3>2. j \in S
      BY <2>1, <3>1
    <3> QED
      BY <1>2, <3>1, <3>2
  <2> QED
    BY <1>3, <2>1 DEF IsFront
<1> DEFINE k == Len(c[i].data)
           x == SubSeq(c[i].data, 1, k)
           new == Consume(c, i, k)
<1>5. k \in Nat /\ k # 0 /\ k <= Len(c[i].data)
  BY <1>3
<1>6. new \in Seq(Pbufs)
  BY <1>3, <1>4, <1>5, ConsumeType
<1>7. Bytes(c) = x \o Bytes(new)
  BY <1>3, <1>4, <1>5, <1>6, ConsumeBytes
<1>8. x \in Seq(Nat) /\ Len(x) = k /\ Bytes(new) \in Seq(Nat)
  BY <1>3, <1>5, <1>6, SplitSeq, BytesType
<1> HIDE DEF k, x, new
<1>9. Len(x \o Bytes(new)) # 0
  BY <1>5, <1>8
<1> QED
  BY <1>7, <1>9

(* The numbers of the bytes of a chain.  They are numbers that arrived,    *)
(* and no two chains have one in common.                                   *)
Nums(c) == Range(Bytes(c))

Apart == /\ \A c \in Chains : Nums(c) \subseteq 1..arrived
         /\ \A c \in remains : Nums(c) \cap Nums(chain) = {}
         /\ \A c, d \in remains : c = d \/ Nums(c) \cap Nums(d) = {}

LEMMA NoNums == Nums(<<>>) = {}
BY NoBytes DEF Nums, Range

LEMMA ConcatRange ==
  ASSUME NEW u \in Seq(Nat), NEW v \in Seq(Nat)
  PROVE  Range(u \o v) = Range(u) \cup Range(v)
<1> DEFINE w == u \o v
<1>1. /\ Len(u) \in Nat /\ Len(v) \in Nat
      /\ DOMAIN u = 1..Len(u) /\ DOMAIN v = 1..Len(v)
  BY LenProperties
<1>2. /\ DOMAIN w = 1..(Len(u) + Len(v))
      /\ \A i \in 1..(Len(u) + Len(v)) : w[i] = IF i <= Len(u) THEN u[i] ELSE v[i - Len(u)]
  BY <1>1, ConcatProperties, LenProperties
<1> HIDE DEF w
<1>3. ASSUME NEW i \in DOMAIN w
      PROVE  w[i] \in Range(u) \cup Range(v)
  <2>1. CASE i <= Len(u)
    <3>1. i \in DOMAIN u
      BY <1>1, <1>2, <2>1
    <3> QED
      BY <1>2, <2>1, <3>1 DEF Range
  <2>2. CASE ~(i <= Len(u))
    <3>1. i - Len(u) \in DOMAIN v
      BY <1>1, <1>2, <2>2
    <3> QED
      BY <1>2, <2>2, <3>1 DEF Range
  <2> QED
    BY <2>1, <2>2
<1>4. ASSUME NEW i \in DOMAIN u
      PROVE  u[i] \in Range(w)
  <2>1. i \in DOMAIN w /\ w[i] = u[i]
    BY <1>1, <1>2
  <2> QED
    BY <2>1 DEF Range
<1>5. ASSUME NEW i \in DOMAIN v
      PROVE  v[i] \in Range(w)
  <2>0. i \in 1..Len(v)
    BY <1>1
  <2>1. /\ Len(u) + i \in DOMAIN w /\ ~(Len(u) + i <= Len(u))
        /\ (Len(u) + i) - Len(u) = i
    <3>1. /\ Len(u) + i \in 1..(Len(u) + Len(v)) /\ ~(Len(u) + i <= Len(u))
          /\ (Len(u) + i) - Len(u) = i
      BY <1>1, <2>0, SMTT(30)
    <3> QED
      BY <1>2, <3>1, Zenon
  <2>2. w[Len(u) + i] = v[i]
    BY <1>2, <2>1
  <2> QED
    BY <2>1, <2>2 DEF Range
<1>6. Range(w) \subseteq Range(u) \cup Range(v)
  BY <1>3 DEF Range
<1>7. Range(u) \subseteq Range(w) /\ Range(v) \subseteq Range(w)
  BY <1>4, <1>5 DEF Range
<1> QED
  BY <1>6, <1>7 DEF w

LEMMA InitApart == Init => Apart
BY NoNums DEF Init, Apart, Chains

(* A segment brings numbers that no chain has yet; a read takes some away. *)
LEMMA NextApart == IInv /\ Apart /\ [Next]_vars => Apart'
<1> SUFFICES ASSUME IInv, Apart, [Next]_vars
             PROVE  /\ \A c \in Chains' : Nums(c) \subseteq 1..arrived'
                    /\ \A c \in remains' : Nums(c) \cap Nums(chain') = {}
                    /\ \A c, d \in remains' : c = d \/ Nums(c) \cap Nums(d) = {}
  BY DEF Apart, Nums, Range, Bytes, Parts
<1>1. /\ TypeOK /\ AllCover /\ chain \in Seq(Pbufs) /\ Covers(chain) /\ arrived \in Nat
      /\ seg \in (Nat \ {0}) \X Nat
      /\ \A c \in remains \cup {chain} : Nums(c) \subseteq 1..arrived
      /\ \A c \in remains : Nums(c) \cap Nums(chain) = {}
      /\ \A c, d \in remains : c = d \/ Nums(c) \cap Nums(d) = {}
  BY DEF IInv, TypeOK, AllCover, Apart, Chains
<1>2. CASE RecvLink
  <2> DEFINE n == seg[1] + seg[2]
  <2>1. chain' = Link(chain, Pbuf(seg)) /\ remains' = remains /\ arrived' = arrived + n
    BY <1>1, <1>2, RecvLinkIs
  <2>2. n \in Nat
    BY <1>1
  <2> HIDE DEF n
  <2>3. Run(n) \in Seq(Nat) /\ Len(Run(n)) = n /\ \A i \in 1..n : Run(n)[i] = arrived + i
    <3>1. \A i \in 1..n : arrived + i \in Nat
      BY <1>1, <2>2
    <3> QED
      BY <2>2, <3>1 DEF Run
  <2>4. Bytes(chain) \in Seq(Nat) /\ Bytes(chain') = Bytes(chain) \o Run(n)
    BY <1>1, <2>1, BytesType, LinkBytes DEF n
  <2>5. Nums(chain') \subseteq Nums(chain) \cup ((arrived + 1)..(arrived + n))
    <3>1. Range(Run(n)) \subseteq (arrived + 1)..(arrived + n)
      BY <1>1, <2>2, <2>3 DEF Range
    <3>2. Nums(chain') = Nums(chain) \cup Range(Run(n))
      BY <2>3, <2>4, ConcatRange DEF Nums
    <3> QED
      BY <3>1, <3>2
  <2>6. /\ 1..arrived \subseteq 1..arrived'
        /\ (arrived + 1)..(arrived + n) \subseteq 1..arrived'
        /\ 1..arrived \cap (arrived + 1)..(arrived + n) = {}
    BY <1>1, <2>1, <2>2
  <2>7. \A c \in Chains' : Nums(c) \subseteq 1..arrived'
    BY <1>1, <2>1, <2>5, <2>6 DEF Chains
  <2>8. \A c \in remains' : Nums(c) \cap Nums(chain') = {}
    BY <1>1, <2>1, <2>5, <2>6
  <2> QED
    BY <1>1, <2>1, <2>7, <2>8
<1>3. ASSUME NEW n \in Requests, ReadBody(n), ~Drained(chain)
      PROVE  /\ \A c \in Chains' : Nums(c) \subseteq 1..arrived'
             /\ \A c \in remains' : Nums(c) \cap Nums(chain') = {}
             /\ \A c, d \in remains' : c = d \/ Nums(c) \cap Nums(d) = {}
  <2>1. remains' = remains /\ arrived' = arrived /\ chain' \in Seq(Pbufs)
    BY <1>1, <1>3, ReadBodyIs
  <2>2. PICK i \in 1..Len(chain) : \E k \in Nat :
          /\ IsFront(chain, i) /\ k <= Len(chain[i].data)
          /\ chain' = Consume(chain, i, k)
    BY <1>1, <1>3, ReadTakes
  <2>3. PICK k \in Nat :
          /\ IsFront(chain, i) /\ k <= Len(chain[i].data)
          /\ chain' = Consume(chain, i, k)
    BY <2>2
  <2> DEFINE x == SubSeq(chain[i].data, 1, k)
  <2>4. Bytes(chain) = x \o Bytes(chain')
    BY <1>1, <2>1, <2>3, ConsumeBytes
  <2>5. x \in Seq(Nat) /\ Bytes(chain') \in Seq(Nat)
    <3>1. chain[i].data \in Seq(Nat)
      BY <1>1, PartsType
    <3> QED
      BY <2>1, <2>3, <3>1, SplitSeq, BytesType
  <2> HIDE DEF x
  <2>6. Nums(chain') \subseteq Nums(chain)
    BY <2>4, <2>5, ConcatRange DEF Nums
  <2>7. \A c \in remains' \cup {chain'} : Nums(c) \subseteq 1..arrived'
    BY <1>1, <2>1, <2>6
  <2>8. \A c \in remains' : Nums(c) \cap Nums(chain') = {}
    BY <1>1, <2>1, <2>6
  <2> QED
    BY <1>1, <2>1, <2>7, <2>8 DEF Chains
<1>4. CASE Moves
  <2>1. \A c \in Chains' : Nums(c) \subseteq 1..arrived'
    BY <1>1, <1>4, MovesKeep, NoNums DEF Moves, Chains
  <2>2. \A c \in remains' : Nums(c) \cap Nums(chain') = {}
    BY <1>1, <1>4, NoNums DEF Moves, Stays, Drops, Leaves, Takes, Resets
  <2>3. \A c, d \in remains' : c = d \/ Nums(c) \cap Nums(d) = {}
    BY <1>1, <1>4, NoNums DEF Moves, Stays, Drops, Leaves, Takes, Resets
  <2> QED
    BY <2>1, <2>2, <2>3
<1> QED
  BY <1>2, <1>3, <1>4, ChainChanges

(* Chains that stayed behind differ in their bytes.                        *)
LEMMA BytesDiffer ==
  ASSUME IInv, DrainInv, Apart, NEW c \in remains, NEW d \in remains, Bytes(c) = Bytes(d)
  PROVE  c = d
<1>1. c \in Seq(Pbufs) /\ Covers(c) /\ ~Drained(c)
  BY DEF IInv, TypeOK, AllCover, Chains, DrainInv
<1>2. Bytes(c) # <<>> /\ Bytes(c) \in Seq(Nat)
  BY <1>1, SomeBytes, BytesType
<1>3. 1 \in DOMAIN Bytes(c)
  BY <1>2
<1>4. Nums(c) # {} /\ Nums(c) = Nums(d)
  BY <1>3 DEF Nums, Range
<1> QED
  BY <1>4 DEF Apart

(* A segment is accepted as a whole.                                       *)
LEMMA RecvStream ==
  ASSUME IInv, SegInv, RecvLink
  PROVE  Stream!Next
<1> DEFINE n == seg[1] + seg[2]
<1>1. chain \in Seq(Pbufs) /\ arrived \in Nat /\ seg \in (Nat \ {0}) \X Nat
  BY DEF IInv, TypeOK
<1>2. seg \in Segments
  BY DEF RecvLink, SegInv
<1>3. n \in {sg[1] + sg[2] : sg \in Segments}
  BY <1>2
<1>4. Bytes(chain') = Bytes(chain) \o Run(n)
  BY <1>1, LinkBytes DEF RecvLink
<1>5. arrived' = arrived + n /\ out' = out /\ remains' = remains
  BY <1>1 DEF RecvLink, past
<1> HIDE DEF n
<1>6. Stream!Accept(n)
  BY <1>4, <1>5, UnreadIs DEF Stream!Accept, Run
<1> QED
  BY <1>3, <1>6 DEF Stream!Next

(* A read delivers bytes from the front.                                   *)
LEMMA ReadStream ==
  ASSUME IInv, NEW n \in Requests, ReadBody(n), ~Drained(chain)
  PROVE  Stream!Next
<1>1. /\ TypeOK /\ AllCover /\ chain \in Seq(Pbufs)
      /\ chain' \in Seq(Pbufs) /\ remains' = remains /\ arrived' = arrived
  BY ReadBodyIs DEF IInv, TypeOK
<1>2. PICK i \in 1..Len(chain) : \E k \in Nat :
        /\ IsFront(chain, i) /\ k <= Len(chain[i].data)
        /\ out' = SubSeq(chain[i].data, 1, k)
        /\ chain' = Consume(chain, i, k)
  BY <1>1, ReadTakes
<1>3. PICK k \in Nat :
        /\ IsFront(chain, i) /\ k <= Len(chain[i].data)
        /\ out' = SubSeq(chain[i].data, 1, k)
        /\ chain' = Consume(chain, i, k)
  BY <1>2
<1> DEFINE d == chain[i].data
           x == SubSeq(d, 1, k)
           b == Bytes(chain')
<1>4. Bytes(chain) = x \o b
  BY <1>1, <1>3, ConsumeBytes
<1>5. x \in Seq(Nat) /\ Len(x) = k
  <2>1. d \in Seq(Nat)
    BY <1>1, PartsType
  <2> QED
    BY <1>3, <2>1, SplitSeq
<1>6. b \in Seq(Nat)
  BY <1>1, BytesType
<1>7. out' = x
  BY <1>3
<1> HIDE DEF d, x, b
<1>8. /\ k \in 0..Len(x \o b) /\ SubSeq(x \o b, 1, k) = x
      /\ SubSeq(x \o b, k + 1, Len(x \o b)) = b
  BY <1>5, <1>6, ConcatSplits
<1>9. Stream!Deliver(k)
  BY <1>1, <1>4, <1>7, <1>8, UnreadIs DEF Stream!Deliver, b
<1> QED
  BY <1>4, <1>8, <1>9, UnreadIs DEF Stream!Next

(* Chains that are dropped, left behind or taken over are so as a whole.   *)
LEMMA MovesStream ==
  ASSUME IInv, DrainInv, Apart, Moves
  PROVE  Stream!Next \/ UNCHANGED Stream!vars
<1>1. out' = out /\ arrived' = arrived
  BY DEF Moves
<1>2. CASE Stays
  BY <1>1, <1>2, UnreadIs DEF Stays, Stream!vars
<1>3. CASE Drops
  <2>1. Stream!Discard
    BY <1>1, <1>3, UnreadIs, NoBytes DEF Drops, Stream!Discard
  <2> QED
    BY <2>1 DEF Stream!Next
<1>4. CASE Leaves
  <2>1. chain' = <<>> /\ remains' = remains \cup ({chain} \ {<<>>})
    BY <1>4 DEF Leaves
  <2>2. CASE chain = <<>>
    <3>1. remains' = remains
      BY <2>1, <2>2
    <3>2. Stream!Discard
      BY <1>1, <2>1, <3>1, UnreadIs, NoBytes DEF Stream!Discard
    <3> QED
      BY <3>2 DEF Stream!Next
  <2>3. CASE chain # <<>>
    <3>1. chain \in Seq(Pbufs) /\ Covers(chain) /\ ~Drained(chain)
      BY <1>4, <2>3 DEF Leaves, IInv, TypeOK, AllCover, Chains, DrainInv
    <3>2. Bytes(chain) # <<>>
      BY <3>1, SomeBytes
    <3>3. {Bytes(c) : c \in remains'} = {Bytes(c) : c \in remains} \cup {Bytes(chain)}
      BY <2>1, <2>3
    <3>4. Stream!Leave
      BY <1>1, <2>1, <3>2, <3>3, UnreadIs, NoBytes DEF Stream!Leave
    <3> QED
      BY <3>4 DEF Stream!Next
  <2> QED
    BY <2>2, <2>3
<1>5. CASE Takes
  <2>1. chain' \in remains /\ remains' = remains \ {chain'}
    BY <1>5 DEF Takes
  <2>2. \A c \in remains : Bytes(c) = Bytes(chain') => c = chain'
    BY <2>1, BytesDiffer
  <2>3. {Bytes(c) : c \in remains'} = {Bytes(c) : c \in remains} \ {Bytes(chain')}
    BY <2>1, <2>2
  <2>4. Stream!Resume(Bytes(chain'))
    BY <1>1, <2>3, UnreadIs DEF Stream!Resume
  <2>5. Bytes(chain') \in {Bytes(c) : c \in remains}
    BY <2>1
  <2> QED
    BY <2>4, <2>5 DEF Stream!Next
<1>6. CASE Resets
  <2>1. {Bytes(c) : c \in remains'} = {}
    BY <1>6 DEF Resets
  <2>2. Stream!Reset
    BY <1>1, <1>6, <2>1, UnreadIs, NoBytes DEF Resets, Stream!Reset
  <2> QED
    BY <2>2 DEF Stream!Next
<1> QED
  BY <1>2, <1>3, <1>4, <1>5, <1>6 DEF Moves

LEMMA NextStream ==
  IInv /\ DrainInv /\ SegInv /\ Apart /\ [Next]_vars => [Stream!Next]_(Stream!vars)
<1> SUFFICES ASSUME IInv, DrainInv, SegInv, Apart, [Next]_vars
             PROVE  Stream!Next \/ UNCHANGED Stream!vars
  OBVIOUS
<1> QED
  BY RecvStream, ReadStream, MovesStream, ChainChanges

(* The receive path implements ByteStream, whatever the sizes of segments  *)
(* and reads: the bytes the stack acknowledged come out once, in order and *)
(* without a hole until everything unread is thrown away at once, or stays *)
(* behind in a freed block, where it is whole until a later connection     *)
(* begins with it.                                                         *)
THEOREM RxImplementsByteStream == Spec => ByteStreamSpec
<1>1. Init => IInv /\ DrainInv /\ SegInv /\ Apart
  BY InitIInv, InitDrained, InitApart DEF Init, SegInv
<1>2. IInv /\ DrainInv /\ SegInv /\ Apart /\ [Next]_vars
        => (IInv /\ DrainInv /\ SegInv /\ Apart)'
  BY NextTypeOK, NextControl, NextDrained, NextSeg, NextApart DEF IInv
<1> QED
  BY InitStream, NextStream, <1>1, <1>2, PTL DEF Spec, ByteStreamSpec, Stream!Spec
=============================================================================
