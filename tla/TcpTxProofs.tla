---------------------------- MODULE TcpTxProofs ----------------------------
(***************************************************************************)
(* Proofs about the transmit path, for any pool, send buffer and sizes of  *)
(* writes: the order of what is sent, when freed memory can be used, and   *)
(* the three ways in which a pbuf is lost.                                 *)
(***************************************************************************)
EXTENDS TcpTx, TLAPS

Open == {"CONNECTED", "CLOSING"}

(* The lwIP callbacks are registered only on an open connection.           *)
RegisteredOpen == registered => state \in Open

(* There is no chain without a struct client, and the loop is past the     *)
(* tcp_write of a pbuf only if there was one.                              *)
ChainThere ==
  /\ state = "NONE" => chain = <<>> /\ ard = "idle"
  /\ core = "free" => chain # <<>> \/ state = "NONE"

(* On an open connection no pbuf of the chain is freed, nor on one that    *)
(* the callbacks have closed and that may be written to; after the close   *)
(* that a disconnect waits for all of them are.                            *)
ChainLive ==
  /\ state \in Open => Range(chain) \subseteq live
  /\ state = "CLOSED" /\ ard = "idle" => Range(chain) \subseteq live
  /\ state = "CLOSED" /\ ard = "wait" => Range(chain) \cap live = {}

(* The numbers grow along what was sent and on along the chain; between    *)
(* tcp_write and the freeing the first of the chain is the last sent.      *)
Ordered ==
  /\ Increasing(chain) /\ Increasing(sent)
  /\ \A i \in DOMAIN sent, j \in DOMAIN chain :
       IF core = "free" THEN sent[i] <= chain[j] ELSE sent[i] < chain[j]

(* What does not depend on the data.                                       *)
Control == RegisteredOpen /\ ChainThere /\ FaultOnlyAfterForce

(* The inductive invariant.                                                *)
IInv == TypeOK /\ Control /\ ChainLive /\ Ordered

-----------------------------------------------------------------------------
(* The operators.                                                          *)

New(w, n) == [i \in 1..n |-> w + i]

LEMMA NewIs ==
  ASSUME NEW w \in Nat, NEW n \in Nat \ {0}
  PROVE  /\ New(w, n) \in Seq(1..(w + n)) /\ Len(New(w, n)) = n
         /\ \A i \in 1..n : New(w, n)[i] = w + i
         /\ Increasing(New(w, n))
         /\ Range(New(w, n)) \subseteq (w + 1)..(w + n)
<1>1. /\ New(w, n) \in Seq(1..(w + n)) /\ Len(New(w, n)) = n
      /\ \A i \in 1..n : New(w, n)[i] = w + i
      /\ DOMAIN New(w, n) = 1..n
  BY DEF New
<1>2. Increasing(New(w, n))
  BY <1>1 DEF Increasing
<1>3. Range(New(w, n)) \subseteq (w + 1)..(w + n)
  BY <1>1 DEF Range
<1> QED
  BY <1>1, <1>2, <1>3

(* The first of an increasing sequence does not come again.                *)
LEMMA TailIs ==
  ASSUME NEW w \in Nat, NEW c \in Seq(1..w), c # <<>>, Increasing(c)
  PROVE  /\ Tail(c) \in Seq(1..w) /\ Len(Tail(c)) = Len(c) - 1
         /\ \A i \in 1..(Len(c) - 1) : Tail(c)[i] = c[i + 1]
         /\ c[1] \in 1..w /\ 1 \in DOMAIN c
         /\ Increasing(Tail(c))
         /\ Range(Tail(c)) \subseteq Range(c)
         /\ c[1] \in Range(c) /\ c[1] \notin Range(Tail(c))
         /\ Range(c) = Range(Tail(c)) \cup {c[1]}
<1>1. /\ Tail(c) \in Seq(1..w) /\ Len(Tail(c)) = Len(c) - 1
      /\ \A i \in 1..(Len(c) - 1) : Tail(c)[i] = c[i + 1]
      /\ DOMAIN c = 1..Len(c) /\ Len(c) \in Nat \ {0}
      /\ DOMAIN Tail(c) = 1..(Len(c) - 1)
  OBVIOUS
<1>2. c[1] \in 1..w /\ 1 \in DOMAIN c
  BY <1>1
<1>3. Increasing(Tail(c))
  BY <1>1, SMTT(30) DEF Increasing
<1>4. Range(Tail(c)) \subseteq Range(c) /\ c[1] \in Range(c)
  <2>1. \A i \in 1..(Len(c) - 1) : Tail(c)[i] \in Range(c)
    BY <1>1 DEF Range
  <2> QED
    BY <2>1, <1>1, <1>2 DEF Range
<1>5. ASSUME NEW i \in DOMAIN Tail(c)
      PROVE  c[1] < Tail(c)[i]
  <2>1. i \in 1..(Len(c) - 1) /\ (i + 1) \in DOMAIN c /\ 1 < i + 1
    BY <1>1
  <2>2. c[1] < c[i + 1]
    BY <2>1, <1>2 DEF Increasing
  <2> QED
    BY <2>1, <2>2, <1>1
<1>6. c[1] \notin Range(Tail(c))
  BY <1>1, <1>2, <1>5 DEF Range
<1>7. Range(c) \subseteq Range(Tail(c)) \cup {c[1]}
  <2>1. ASSUME NEW i \in 1..Len(c), i # 1
        PROVE  c[i] \in Range(Tail(c))
    <3>1. (i - 1) \in DOMAIN Tail(c) /\ Tail(c)[i - 1] = c[i]
      BY <2>1, <1>1
    <3> QED
      BY <3>1 DEF Range
  <2> QED
    BY <2>1, <1>1 DEF Range
<1> QED
  BY <1>1, <1>2, <1>3, <1>4, <1>6, <1>7

(* Adding to the end.                                                      *)
LEMMA JoinIs ==
  ASSUME NEW w \in Nat, NEW a \in Seq(1..w), NEW b \in Seq(1..w),
         Increasing(a), Increasing(b),
         \A i \in DOMAIN a, j \in DOMAIN b : a[i] < b[j]
  PROVE  /\ a \o b \in Seq(1..w) /\ Len(a \o b) = Len(a) + Len(b)
         /\ Increasing(a \o b)
         /\ \A i \in DOMAIN (a \o b) :
              \/ i \in DOMAIN a /\ (a \o b)[i] = a[i]
              \/ (i - Len(a)) \in DOMAIN b /\ (a \o b)[i] = b[i - Len(a)]
         /\ Range(a \o b) = Range(a) \cup Range(b)
<1>1. /\ a \o b \in Seq(1..w) /\ Len(a \o b) = Len(a) + Len(b)
      /\ Len(a) \in Nat /\ Len(b) \in Nat
      /\ DOMAIN a = 1..Len(a) /\ DOMAIN b = 1..Len(b)
      /\ DOMAIN (a \o b) = 1..(Len(a) + Len(b))
  OBVIOUS
<1>2. \A i \in 1..Len(a) : (a \o b)[i] = a[i] /\ a[i] \in Nat
  BY <1>1
<1>3. \A i \in 1..Len(b) : (a \o b)[Len(a) + i] = b[i] /\ b[i] \in Nat
  BY <1>1
<1>4. ASSUME NEW i \in DOMAIN (a \o b)
      PROVE  \/ i \in DOMAIN a /\ (a \o b)[i] = a[i]
             \/ (i - Len(a)) \in DOMAIN b /\ (a \o b)[i] = b[i - Len(a)]
  <2>1. CASE i <= Len(a)
    BY <2>1, <1>1, <1>2
  <2>2. CASE i > Len(a)
    <3>1. (i - Len(a)) \in 1..Len(b) /\ Len(a) + (i - Len(a)) = i
      BY <2>2, <1>1
    <3> QED
      BY <3>1, <1>1, <1>3
  <2> QED
    BY <2>1, <2>2, <1>1
<1>5. Increasing(a \o b)
  <2> DEFINE ab == a \o b
  <2> SUFFICES ASSUME NEW i \in DOMAIN ab, NEW j \in DOMAIN ab, i < j
               PROVE  ab[i] < ab[j]
    BY DEF Increasing
  <2> HIDE DEF ab
  <2>1. CASE i \in DOMAIN a /\ j \in DOMAIN a
    BY <2>1, <1>1, <1>2 DEF Increasing, ab
  <2>2. CASE i \in DOMAIN a /\ j \notin DOMAIN a
    BY <2>2, <1>2, <1>4, <1>1 DEF ab
  <2>3. CASE i \notin DOMAIN a
    <3>1. /\ (i - Len(a)) \in DOMAIN b /\ ab[i] = b[i - Len(a)]
          /\ (j - Len(a)) \in DOMAIN b /\ ab[j] = b[j - Len(a)]
      BY <2>3, <1>4, <1>1 DEF ab
    <3>2. (i - Len(a)) < (j - Len(a))
      BY <1>1 DEF ab
    <3> QED
      BY <3>1, <3>2 DEF Increasing
  <2> QED
    BY <2>1, <2>2, <2>3
<1>6. Range(a \o b) = Range(a) \cup Range(b)
  <2>1. Range(a \o b) \subseteq Range(a) \cup Range(b)
    BY <1>4 DEF Range
  <2>2. ASSUME NEW i \in DOMAIN a PROVE a[i] \in Range(a \o b)
    BY <1>1, <1>2 DEF Range
  <2>3. ASSUME NEW i \in DOMAIN b PROVE b[i] \in Range(a \o b)
    <3>1. Len(a) + i \in DOMAIN (a \o b) /\ (a \o b)[Len(a) + i] = b[i]
      BY <1>1, <1>3
    <3> QED
      BY <3>1 DEF Range
  <2> QED
    BY <2>1, <2>2, <2>3 DEF Range
<1> QED
  BY <1>1, <1>4, <1>5, <1>6

-----------------------------------------------------------------------------
(* The initial states, and those after a reset of the board.               *)

LEMMA EmptyIs ==
  /\ \A w \in Nat : <<>> \in Seq(1..w)
  /\ Increasing(<<>>) /\ Range(<<>>) = {} /\ DOMAIN <<>> = {}
<1>1. DOMAIN <<>> = {} /\ \A w \in Nat : <<>> \in Seq(1..w)
  OBVIOUS
<1> QED
  BY <1>1 DEF Increasing, Range

LEMMA InitIInv == Init => IInv
<1> SUFFICES ASSUME Init PROVE IInv
  OBVIOUS
<1>1. /\ state = "NONE" /\ chain = <<>> /\ registered = FALSE /\ mutex = "none"
      /\ core = "idle" /\ room = SndBuf /\ sent = <<>> /\ live = {} /\ written = 0
      /\ ard = "idle" /\ retry = 0 /\ fault = FALSE
  BY DEF Init
<1>2. registered \in BOOLEAN /\ fault \in BOOLEAN
  BY <1>1
<1>3. chain \in Seq(1..written) /\ sent \in Seq(1..written)
  BY <1>1, EmptyIs
<1>4. TypeOK
  BY <1>1, <1>2, <1>3, TxAssumption DEF TypeOK
<1>5. Control
  BY <1>1 DEF Control, RegisteredOpen, ChainThere, FaultOnlyAfterForce
<1>6. ChainLive
  BY <1>1, EmptyIs DEF ChainLive
<1>7. Ordered
  BY <1>1, EmptyIs DEF Ordered
<1> QED
  BY <1>4, <1>5, <1>6, <1>7 DEF IInv

LEMMA FreshIInv ==
  ASSUME IInv, Fresh, written' = written
  PROVE  IInv'
<1>1. /\ state' = "NONE" /\ chain' = <<>> /\ registered' = FALSE /\ mutex' = "none"
      /\ core' = "idle" /\ room' = SndBuf /\ sent' = <<>> /\ live' = {}
      /\ ard' = "idle" /\ retry' = 0 /\ fault' = FALSE
  BY DEF Fresh
<1>2. registered' \in BOOLEAN /\ fault' \in BOOLEAN
  BY <1>1
<1>3. chain' \in Seq(1..written') /\ sent' \in Seq(1..written') /\ written' \in Nat
  BY <1>1, EmptyIs DEF IInv, TypeOK
<1>4. TypeOK'
  BY <1>1, <1>2, <1>3, TxAssumption DEF TypeOK
<1>5. Control'
  BY <1>1 DEF Control, RegisteredOpen, ChainThere, FaultOnlyAfterForce
<1>6. ChainLive'
  BY <1>1, EmptyIs DEF ChainLive
<1>7. Ordered'
  BY <1>1, EmptyIs DEF Ordered
<1> QED
  BY <1>4, <1>5, <1>6, <1>7 DEF IInv

-----------------------------------------------------------------------------
(* The arduino thread.                                                     *)

(* Steps that change neither the chain nor what was sent.                  *)
LEMMA StillOrdered ==
  ASSUME Ordered, UNCHANGED <<chain, sent, core>>
  PROVE  Ordered'
  BY DEF Ordered, Increasing

LEMMA ConnectedIInv ==
  ASSUME IInv, Connected
  PROVE  IInv'
<1>1. /\ core = "idle" /\ mutex = "none" /\ ard = "idle"
      /\ state' = "CONNECTED" /\ chain' = <<>> /\ registered' = TRUE
      /\ room' = SndBuf /\ sent' = <<>>
      /\ UNCHANGED <<mutex, core, live, written, ard, retry, fault>>
  BY DEF Connected, Ready
<1>2. registered' \in BOOLEAN /\ ~fault /\ fault' = fault
  BY DEF Connected, Ready
<1>3. chain' \in Seq(1..written') /\ sent' \in Seq(1..written')
  BY <1>1, EmptyIs DEF IInv, TypeOK
<1>4. TypeOK'
  BY <1>1, <1>2, <1>3, TxAssumption DEF IInv, TypeOK
<1>5. Control'
  BY <1>1, <1>2 DEF Control, RegisteredOpen, ChainThere, FaultOnlyAfterForce, Open
<1>6. ChainLive'
  BY <1>1, EmptyIs DEF ChainLive
<1>7. Ordered'
  BY <1>1, EmptyIs DEF Ordered
<1> QED
  BY <1>4, <1>5, <1>6, <1>7 DEF IInv

LEMMA ConnectFailsIInv ==
  ASSUME IInv, ConnectFails
  PROVE  IInv'
<1>1. /\ ~fault /\ ard = "idle" /\ state = "CLOSED" /\ core = "idle"
      /\ state' = "NONE" /\ chain' = <<>>
      /\ UNCHANGED <<registered, mutex, core, room, sent, live, written, ard, retry, fault>>
  BY DEF ConnectFails, Ready
<1>2. chain' \in Seq(1..written')
  BY <1>1, EmptyIs DEF IInv, TypeOK
<1>3. TypeOK'
  BY <1>1, <1>2 DEF IInv, TypeOK
<1>4. Control'
  BY <1>1 DEF IInv, Control, RegisteredOpen, ChainThere, FaultOnlyAfterForce, Open
<1>5. ChainLive' /\ Ordered'
  BY <1>1, EmptyIs DEF IInv, ChainLive, Ordered, Open, Increasing
<1> QED
  BY <1>3, <1>4, <1>5 DEF IInv

LEMMA BufferReleasedIInv ==
  ASSUME IInv, BufferReleased
  PROVE  IInv'
<1>1. /\ ~fault /\ ard = "idle" /\ state # "NONE" /\ state' = "CONNECTED"
      /\ UNCHANGED <<chain, registered, mutex, core, room, sent, live, written, ard,
                     retry, fault>>
  BY DEF BufferReleased, Ready
<1>2. TypeOK'
  BY <1>1 DEF IInv, TypeOK
<1>3. Control'
  BY <1>1 DEF IInv, Control, RegisteredOpen, ChainThere, FaultOnlyAfterForce, Open
<1>4. ChainLive'
  <2>1. state \in Open \/ state = "CLOSED"
    BY <1>1 DEF IInv, TypeOK, Open
  <2>2. Range(chain) \subseteq live
    BY <1>1, <2>1 DEF IInv, ChainLive
  <2> QED
    BY <1>1, <2>2 DEF ChainLive
<1> QED
  BY <1>1, <1>2, <1>3, <1>4, StillOrdered DEF IInv

(* What a write leaves: of the old chain only its first pbuf is sure to    *)
(* stay, and all of it if there were no others.                            *)
LEMMA WriteChain ==
  ASSUME IInv, NEW n \in WriteSizes, Write(n)
  PROVE  /\ chain' \in Seq(1..(written + n)) /\ Increasing(chain') /\ chain' # <<>>
         /\ Range(chain') \subseteq Range(chain) \cup Range(New(written, n))
         /\ Range(New(written, n)) \subseteq Range(chain')
         /\ Len(chain) <= 1 => Range(chain) \subseteq Range(chain')
         /\ \A j \in DOMAIN chain' :
              chain'[j] > written \/ (chain # <<>> /\ chain'[j] = chain[1])
<1> DEFINE w == written
           c == chain
           new == New(w, n)
           d == chain'
           m == w + n
<1>0. /\ w \in Nat /\ n \in Nat \ {0} /\ c \in Seq(1..w) /\ Increasing(c)
      /\ m \in Nat /\ m = w + n
  BY TxAssumption DEF IInv, TypeOK, Ordered
<1>00. d = Behind(c, new) /\ new = New(w, n)
  BY DEF Write, New
<1> SUFFICES
         /\ d \in Seq(1..m) /\ Increasing(d) /\ d # <<>>
         /\ Range(d) \subseteq Range(c) \cup Range(new)
         /\ Range(new) \subseteq Range(d)
         /\ Len(c) <= 1 => Range(c) \subseteq Range(d)
         /\ \A j \in DOMAIN d : d[j] > w \/ (c # <<>> /\ d[j] = c[1])
  OBVIOUS
<1> HIDE DEF w, c, new, d, m
<1>1. /\ new \in Seq(1..(w + n)) /\ Len(new) = n
      /\ \A i \in 1..n : new[i] = w + i
      /\ Increasing(new)
  BY <1>0, <1>00, NewIs
<1>2. DOMAIN new = 1..n /\ new # <<>> /\ w + n \in Nat
  BY <1>0, <1>1
<1>5. \A k \in DOMAIN new : new[k] > w
  BY <1>0, <1>1, <1>2
<1>3. CASE c = <<>>
  <2>1. d = new /\ Range(c) = {}
    BY <1>00, <1>3 DEF Behind, Range
  <2>2. d \in Seq(1..m) /\ Increasing(d) /\ d # <<>>
    BY <2>1, <1>0, <1>1, <1>2
  <2>3. \A j \in DOMAIN d : d[j] > w
    BY <2>1, <1>5
  <2>4. /\ Range(d) \subseteq Range(c) \cup Range(new) /\ Range(new) \subseteq Range(d)
        /\ Len(c) <= 1 => Range(c) \subseteq Range(d)
    BY <2>1
  <2> QED
    BY <2>2, <2>3, <2>4
<1>4. CASE c # <<>>
  <2>1. PICK one : one = <<c[1]>>
    OBVIOUS
  <2>2. d = one \o new /\ c[1] \in 1..w /\ 1 \in DOMAIN c /\ DOMAIN c = 1..Len(c)
    BY <2>1, <1>4, <1>0, <1>00 DEF Behind
  <2>3. one \in Seq(1..(w + n)) /\ DOMAIN one = {1} /\ Len(one) = 1 /\ one[1] = c[1]
    BY <2>1, <2>2, <1>0
  <2>4. Increasing(one)
    BY <2>3 DEF Increasing
  <2>5. \A i \in DOMAIN one, j \in DOMAIN new : one[i] < new[j]
    BY <2>2, <2>3, <1>0, <1>1, <1>2
  <2>6. /\ one \o new \in Seq(1..(w + n)) /\ Len(one \o new) = Len(one) + Len(new)
        /\ Increasing(one \o new)
        /\ \A i \in DOMAIN (one \o new) :
             \/ i \in DOMAIN one /\ (one \o new)[i] = one[i]
             \/ (i - Len(one)) \in DOMAIN new /\ (one \o new)[i] = new[i - Len(one)]
        /\ Range(one \o new) = Range(one) \cup Range(new)
    <3>1. m \in Nat /\ m = w + n
      BY <1>0
    <3>2. one \in Seq(1..m) /\ new \in Seq(1..m)
      BY <3>1, <2>3, <1>1
    <3>3. Increasing(one) /\ Increasing(new)
      BY <2>4, <1>1
    <3> QED
      BY <3>1, <3>2, <3>3, <2>5, JoinIs
  <2>7. Range(one) = {c[1]}
    BY <2>3 DEF Range
  <2>8. c[1] \in Range(c)
    BY <2>2 DEF Range
  <2>9. Len(c) <= 1 => Range(c) \subseteq {c[1]}
    BY <2>2 DEF Range
  <2>10. \A k \in DOMAIN one : one[k] = c[1]
    BY <2>3
  <2>11. \A j \in DOMAIN d : d[j] > w \/ d[j] = c[1]
    BY <2>2, <2>6, <2>10, <1>5
  <2>12. d # <<>>
    BY <2>2, <2>3, <2>6, <1>1
  <2>13. d \in Seq(1..m) /\ Increasing(d) /\ Range(d) = {c[1]} \cup Range(new)
    BY <1>0, <2>2, <2>6, <2>7
  <2> QED
    <3>1. Range(d) \subseteq Range(c) \cup Range(new) /\ Range(new) \subseteq Range(d)
      BY <2>8, <2>13
    <3>2. Len(c) <= 1 => Range(c) \subseteq Range(d)
      BY <2>9, <2>13
    <3> QED
      BY <3>1, <3>2, <2>11, <2>12, <2>13, <1>4
<1> QED
  BY <1>3, <1>4

(* tcpip_tcp_write.                                                        *)
LEMMA WriteIInv ==
  ASSUME IInv, NEW n \in WriteSizes, Write(n)
  PROVE  IInv'
<1> DEFINE new == New(written, n)
<1>1. /\ state # "NONE" /\ mutex = "none" /\ ard = "idle" /\ ~fault
      /\ chain' = Behind(chain, new) /\ live' = live \cup Range(new)
      /\ written' = written + n /\ retry' = 0
      /\ UNCHANGED <<state, registered, mutex, core, room, sent, ard, fault>>
  BY DEF Write, Ready, New
<1>2. /\ written \in Nat /\ n \in Nat \ {0} /\ chain \in Seq(1..written)
      /\ sent \in Seq(1..written) /\ live \subseteq 1..written /\ core = "idle"
      /\ Increasing(chain) /\ Increasing(sent)
  BY <1>1, TxAssumption DEF IInv, TypeOK, Ordered
<1> HIDE DEF new
<1>3. /\ chain' \in Seq(1..(written + n)) /\ Increasing(chain') /\ chain' # <<>>
      /\ Range(chain') \subseteq Range(chain) \cup Range(new)
      /\ \A j \in DOMAIN chain' : chain'[j] > written \/ (chain # <<>> /\ chain'[j] = chain[1])
  BY WriteChain DEF new
<1>4. Range(new) \subseteq (written + 1)..(written + n)
  BY <1>2, NewIs DEF new
<1>5. TypeOK'
  <2>1. live' \subseteq 1..written'
    <3>1. /\ 1..written \subseteq 1..(written + n)
          /\ (written + 1)..(written + n) \subseteq 1..(written + n)
      BY <1>2
    <3> QED
      BY <3>1, <1>1, <1>2, <1>4
  <2>2. sent' \in Seq(1..written') /\ chain' \in Seq(1..written') /\ written' \in Nat
    BY <1>1, <1>2, <1>3
  <2> QED
    BY <2>1, <2>2, <1>1, TxAssumption DEF IInv, TypeOK
<1>6. Control'
  BY <1>1, <1>2 DEF IInv, Control, RegisteredOpen, ChainThere, FaultOnlyAfterForce
<1>7. ChainLive'
  BY <1>1, <1>3 DEF IInv, ChainLive
<1>8. Ordered'
  <2>1. ASSUME NEW i \in DOMAIN sent', NEW j \in DOMAIN chain'
        PROVE  sent'[i] < chain'[j]
    <3>1. sent'[i] = sent[i] /\ i \in DOMAIN sent /\ sent[i] \in 1..written
      BY <1>1, <1>2
    <3>2. chain'[j] \in Nat
      BY <1>2, <1>3
    <3>3. CASE chain'[j] > written
      BY <3>1, <3>2, <3>3, <1>2
    <3>4. CASE chain # <<>> /\ chain'[j] = chain[1]
      <4>1. 1 \in DOMAIN chain
        BY <3>4, <1>2
      <4> QED
        BY <4>1, <3>1, <3>4, <1>2 DEF IInv, Ordered
    <3> QED
      BY <3>3, <3>4, <1>3
  <2> QED
    BY <2>1, <1>1, <1>2, <1>3 DEF Ordered
<1> QED
  BY <1>5, <1>6, <1>7, <1>8 DEF IInv

LEMMA WriteFailsIInv ==
  ASSUME IInv, NEW n \in WriteSizes, WriteFails(n)
  PROVE  IInv'
<1>1. CASE Fresh
  BY <1>1, FreshIInv DEF WriteFails
<1>2. CASE ~Fresh
  <2>1. /\ retry < RetryLimit /\ retry' = retry + 1
        /\ UNCHANGED <<state, chain, registered, mutex, core, room, sent, live, ard,
                       fault, written>>
    BY <1>2, TxAssumption DEF WriteFails, es, IInv, TypeOK
  <2>2. TypeOK'
    BY <2>1, TxAssumption DEF IInv, TypeOK
  <2>3. Control' /\ ChainLive'
    BY <2>1 DEF IInv, Control, RegisteredOpen, ChainThere, FaultOnlyAfterForce, ChainLive
  <2> QED
    BY <2>1, <2>2, <2>3, StillOrdered DEF IInv
<1> QED
  BY <1>1, <1>2

(* tcpip_tcp_disconnect.                                                   *)
LEMMA DisconnectIInv ==
  ASSUME IInv, Disconnect
  PROVE  IInv'
<1>1. /\ ~fault /\ ard = "idle" /\ mutex = "none" /\ state # "NONE"
      /\ UNCHANGED <<registered, core, room, sent, live, written, retry, fault>>
  BY DEF Disconnect, Ready
<1>2. core = "idle" /\ written \in Nat
  BY <1>1 DEF IInv, TypeOK
<1>3. CASE state = "CLOSED"
  <2>1. state' = "NONE" /\ chain' = <<>> /\ UNCHANGED <<mutex, ard>>
    BY <1>3 DEF Disconnect
  <2>2. chain' \in Seq(1..written')
    BY <2>1, <1>1, <1>2, EmptyIs
  <2>3. TypeOK'
    BY <2>1, <2>2, <1>1 DEF IInv, TypeOK
  <2>4. Control'
    BY <2>1, <1>1, <1>2, <1>3 DEF IInv, Control, RegisteredOpen, ChainThere,
       FaultOnlyAfterForce, Open
  <2>5. ChainLive' /\ Ordered'
    BY <2>1, <1>1, <1>2, EmptyIs DEF IInv, ChainLive, Ordered, Open, Increasing
  <2> QED
    BY <2>3, <2>4, <2>5 DEF IInv
<1>4. CASE state # "CLOSED"
  <2>1. /\ state' = "CLOSING" /\ ard' = "wait" /\ chain' = chain
        /\ mutex' \in {"none", "arduino"}
    BY <1>1, <1>4 DEF Disconnect
  <2>2. state \in Open
    BY <1>1, <1>4 DEF IInv, TypeOK, Open
  <2>3. TypeOK'
    BY <2>1, <1>1, <1>2 DEF IInv, TypeOK
  <2>4. Control' /\ ChainLive'
    BY <2>1, <2>2, <1>1, <1>2 DEF IInv, Control, RegisteredOpen, ChainThere,
       FaultOnlyAfterForce, ChainLive, Open
  <2> QED
    BY <2>1, <2>3, <2>4, <1>1, StillOrdered DEF IInv
<1> QED
  BY <1>3, <1>4

(* tcp_client_connection_close in the arduino thread.                      *)
LEMMA ForceCloseIInv ==
  ASSUME IInv, ForceClose
  PROVE  IInv'
<1>1. /\ ~fault /\ ard = "wait" /\ state # "CLOSED"
      /\ registered' = FALSE /\ state' = "CLOSED" /\ live' = live \ Range(chain)
      /\ UNCHANGED <<chain, mutex, core, room, sent, written, ard, retry, fault>>
  BY DEF ForceClose
<1>2. registered' \in BOOLEAN
  BY <1>1
<1>3. TypeOK'
  BY <1>1, <1>2 DEF IInv, TypeOK
<1>4. Control'
  BY <1>1 DEF IInv, Control, RegisteredOpen, ChainThere, FaultOnlyAfterForce
<1>5. ChainLive'
  BY <1>1 DEF IInv, ChainLive, Open
<1> QED
  BY <1>1, <1>3, <1>4, <1>5, StillOrdered DEF IInv

LEMMA DisconnectDoneIInv ==
  ASSUME IInv, DisconnectDone
  PROVE  IInv'
<1>1. /\ ~fault /\ ard = "wait" /\ state = "CLOSED"
      /\ state' = "NONE" /\ chain' = <<>> /\ ard' = "idle"
      /\ UNCHANGED <<registered, mutex, core, room, sent, live, written, retry, fault>>
  BY DEF DisconnectDone
<1>2. chain' \in Seq(1..written')
  BY <1>1, EmptyIs DEF IInv, TypeOK
<1>3. TypeOK'
  BY <1>1, <1>2 DEF IInv, TypeOK
<1>4. Control'
  <2>1. ~registered
    BY <1>1 DEF IInv, Control, RegisteredOpen, Open
  <2>2. RegisteredOpen'
    BY <2>1, <1>1 DEF RegisteredOpen
  <2>3. ChainThere'
    BY <1>1 DEF ChainThere
  <2>4. FaultOnlyAfterForce'
    BY <1>1 DEF FaultOnlyAfterForce
  <2> QED
    BY <2>2, <2>3, <2>4 DEF Control
<1>5. ChainLive' /\ Ordered'
  BY <1>1, EmptyIs DEF IInv, ChainLive, Ordered, Open, Increasing
<1> QED
  BY <1>3, <1>4, <1>5 DEF IInv

LEMMA WatchdogIInv ==
  ASSUME IInv, Watchdog
  PROVE  IInv'
<1>1. Fresh /\ written' = written
  BY DEF Watchdog
<1> QED
  BY <1>1, FreshIInv

-----------------------------------------------------------------------------
(* The tcpip thread: its callbacks.                                        *)

(* Steps between two points of the loop before tcp_write.                  *)
LEMMA EnterOrdered ==
  ASSUME Ordered, core # "free", core' # "free", UNCHANGED <<chain, sent>>
  PROVE  Ordered'
  BY DEF Ordered, Increasing

LEMMA PollIInv ==
  ASSUME IInv, Poll
  PROVE  IInv'
<1>1. /\ core = "idle" /\ core' = "send" /\ mutex' = "tcpip"
      /\ UNCHANGED <<state, chain, registered, room, sent, live, written, ard,
                     retry, fault>>
  BY DEF Poll, Callback, EnterSend, es
<1>2. TypeOK'
  BY <1>1 DEF IInv, TypeOK
<1>3. Control' /\ ChainLive'
  BY <1>1 DEF IInv, Control, RegisteredOpen, ChainThere, FaultOnlyAfterForce, ChainLive
<1> QED
  BY <1>1, <1>2, <1>3, EnterOrdered DEF IInv

LEMMA PollClosesIInv ==
  ASSUME IInv, PollCloses
  PROVE  IInv'
<1>1. /\ ~fault /\ chain = <<>> /\ core = "idle"
      /\ state' = "CLOSED" /\ registered' = FALSE
      /\ UNCHANGED <<chain, mutex, core, room, sent, live, written, ard, retry, fault>>
  BY DEF PollCloses, Callback
<1>2. registered' \in BOOLEAN
  BY <1>1
<1>3. TypeOK'
  BY <1>1, <1>2 DEF IInv, TypeOK
<1>4. Control'
  BY <1>1 DEF IInv, Control, RegisteredOpen, ChainThere, FaultOnlyAfterForce
<1>5. ChainLive'
  BY <1>1, EmptyIs DEF IInv, ChainLive, Open
<1> QED
  BY <1>1, <1>3, <1>4, <1>5, StillOrdered DEF IInv

LEMMA FinIInv ==
  ASSUME IInv, Fin
  PROVE  IInv'
<1>1. /\ ~fault /\ core = "idle" /\ registered
      /\ UNCHANGED <<chain, room, sent, live, written, ard, retry, fault>>
  BY DEF Fin, Callback
<1>2. state \in Open
  BY <1>1 DEF IInv, Control, RegisteredOpen
<1>3. CASE chain = <<>>
  <2>1. state' = "CLOSED" /\ registered' = FALSE /\ UNCHANGED <<core, mutex>>
    BY <1>3 DEF Fin
  <2>2. registered' \in BOOLEAN
    BY <2>1
  <2>3. TypeOK'
    BY <1>1, <2>1, <2>2 DEF IInv, TypeOK
  <2>4. Control'
    BY <1>1, <2>1 DEF IInv, Control, RegisteredOpen, ChainThere, FaultOnlyAfterForce
  <2>5. ChainLive'
    BY <1>1, <1>3, <2>1, EmptyIs DEF ChainLive, Open
  <2> QED
    BY <1>1, <2>1, <2>3, <2>4, <2>5, StillOrdered DEF IInv
<1>4. CASE chain # <<>>
  <2>1. /\ state' = "CLOSING" /\ core' = "send" /\ mutex' = "tcpip"
        /\ registered' = registered
    BY <1>4 DEF Fin, EnterSend
  <2>2. TypeOK'
    BY <1>1, <2>1 DEF IInv, TypeOK
  <2>3. Control'
    BY <1>1, <2>1 DEF Control, RegisteredOpen, ChainThere, FaultOnlyAfterForce, Open
  <2>4. ChainLive'
    BY <1>1, <1>2, <2>1 DEF IInv, ChainLive, Open
  <2> QED
    BY <1>1, <2>1, <2>2, <2>3, <2>4, EnterOrdered DEF IInv
<1> QED
  BY <1>3, <1>4

LEMMA AckedIInv ==
  ASSUME IInv, NEW n \in 1..SndBuf, Acked(n)
  PROVE  IInv'
<1>1. /\ core = "idle" /\ room' = room + n /\ room + n <= SndBuf
      /\ UNCHANGED <<state, chain, registered, sent, live, written, ard, retry, fault>>
      /\ \/ core' = "send" /\ mutex' = "tcpip"
         \/ UNCHANGED <<core, mutex>>
  BY DEF Acked, Callback, EnterSend, es
<1>2. TypeOK'
  <2>1. room' \in 0..SndBuf
    BY <1>1, TxAssumption DEF IInv, TypeOK
  <2> QED
    BY <2>1, <1>1 DEF IInv, TypeOK
<1>3. Control' /\ ChainLive'
  BY <1>1 DEF IInv, Control, RegisteredOpen, ChainThere, FaultOnlyAfterForce, ChainLive
<1> QED
  BY <1>1, <1>2, <1>3, EnterOrdered DEF IInv

LEMMA PeerResetIInv ==
  ASSUME IInv, PeerReset
  PROVE  IInv'
<1>1. /\ registered' = FALSE
      /\ UNCHANGED <<state, chain, mutex, core, room, sent, live, written, ard,
                     retry, fault>>
  BY DEF PeerReset, es
<1>2. registered' \in BOOLEAN
  BY <1>1
<1>3. TypeOK'
  BY <1>1, <1>2 DEF IInv, TypeOK
<1>4. Control' /\ ChainLive'
  BY <1>1 DEF IInv, Control, RegisteredOpen, ChainThere, FaultOnlyAfterForce, ChainLive
<1> QED
  BY <1>1, <1>3, <1>4, StillOrdered DEF IInv

-----------------------------------------------------------------------------
(* The tcpip thread: the send loop.                                        *)

(* What is in the chain of an open connection is allocated.                *)
LEMMA UseAfterFreeIInv ==
  ASSUME IInv, UseAfterFree
  PROVE  IInv'
<1>1. /\ Gone /\ fault' = TRUE
      /\ UNCHANGED <<state, chain, registered, mutex, core, room, sent, live,
                     written, ard, retry>>
  BY DEF UseAfterFree, es
<1>2. state \in {"CLOSED", "NONE"}
  <2>1. CASE state \in Open
    <3>1. chain # <<>> /\ chain[1] \notin live /\ Range(chain) \subseteq live
      BY <1>1, <2>1 DEF Gone, IInv, ChainLive, Open
    <3>2. chain[1] \in Range(chain)
      BY <3>1, TailIs DEF IInv, TypeOK, Ordered
    <3> QED
      BY <3>1, <3>2
  <2> QED
    BY <2>1 DEF IInv, TypeOK, Open
<1>3. fault' \in BOOLEAN
  BY <1>1
<1>4. TypeOK'
  BY <1>1, <1>3 DEF IInv, TypeOK
<1>5. Control' /\ ChainLive'
  BY <1>1, <1>2 DEF IInv, Control, RegisteredOpen, ChainThere, FaultOnlyAfterForce,
     ChainLive
<1> QED
  BY <1>1, <1>4, <1>5, StillOrdered DEF IInv

LEMMA SendWriteIInv ==
  ASSUME IInv, SendWrite
  PROVE  IInv'
<1>1. /\ state # "NONE" /\ core = "send" /\ chain # <<>> /\ room > 0 /\ ~fault
      /\ sent' = Append(sent, chain[1]) /\ room' = room - 1 /\ core' = "free"
      /\ UNCHANGED <<state, chain, registered, mutex, live, written, ard, retry, fault>>
  BY DEF SendWrite, Use, Gone, es
<1>2. /\ written \in Nat /\ chain \in Seq(1..written) /\ sent \in Seq(1..written)
      /\ Increasing(chain) /\ Increasing(sent)
  BY DEF IInv, TypeOK, Ordered
<1>3. chain[1] \in 1..written /\ 1 \in DOMAIN chain
  BY <1>1, <1>2, TailIs
<1>4. /\ sent' \in Seq(1..written) /\ DOMAIN sent' = 1..(Len(sent) + 1)
      /\ DOMAIN sent = 1..Len(sent) /\ Len(sent) \in Nat
      /\ \A i \in DOMAIN sent : sent'[i] = sent[i] /\ sent[i] \in 1..written
      /\ sent'[Len(sent) + 1] = chain[1]
  BY <1>1, <1>2, <1>3
<1>5. \A i \in DOMAIN sent : sent[i] < chain[1]
  BY <1>1, <1>3 DEF IInv, Ordered
<1>6. Increasing(sent')
  <2> SUFFICES ASSUME NEW i \in DOMAIN sent', NEW j \in DOMAIN sent', i < j
               PROVE  sent'[i] < sent'[j]
    BY DEF Increasing
  <2>1. i \in DOMAIN sent
    BY <1>4
  <2>2. CASE j \in DOMAIN sent
    BY <2>1, <2>2, <1>2, <1>4 DEF Increasing
  <2>3. CASE j = Len(sent) + 1
    BY <2>1, <2>3, <1>4, <1>5
  <2> QED
    BY <2>2, <2>3, <1>4
<1>7. Ordered'
  <2>1. \A j \in DOMAIN chain : chain[1] <= chain[j] /\ chain[j] \in 1..written
    <3>1. ASSUME NEW j \in DOMAIN chain
          PROVE  chain[1] <= chain[j] /\ chain[j] \in 1..written
      <4>1. chain[j] \in 1..written /\ j \in Nat /\ j >= 1
        BY <1>2
      <4>2. j = 1 \/ 1 < j
        BY <4>1
      <4> QED
        BY <4>1, <4>2, <1>2, <1>3 DEF Increasing
    <3> QED
      BY <3>1
  <2>2. ASSUME NEW i \in DOMAIN sent', NEW j \in DOMAIN chain'
        PROVE  sent'[i] <= chain'[j]
    <3>1. chain' = chain /\ chain[1] <= chain[j] /\ chain[j] \in 1..written
      BY <2>1, <1>1
    <3>2. sent'[i] \in 1..written /\ sent'[i] <= chain[1]
      BY <1>3, <1>4, <1>5
    <3> QED
      BY <3>1, <3>2, <1>2, <1>3
  <2>3. Increasing(chain')
    BY <1>1, <1>2
  <2> QED
    BY <2>2, <2>3, <1>1, <1>6 DEF Ordered
<1>8. TypeOK'
  <2>1. room' \in 0..SndBuf
    BY <1>1, TxAssumption DEF IInv, TypeOK
  <2> QED
    BY <2>1, <1>1, <1>2, <1>4 DEF IInv, TypeOK
<1>9. Control' /\ ChainLive'
  BY <1>1 DEF IInv, Control, RegisteredOpen, ChainThere, FaultOnlyAfterForce, ChainLive
<1> QED
  BY <1>7, <1>8, <1>9 DEF IInv

(* Behind the pbuf that was just sent everything is still to be sent.      *)
LEMMA TailAfter ==
  ASSUME IInv, chain # <<>>
  PROVE  /\ Tail(chain) \in Seq(1..written) /\ Len(Tail(chain)) = Len(chain) - 1
         /\ chain[1] \in 1..written /\ 1 \in DOMAIN chain
         /\ Increasing(Tail(chain))
         /\ Range(Tail(chain)) \subseteq Range(chain)
         /\ chain[1] \notin Range(Tail(chain))
         /\ Range(chain) = Range(Tail(chain)) \cup {chain[1]}
         /\ \A i \in DOMAIN sent, j \in DOMAIN Tail(chain) : sent[i] < Tail(chain)[j]
<1>1. /\ written \in Nat /\ chain \in Seq(1..written) /\ sent \in Seq(1..written)
      /\ Increasing(chain)
  BY DEF IInv, TypeOK, Ordered
<1>2. /\ Tail(chain) \in Seq(1..written) /\ Len(Tail(chain)) = Len(chain) - 1
      /\ \A i \in 1..(Len(chain) - 1) : Tail(chain)[i] = chain[i + 1]
      /\ chain[1] \in 1..written /\ 1 \in DOMAIN chain
      /\ Increasing(Tail(chain))
      /\ Range(Tail(chain)) \subseteq Range(chain)
      /\ chain[1] \notin Range(Tail(chain))
      /\ Range(chain) = Range(Tail(chain)) \cup {chain[1]}
  BY <1>1, TailIs
<1>3. ASSUME NEW i \in DOMAIN sent, NEW j \in DOMAIN Tail(chain)
      PROVE  sent[i] < Tail(chain)[j]
  <2>1. /\ j \in 1..(Len(chain) - 1) /\ Tail(chain)[j] = chain[j + 1]
        /\ (j + 1) \in DOMAIN chain /\ 1 < j + 1
    BY <1>1, <1>2
  <2>2. PICK k \in DOMAIN chain : k = j + 1
    BY <2>1
  <2>3. 1 < k
    BY <2>1, <2>2
  <2>4. chain[1] < chain[k] /\ chain[k] \in 1..written
    <3>1. \A a, b \in DOMAIN chain : a < b => chain[a] < chain[b]
      BY <1>1 DEF Increasing
    <3>2. chain[1] < chain[k]
      BY <3>1, <2>3, <1>2
    <3>3. chain[k] \in 1..written
      BY <1>1
    <3> QED
      BY <3>2, <3>3
  <2>5. sent[i] \in 1..written /\ sent[i] <= chain[1]
    <3>1. sent[i] \in 1..written
      BY <1>1
    <3>2. sent[i] <= chain[1] \/ sent[i] < chain[1]
      BY <1>2 DEF IInv, Ordered
    <3> QED
      BY <3>1, <3>2, <1>1, <1>2
  <2> QED
    BY <2>1, <2>2, <2>4, <2>5, <1>1, <1>2
<1> QED
  BY <1>2, <1>3

LEMMA SendFreeIInv ==
  ASSUME IInv, SendFree
  PROVE  IInv'
<1>1. /\ state # "NONE" /\ core = "free" /\ ~fault /\ core' = "send"
      /\ chain' = Tail(chain) /\ live' = live \ {chain[1]}
      /\ UNCHANGED <<state, registered, mutex, room, sent, written, ard, retry, fault>>
  BY DEF SendFree, Use, Gone
<1>2. /\ written \in Nat /\ chain \in Seq(1..written) /\ sent \in Seq(1..written)
      /\ Increasing(chain) /\ Increasing(sent) /\ chain # <<>>
  BY <1>1 DEF IInv, TypeOK, Ordered, Control, ChainThere
<1>3. /\ Tail(chain) \in Seq(1..written) /\ Increasing(Tail(chain))
      /\ Range(Tail(chain)) \subseteq Range(chain)
      /\ chain[1] \notin Range(Tail(chain))
      /\ \A i \in DOMAIN sent, j \in DOMAIN Tail(chain) : sent[i] < Tail(chain)[j]
  BY <1>2, TailAfter
<1>4. Ordered'
  BY <1>1, <1>2, <1>3 DEF Ordered
<1>5. TypeOK'
  BY <1>1, <1>2, <1>3 DEF IInv, TypeOK
<1>6. Control'
  BY <1>1 DEF IInv, Control, RegisteredOpen, ChainThere, FaultOnlyAfterForce
<1>7. ChainLive'
  BY <1>1, <1>3 DEF IInv, ChainLive
<1> QED
  BY <1>4, <1>5, <1>6, <1>7 DEF IInv

LEMMA SendEndsIInv ==
  ASSUME IInv, SendEnds
  PROVE  IInv'
<1>1. /\ core = "send" /\ core' = "idle" /\ mutex' = "none"
      /\ UNCHANGED <<state, chain, registered, room, sent, live, written, ard,
                     retry, fault>>
  BY DEF SendEnds, es
<1>2. TypeOK'
  BY <1>1 DEF IInv, TypeOK
<1>3. Control' /\ ChainLive'
  BY <1>1 DEF IInv, Control, RegisteredOpen, ChainThere, FaultOnlyAfterForce, ChainLive
<1> QED
  BY <1>1, <1>2, <1>3, EnterOrdered DEF IInv

-----------------------------------------------------------------------------
(* The invariant.                                                          *)

LEMMA NextIInv == IInv /\ [Next]_vars => IInv'
<1> SUFFICES ASSUME IInv, [Next]_vars PROVE IInv'
  OBVIOUS
<1>1. CASE Sketch
  BY <1>1, ConnectedIInv, ConnectFailsIInv, BufferReleasedIInv, WriteIInv,
     WriteFailsIInv, DisconnectIInv DEF Sketch
<1>2. CASE Arduino
  BY <1>2, ForceCloseIInv, DisconnectDoneIInv DEF Arduino
<1>3. CASE Watchdog
  BY <1>3, WatchdogIInv
<1>4. CASE Poll
  BY <1>4, PollIInv
<1>5. CASE PollCloses
  BY <1>5, PollClosesIInv
<1>6. CASE Peer
  BY <1>6, FinIInv, PeerResetIInv DEF Peer
<1>7. CASE \E n \in 1..SndBuf : Acked(n)
  BY <1>7, AckedIInv
<1>8. CASE Send
  BY <1>8, SendWriteIInv, SendFreeIInv, SendEndsIInv DEF Send
<1>9. CASE UseAfterFree
  BY <1>9, UseAfterFreeIInv
<1>10. CASE UNCHANGED vars
  <2>1. TypeOK'
    BY <1>10 DEF IInv, TypeOK, vars, es
  <2>2. Control' /\ ChainLive'
    BY <1>10 DEF IInv, Control, RegisteredOpen, ChainThere, FaultOnlyAfterForce,
       ChainLive, vars, es
  <2> QED
    BY <1>10, <2>1, <2>2, StillOrdered DEF IInv, vars, es
<1> QED
  BY <1>1, <1>2, <1>3, <1>4, <1>5, <1>6, <1>7, <1>8, <1>9, <1>10 DEF Next

LEMMA Invariance == Spec => []IInv
<1> QED
  BY InitIInv, NextIInv, PTL DEF Spec

(* The types, and the mutex belongs to the tcpip thread exactly while the  *)
(* send loop runs.                                                         *)
THEOREM TxTypeCorrect == Spec => []TypeOK
<1>1. IInv => TypeOK
  BY DEF IInv
<1> QED
  BY <1>1, Invariance, PTL

(* tcp_client_send uses freed memory only after tcpip_tcp_disconnect has   *)
(* closed the connection by force.                                         *)
THEOREM FaultOnlyAfterForceHolds == Spec => []FaultOnlyAfterForce
<1>1. IInv => FaultOnlyAfterForce
  BY DEF IInv, Control
<1> QED
  BY <1>1, Invariance, PTL

(* The pbufs reach lwIP in the order tcpip_tcp_write got them, none twice. *)
THEOREM InOrderHolds == Spec => []InOrder
<1>1. ASSUME IInv PROVE InOrder
  <2>1. /\ written \in Nat /\ chain \in Seq(1..written) /\ sent \in Seq(1..written)
        /\ Increasing(chain) /\ Increasing(sent)
    BY <1>1 DEF IInv, TypeOK, Ordered
  <2>2. CASE core = "free" /\ chain # <<>>
    <3>1. /\ Tail(chain) \in Seq(1..written) /\ Increasing(Tail(chain))
          /\ \A i \in DOMAIN sent, j \in DOMAIN Tail(chain) : sent[i] < Tail(chain)[j]
      BY <1>1, <2>2, TailAfter
    <3>2. Increasing(sent \o Tail(chain))
      BY <2>1, <3>1, JoinIs
    <3> QED
      BY <2>2, <3>2 DEF InOrder, Unsent
  <2>3. CASE core = "free" /\ chain = <<>>
    <3>1. \A i \in DOMAIN sent, j \in DOMAIN chain : sent[i] < chain[j]
      BY <2>3, EmptyIs
    <3>2. Increasing(sent \o chain)
      BY <2>1, <3>1, JoinIs
    <3> QED
      BY <2>3, <3>2 DEF InOrder, Unsent
  <2>4. CASE core # "free"
    <3>1. \A i \in DOMAIN sent, j \in DOMAIN chain : sent[i] < chain[j]
      BY <1>1, <2>4 DEF IInv, Ordered
    <3>2. Increasing(sent \o chain)
      BY <2>1, <3>1, JoinIs
    <3> QED
      BY <2>4, <3>2 DEF InOrder, Unsent
  <2> QED
    BY <2>2, <2>3, <2>4
<1> QED
  BY <1>1, Invariance, PTL

-----------------------------------------------------------------------------
(* The leaks.                                                              *)

LeakStep ==
  \/ Len(chain) > 1 /\ written' # written
  \/ state = "CLOSED" /\ ard = "idle" /\ (state' = "NONE" \/ registered')

LEMMA NoLeakElse ==
  ASSUME IInv, [Next]_vars, ~LeakStep
  PROVE  Leaked' \subseteq Leaked
<1>1. CASE UNCHANGED <<chain, live>>
  BY <1>1 DEF Leaked, Range
<1>2. CASE live' = {}
  BY <1>2 DEF Leaked
<1>3. CASE Connected
  <2>1. /\ state = "NONE" \/ state = "CLOSED"
        /\ ard = "idle" /\ registered' /\ chain' = <<>> /\ live' = live
    BY <1>3 DEF Connected, Ready, NotBusy
  <2>2. chain = <<>>
    BY <2>1 DEF LeakStep, IInv, Control, ChainThere
  <2> QED
    BY <2>1, <2>2 DEF Leaked, Range
<1>0. CASE ConnectFails \/ BufferReleased
  BY <1>0, <1>1 DEF ConnectFails, BufferReleased, Ready, LeakStep
<1>4. ASSUME NEW n \in WriteSizes, Write(n)
      PROVE  Leaked' \subseteq Leaked
  <2>1. n \in Nat \ {0} /\ written \in Nat /\ written' = written + n
        /\ chain \in Seq(1..written)
    BY <1>4, TxAssumption DEF Write, IInv, TypeOK
  <2>2. written' # written
    BY <2>1
  <2>3. Len(chain) <= 1
    BY <2>1, <2>2 DEF LeakStep
  <2>4. Range(chain) \subseteq Range(chain') /\ Range(New(written, n)) \subseteq Range(chain')
    BY <1>4, <2>3, WriteChain
  <2>5. live' = live \cup Range(New(written, n))
    BY <1>4 DEF Write, New
  <2> QED
    BY <2>4, <2>5 DEF Leaked
<1>5. CASE Disconnect
  <2>1. state # "NONE" /\ ard = "idle" /\ live' = live
    BY <1>5 DEF Disconnect, Ready
  <2>2. CASE state = "CLOSED"
    BY <1>5, <2>1, <2>2 DEF Disconnect, LeakStep
  <2>3. CASE state # "CLOSED"
    BY <1>5, <2>1, <2>3, <1>1 DEF Disconnect
  <2> QED
    BY <2>2, <2>3
<1>6. CASE ForceClose
  BY <1>6 DEF ForceClose, Leaked, Range
<1>7. CASE DisconnectDone
  <2>1. /\ state = "CLOSED" /\ ard = "wait" /\ live' = live
    BY <1>7 DEF DisconnectDone
  <2>2. Range(chain) \cap live = {}
    BY <2>1 DEF IInv, ChainLive
  <2> QED
    BY <2>1, <2>2 DEF Leaked
<1>8. CASE SendFree
  <2>1. state # "NONE" /\ core = "free" /\ chain' = Tail(chain) /\ live' = live \ {chain[1]}
    BY <1>8 DEF SendFree, Use, Gone
  <2>2. chain # <<>>
    BY <2>1 DEF IInv, Control, ChainThere
  <2>3. Range(chain) = Range(Tail(chain)) \cup {chain[1]}
    BY <2>2, TailAfter
  <2> QED
    BY <2>1, <2>3 DEF Leaked
<1>9. ASSUME NEW n \in WriteSizes, WriteFails(n)
      PROVE  Leaked' \subseteq Leaked
  BY <1>9, <1>1, <1>2 DEF WriteFails, Fresh, es
<1>10. CASE Watchdog
  BY <1>10, <1>2 DEF Watchdog, Fresh
<1>11. CASE Poll \/ PollCloses \/ Peer \/ UseAfterFree \/ SendWrite \/ SendEnds
  BY <1>11, <1>1 DEF Poll, PollCloses, Peer, Fin, PeerReset, UseAfterFree, SendWrite,
     SendEnds, es
<1>12. ASSUME NEW n \in 1..SndBuf, Acked(n)
       PROVE  Leaked' \subseteq Leaked
  BY <1>12, <1>1 DEF Acked, es
<1>13. CASE UNCHANGED vars
  BY <1>13, <1>1 DEF vars, es
<1> QED
  BY <1>0, <1>3, <1>4, <1>5, <1>6, <1>7, <1>8, <1>9, <1>10, <1>11, <1>12, <1>13
     DEF Next, Sketch, Arduino, Send, Peer

(* A pbuf is lost to the pool only by a write to a chain of two or more    *)
(* and, on a connection that is closed already, by the disconnect or by    *)
(* the next connect, whether that succeeds or not.                         *)
THEOREM LeakCausesHolds == Spec => LeakCauses
<1>1. IInv /\ [Next]_vars =>
        [Leaked' \ Leaked # {} =>
           \/ Len(chain) > 1 /\ written' # written
           \/ state = "CLOSED" /\ ard = "idle" /\ (state' = "NONE" \/ registered')]_vars
  BY NoLeakElse DEF LeakStep
<1> QED
  BY <1>1, Invariance, PTL DEF Spec, LeakCauses

=============================================================================
