-------------------------- MODULE TcpClientProofs --------------------------
(***************************************************************************)
(* Proofs about TcpClient, for every number of pcbs and blocks: the types; *)
(* where the peer does not talk before the connect has returned and does   *)
(* not keep its window shut for good, that a callback is bound to the      *)
(* present connection and finds its struct client allocated, even when     *)
(* lwIP's pool is broken, and by what memory is lost; and where the peer   *)
(* answers and leaves it to this side to close, that the pool of pcbs, a   *)
(* linked list, never breaks.                                              *)
(***************************************************************************)
EXTENDS TcpClient, DataInduction, TLAPS

-----------------------------------------------------------------------------
(* What lwIP's operations do to the pcbs and to the list of active ones.   *)

(* memp_free touches the pool only.                                        *)
LEMMA MempFreeIs ==
  ASSUME NEW n \in Nets, NEW p \in Pcbs \cup {Null}
  PROVE  /\ MempFree(n, p) \in Nets
         /\ MempFree(n, p).pcb = n.pcb
         /\ MempFree(n, p).active = n.active
         /\ MempFree(n, p).head = p
  BY DEF MempFree, Nets, Pcbs, Blocks, Null

(* One pcb changes, and the lists.                                         *)
Change(n, p, r, a, t) ==
  [n EXCEPT !.pcb = [n.pcb EXCEPT ![p] = r], !.active = a, !.tw = t]

LEMMA ChangeIs ==
  ASSUME NEW n \in Nets, NEW p \in Pcbs \cup {Null}, NEW r,
         p \in Pcbs => r \in PcbRecords,
         NEW a \in SUBSET Pcbs, NEW t \in SUBSET Pcbs
  PROVE  /\ Change(n, p, r, a, t) \in Nets
         /\ Change(n, p, r, a, t).active = a
         /\ p \in Pcbs => Change(n, p, r, a, t).pcb[p] = r
         /\ \A q \in Pcbs \ {p} : Change(n, p, r, a, t).pcb[q] = n.pcb[q]
<1> DEFINE f == [n.pcb EXCEPT ![p] = r]
<1>1. n.pcb \in [Pcbs -> PcbRecords]
  BY DEF Nets
<1>2. f \in [Pcbs -> PcbRecords] /\ (p \in Pcbs => f[p] = r)
  BY <1>1
<1>3. \A q \in Pcbs \ {p} : f[q] = n.pcb[q]
  BY <1>1
<1> HIDE DEF f
<1>4. [n EXCEPT !.pcb = f, !.active = a, !.tw = t] \in Nets
  BY <1>2 DEF Nets
<1>5. /\ [n EXCEPT !.pcb = f, !.active = a, !.tw = t].pcb = f
      /\ [n EXCEPT !.pcb = f, !.active = a, !.tw = t].active = a
  BY DEF Nets
<1> QED
  BY <1>2, <1>3, <1>4, <1>5 DEF f, Change

LEMMA ChangeOne ==
  ASSUME NEW n \in Nets, NEW p \in Pcbs, NEW r \in PcbRecords,
         NEW a \in SUBSET Pcbs, NEW t \in SUBSET Pcbs
  PROVE  /\ Change(n, p, r, a, t) \in Nets
         /\ Change(n, p, r, a, t).active = a
         /\ Change(n, p, r, a, t).pcb[p] = r
         /\ \A q \in Pcbs \ {p} : Change(n, p, r, a, t).pcb[q] = n.pcb[q]
  BY ChangeIs

LEMMA ChangeNone ==
  ASSUME NEW n \in Nets, NEW r, NEW a \in SUBSET Pcbs, NEW t \in SUBSET Pcbs
  PROVE  /\ Null \notin Pcbs
         /\ Change(n, Null, r, a, t) \in Nets
         /\ Change(n, Null, r, a, t).active = a
         /\ \A q \in Pcbs \ {Null} : Change(n, Null, r, a, t).pcb[q] = n.pcb[q]
<1>1. Null \notin Pcbs
  BY DEF Null, Pcbs
<1>2. PICK f : f = [n.pcb EXCEPT ![Null] = r]
  OBVIOUS
<1>3. n.pcb \in [Pcbs -> PcbRecords]
  BY DEF Nets
<1>4. f \in [Pcbs -> PcbRecords] /\ \A q \in Pcbs \ {Null} : f[q] = n.pcb[q]
  BY <1>1, <1>2, <1>3
<1>5. Change(n, Null, r, a, t) = [n EXCEPT !.pcb = f, !.active = a, !.tw = t]
  BY <1>2 DEF Change
<1>6. [n EXCEPT !.pcb = f, !.active = a, !.tw = t] \in Nets
  BY <1>4 DEF Nets
<1>7. /\ [n EXCEPT !.pcb = f, !.active = a, !.tw = t].active = a
      /\ [n EXCEPT !.pcb = f, !.active = a, !.tw = t].pcb = f
  BY DEF Nets
<1> QED
  BY <1>1, <1>4, <1>5, <1>6, <1>7

LEMMA ChangeLists ==
  ASSUME NEW n \in Nets, NEW p, NEW r, NEW a, NEW t
  PROVE  /\ Change(n, p, r, a, t).active = a /\ Change(n, p, r, a, t).tw = t
         /\ Change(n, p, r, a, t).head = n.head
         /\ Change(n, p, r, a, t).next = n.next
<1>1. PICK f : f = [n.pcb EXCEPT ![p] = r]
  OBVIOUS
<1>2. Change(n, p, r, a, t) = [n EXCEPT !.pcb = f, !.active = a, !.tw = t]
  BY <1>1 DEF Change
<1> QED
  BY <1>2 DEF Nets

(* m has the active pcbs of n or fewer, and the other pcbs of n than p.    *)
Others(n, m, p) ==
  /\ m.active \subseteq n.active
  /\ \A q \in Pcbs \ {p} : m.pcb[q] = n.pcb[q]

(* The same, and p keeps its callbacks.                                    *)
Fewer(n, m, p) ==
  /\ Others(n, m, p)
  /\ p \in Pcbs => m.pcb[p].cb = n.pcb[p].cb

(* A pcb that is freed leaves its list; its callbacks are not reset.       *)
LEMMA RemoveIs ==
  ASSUME NEW n \in Nets, NEW p \in Pcbs \cup {Null}
  PROVE  /\ PcbRemove(n, p) \in Nets
         /\ Fewer(n, PcbRemove(n, p), p)
         /\ n.pcb[p].st # "TIME_WAIT" => p \notin PcbRemove(n, p).active
         /\ p \in Pcbs => PcbRemove(n, p).pcb[p] = [n.pcb[p] EXCEPT !.st = "CLOSED"]
         /\ PcbRemove(n, p).head = p
<1>1. PICK r, a, t :
        /\ r = [n.pcb[p] EXCEPT !.st = "CLOSED"]
        /\ a = IF n.pcb[p].st = "TIME_WAIT" THEN n.active ELSE n.active \ {p}
        /\ t = IF n.pcb[p].st = "TIME_WAIT" THEN n.tw \ {p} ELSE n.tw
  OBVIOUS
<1>2. p \in Pcbs => r \in PcbRecords
  BY <1>1 DEF Nets, PcbRecords, States
<1>3. p \in Pcbs => r.cb = n.pcb[p].cb
  BY <1>1 DEF Nets, PcbRecords, States
<1>4. a \subseteq n.active /\ (n.pcb[p].st # "TIME_WAIT" => p \notin a)
  BY <1>1
<1>5. a \in SUBSET Pcbs /\ t \in SUBSET Pcbs
  BY <1>1 DEF Nets
<1> DEFINE m == Change(n, p, r, a, t)
<1>6. PcbRemove(n, p) = MempFree(m, p)
  BY <1>1 DEF PcbRemove, Change
<1>7. /\ m \in Nets /\ m.active = a
      /\ p \in Pcbs => m.pcb[p] = r
      /\ \A q \in Pcbs \ {p} : m.pcb[q] = n.pcb[q]
  BY <1>2, <1>5, ChangeIs
<1> HIDE DEF m
<1>8. /\ PcbRemove(n, p) \in Nets /\ PcbRemove(n, p).active = a
      /\ PcbRemove(n, p).pcb = m.pcb /\ PcbRemove(n, p).head = p
  BY <1>6, <1>7, MempFreeIs
<1> QED
  BY <1>1, <1>3, <1>4, <1>7, <1>8 DEF Fewer, Others

(* A pcb lwIP gives up leaves the active list.                             *)
LEMMA ExpireIs ==
  ASSUME NEW n \in Nets, NEW p \in Pcbs
  PROVE  /\ Expire(n, p) \in Nets
         /\ Expire(n, p).active = n.active \ {p}
         /\ Expire(n, p).pcb = n.pcb
<1> DEFINE m == [n EXCEPT !.active = @ \ {p}, !.tw = @ \ {p}]
<1>1. m \in Nets /\ m.active = n.active \ {p} /\ m.pcb = n.pcb
  BY DEF Nets
<1>2. Expire(n, p) = MempFree(m, p)
  BY DEF Expire
<1> HIDE DEF m
<1> QED
  BY <1>1, <1>2, MempFreeIs

(* A pcb that was closed and is still there neither opens nor passes data  *)
(* up.                                                                     *)
LEMMA TcpCloseIs ==
  ASSUME NEW n \in Nets, NEW p \in Pcbs \cup {Null}
  PROVE  /\ TcpClose(n, p) \in Nets
         /\ Fewer(n, TcpClose(n, p), p)
         /\ p \in Pcbs /\ p \in TcpClose(n, p).active =>
              /\ TcpClose(n, p).pcb[p].st # "SYN_SENT"
              /\ TcpClose(n, p).pcb[p].rxc
<1> DEFINE Now(r) == Change(n, p, r, n.active, n.tw)
           Rec(st) == [n.pcb[p] EXCEPT !.rxc = TRUE, !.st = st]
           m == Now(Rec(n.pcb[p].st))
<1>1. ASSUME NEW st \in States, p \in Pcbs
      PROVE  /\ Rec(st) \in PcbRecords /\ Rec(st).cb = n.pcb[p].cb
             /\ Rec(st).rxc /\ Rec(st).st = st
  BY <1>1 DEF Nets, PcbRecords, States
<1>2. p \in Pcbs => n.pcb[p] \in PcbRecords
  BY DEF Nets
<1>3. p \in Pcbs => n.pcb[p].st \in States
  BY <1>2 DEF PcbRecords, States
<1>4. PICK s \in {n.pcb[p].st, "FIN_WAIT", "LAST_ACK"} :
        /\ TcpClose(n, p) = Now(Rec(s)) \/ TcpClose(n, p) = PcbRemove(m, p)
        /\ n.pcb[p].st \in {"CLOSED", "SYN_SENT"} => TcpClose(n, p) = PcbRemove(m, p)
  BY ZenonT(60) DEF TcpClose, Change
<1>5. n.active \in SUBSET Pcbs /\ n.tw \in SUBSET Pcbs
  BY DEF Nets
<1> HIDE DEF Rec
<1>6. ASSUME NEW st \in {n.pcb[p].st, "FIN_WAIT", "LAST_ACK"}
      PROVE  /\ Now(Rec(st)) \in Nets /\ Fewer(n, Now(Rec(st)), p)
             /\ Now(Rec(st)).active = n.active
             /\ p \in Pcbs => Now(Rec(st)).pcb[p] = Rec(st)
  <2>1. /\ Now(Rec(st)) \in Nets /\ Now(Rec(st)).active = n.active
        /\ p \in Pcbs => Now(Rec(st)).pcb[p] = Rec(st)
        /\ \A q \in Pcbs \ {p} : Now(Rec(st)).pcb[q] = n.pcb[q]
    BY <1>1, <1>3, <1>5, ChangeIs DEF States
  <2>2. p \in Pcbs => Rec(st).cb = n.pcb[p].cb
    BY <1>1, <1>3 DEF States
  <2> HIDE DEF Now
  <2> QED
    BY <2>1, <2>2 DEF Fewer, Others
<1> HIDE DEF Now
<1>7. CASE TcpClose(n, p) = Now(Rec(s)) /\ n.pcb[p].st \notin {"CLOSED", "SYN_SENT"}
  BY <1>1, <1>3, <1>6, <1>7 DEF States
<1>8. CASE TcpClose(n, p) = PcbRemove(m, p)
  <2>1. m \in Nets /\ Fewer(n, m, p)
    BY <1>6
  <2>2. p \in Pcbs => m.pcb[p].st = n.pcb[p].st /\ m.pcb[p].rxc
    BY <1>1, <1>3, <1>6
  <2> HIDE DEF m
  <2>3. /\ PcbRemove(m, p) \in Nets /\ Fewer(m, PcbRemove(m, p), p)
        /\ m.pcb[p].st # "TIME_WAIT" => p \notin PcbRemove(m, p).active
        /\ p \in Pcbs => PcbRemove(m, p).pcb[p] = [m.pcb[p] EXCEPT !.st = "CLOSED"]
    BY <2>1, RemoveIs
  <2>4. p \in Pcbs => m.pcb[p] \in PcbRecords
    BY <2>1 DEF Nets
  <2>5. p \in Pcbs => PcbRemove(m, p).pcb[p].st = "CLOSED" /\ PcbRemove(m, p).pcb[p].rxc
    BY <2>2, <2>3, <2>4 DEF PcbRecords
  <2> QED
    BY <1>8, <2>1, <2>3, <2>5 DEF Fewer, Others
<1> QED
  BY <1>4, <1>7, <1>8

(* tcp_new gives a pcb that is reset.                                      *)
LEMMA TakeIs ==
  ASSUME NEW n \in Nets, n.head # Null
  PROVE  /\ Take(n) \in Nets
         /\ Others(n, Take(n), n.head)
         /\ Take(n).pcb[n.head] = FreshPcb
<1> DEFINE h == n.head
           m == Change(n, h, FreshPcb, n.active, n.tw)
<1>1. h \in Pcbs /\ FreshPcb \in PcbRecords /\ n.next[h] \in Pcbs \cup {Null}
  BY DEF Nets, FreshPcb, PcbRecords, States
<1>2. n.active \in SUBSET Pcbs /\ n.tw \in SUBSET Pcbs
  BY DEF Nets
<1>3. Take(n) = [m EXCEPT !.head = n.next[h]]
  BY DEF Take, Change
<1> HIDE DEF h
<1>4. /\ m \in Nets /\ m.active = n.active /\ m.pcb[h] = FreshPcb
      /\ \A q \in Pcbs \ {h} : m.pcb[q] = n.pcb[q]
  BY <1>1, <1>2, ChangeIs
<1> HIDE DEF m
<1>5. [m EXCEPT !.head = n.next[h]] \in Nets
  BY <1>1, <1>4 DEF Nets
<1> QED
  BY <1>3, <1>4, <1>5 DEF Others, h, Nets

LEMMA TcpNewIs ==
  ASSUME NEW n \in Nets, NEW pn \in TcpNew(n)
  PROVE  /\ pn[1] \in Pcbs /\ pn[2] \in Nets
         /\ Others(n, pn[2], pn[1])
         /\ pn[2].pcb[pn[1]] = FreshPcb
<1>1. CASE n.head # Null
  <2>1. pn = <<n.head, Take(n)>> /\ n.head \in Pcbs
    BY <1>1 DEF TcpNew, Nets
  <2> QED
    BY <1>1, <2>1, TakeIs
<1>2. CASE n.head = Null
  <2>1. PICK p \in Victims(n) : pn = <<p, Take(PcbRemove(n, p))>>
    BY <1>2 DEF TcpNew
  <2>2. p \in Pcbs /\ p # Null
    BY DEF Victims, Nets, Pcbs, Null
  <2>3. /\ PcbRemove(n, p) \in Nets /\ Others(n, PcbRemove(n, p), p)
        /\ PcbRemove(n, p).head = p
    BY <2>2, RemoveIs DEF Fewer
  <2> QED
    BY <2>1, <2>2, <2>3, TakeIs DEF Others
<1> QED
  BY <1>1, <1>2

LEMMA FieldTypes ==
  ASSUME NEW n \in Nets
  PROVE  /\ n.active \in SUBSET Pcbs /\ n.tw \in SUBSET Pcbs
         /\ \A p \in Pcbs : /\ n.pcb[p].st \in States /\ n.pcb[p].cb \in BOOLEAN
                            /\ n.pcb[p].arg \in Blocks \cup {Null}
<1>1. n.pcb \in [Pcbs -> PcbRecords] /\ n.active \in SUBSET Pcbs /\ n.tw \in SUBSET Pcbs
  BY DEF Nets
<1>2. \A p \in Pcbs : n.pcb[p] \in PcbRecords
  BY <1>1
<1> QED
  BY <1>1, <1>2 DEF PcbRecords, States

(* Some fields of one pcb change, and the lists.                           *)
Update(n, p, st, cb, arg, a, t) ==
  Change(n, p, [n.pcb[p] EXCEPT !.st = st, !.cb = cb, !.arg = arg], a, t)

(* m is n but for the lists and some fields of p.                          *)
Becomes(n, m, p, st, cb, arg, a, t) ==
  /\ m \in Nets /\ m.active = a /\ m.tw = t
  /\ m.head = n.head /\ m.next = n.next
  /\ p \in Pcbs => /\ m.pcb[p].st = st /\ m.pcb[p].cb = cb
                  /\ m.pcb[p].arg = arg /\ m.pcb[p].rxc = n.pcb[p].rxc
  /\ \A q \in Pcbs \ {p} : m.pcb[q] = n.pcb[q]

LEMMA UpdateIs ==
  ASSUME NEW n \in Nets, NEW p \in Pcbs \cup {Null},
         NEW st \in States \cup {n.pcb[p].st},
         NEW cb \in BOOLEAN \cup {n.pcb[p].cb},
         NEW arg \in Blocks \cup {Null, n.pcb[p].arg},
         NEW a \in SUBSET Pcbs, NEW t \in SUBSET Pcbs
  PROVE  Becomes(n, Update(n, p, st, cb, arg, a, t), p, st, cb, arg, a, t)
<1>1. PICK r : r = [n.pcb[p] EXCEPT !.st = st, !.cb = cb, !.arg = arg]
  OBVIOUS
<1>2. p \in Pcbs => n.pcb[p] \in PcbRecords
  BY DEF Nets
<1>3. p \in Pcbs => r \in PcbRecords
  <2>1. p \in Pcbs => st \in States /\ cb \in BOOLEAN /\ arg \in Blocks \cup {Null}
    BY FieldTypes
  <2> QED
    BY <1>1, <1>2, <2>1 DEF PcbRecords
<1>4. p \in Pcbs => /\ r.st = st /\ r.cb = cb /\ r.arg = arg
                   /\ r.rxc = n.pcb[p].rxc
  BY <1>1, <1>2 DEF PcbRecords
<1>5. PICK m : m = Update(n, p, st, cb, arg, a, t)
  OBVIOUS
<1>6. m = Change(n, p, r, a, t)
  BY <1>1, <1>5 DEF Update
<1>7. /\ Change(n, p, r, a, t) \in Nets
      /\ Change(n, p, r, a, t).active = a
      /\ p \in Pcbs => Change(n, p, r, a, t).pcb[p] = r
      /\ \A q \in Pcbs \ {p} : Change(n, p, r, a, t).pcb[q] = n.pcb[q]
  <2>1. CASE p \in Pcbs
    BY <1>3, <2>1, ChangeOne
  <2>2. CASE p = Null
    BY <2>2, ChangeNone
  <2> QED
    BY <2>1, <2>2
<1>8. /\ m \in Nets /\ m.active = a /\ (p \in Pcbs => m.pcb[p] = r)
      /\ \A q \in Pcbs \ {p} : m.pcb[q] = n.pcb[q]
  BY <1>6, <1>7
<1>9. m.tw = t /\ m.head = n.head /\ m.next = n.next
  BY <1>6, ChangeLists
<1> QED
  BY <1>4, <1>5, <1>8, <1>9 DEF Becomes

-----------------------------------------------------------------------------
(* Types.                                                                  *)

LEMMA NetInitTyped == NetInit \in Nets
<1>1. FreshPcb \in PcbRecords
  BY DEF FreshPcb, PcbRecords, States
<1>2. [p \in Pcbs |-> FreshPcb] \in [Pcbs -> PcbRecords]
  BY <1>1
<1>3. [p \in Pcbs |-> p - 1] \in [Pcbs -> Pcbs \cup {Null}]
  BY ClientAssumption DEF Pcbs, Null
<1>4. NumPcb \in Pcbs
  BY ClientAssumption DEF Pcbs
<1> QED
  BY <1>2, <1>3, <1>4 DEF NetInit, Nets

LEMMA RebootTyped ==
  ASSUME NEW why \in {"CONNECTRETRY", "BUFALLOCRETRY", "TCPIPBUSY"},
         Reboot(why), fault' = fault, TypeOK
  PROVE  TypeOK'
<1>1. EsInit \in [Blocks -> Structs]
  BY DEF EsInit, Structs
<1> QED
  BY <1>1, NetInitTyped, ClientAssumption DEF Reboot, TypeOK, CoreIdle

(* The block of the present connection, written in one of its fields.      *)
LEMMA BlockWritten ==
  ASSUME NEW e \in [Blocks -> Structs], NEW b,
         NEW st \in {"NOT_CONNECTED", "CONNECTED", "RECEIVED", "CLOSING", "CLOSED"},
         NEW rx \in {"none", "own", "old"}
  PROVE  /\ [e EXCEPT ![b].state = st] \in [Blocks -> Structs]
         /\ [e EXCEPT ![b].rx = rx] \in [Blocks -> Structs]
         /\ [e EXCEPT ![b] = [state |-> st, rx |-> rx]] \in [Blocks -> Structs]
<1>1. b \in Blocks => /\ [e[b] EXCEPT !.state = st] \in Structs
                     /\ [e[b] EXCEPT !.rx = rx] \in Structs
                     /\ [state |-> st, rx |-> rx] \in Structs
  BY DEF Structs
<1> QED
  BY <1>1

LEMMA FreeEsTyped ==
  ASSUME TypeOK, FreeEs
  PROVE  /\ es' \in [Blocks -> Structs] /\ heap' \subseteq Blocks
         /\ client_es' \in Blocks \cup {Null}
<1>1. client_es \in Blocks => es[client_es] \in Structs
  BY DEF TypeOK
<1>2. client_es \in Blocks =>
        [es[client_es] EXCEPT !.rx = IF @ = "none" THEN @ ELSE "old"] \in Structs
  BY <1>1 DEF Structs
<1>3. es' = [es EXCEPT ![client_es] =
               [es[client_es] EXCEPT !.rx = IF @ = "none" THEN @ ELSE "old"]]
  BY DEF FreeEs
<1>4. es' \in [Blocks -> Structs]
  BY <1>2, <1>3 DEF TypeOK
<1> QED
  BY <1>4 DEF FreeEs, TypeOK

LEMMA SketchTyped ==
  ASSUME TypeOK, Sketch
  PROVE  TypeOK'
<1> USE DEF TypeOK, Idle
<1>1. CASE Open
  <2>1. PICK pn \in TcpNew(net) : client_pcb' = pn[1] /\ net' = pn[2]
    BY <1>1 DEF Open
  <2>2. net' \in Nets /\ client_pcb' \in Pcbs
    BY <2>1, TcpNewIs
  <2>3. es' \in [Blocks -> Structs]
    <3>1. \A b \in Blocks : EsInit[b] \in Structs
      BY DEF EsInit, Structs
    <3> QED
      BY <1>1, <3>1 DEF Open
  <2> QED
    BY <1>1, <2>2, <2>3, ClientAssumption DEF Open
<1>2. CASE OpenBusy
  <2>1. CASE busyRetry >= RetryLimit
    BY <1>2, <2>1, RebootTyped DEF OpenBusy
  <2>2. CASE ~(busyRetry >= RetryLimit)
    BY <1>2, <2>2, ClientAssumption DEF OpenBusy, sys
  <2> QED
    BY <2>1, <2>2
<1>3. CASE OpenNoMemory
  <2>1. CASE bufRetry >= RetryLimit
    BY <1>3, <2>1, RebootTyped DEF OpenNoMemory
  <2>2. CASE ~(bufRetry >= RetryLimit)
    <3>1. net' \in Nets /\ client_pcb' \in Pcbs \cup {Null} /\ client_es' \in Blocks \cup {Null}
      <4>1. CASE TcpNew(net) = {}
        BY <1>3, <2>2, <4>1 DEF OpenNoMemory
      <4>2. CASE TcpNew(net) # {}
        <5>1. PICK pn \in TcpNew(net) :
                client_pcb' = pn[1] /\ net' = MempFree(pn[2], pn[1]) /\ client_es' = Null
          BY <1>3, <2>2, <4>2 DEF OpenNoMemory
        <5> QED
          BY <5>1, TcpNewIs, MempFreeIs
      <4> QED
        BY <4>1, <4>2
    <3> QED
      BY <1>3, <2>2, <3>1, ClientAssumption DEF OpenNoMemory
  <2> QED
    BY <2>1, <2>2
<1>4. CASE Read
  BY <1>4, BlockWritten DEF Read, retries
<1>5. CASE Disconnect
  BY <1>5 DEF Disconnect, retries
<1> QED
  BY <1>1, <1>2, <1>3, <1>4, <1>5 DEF Sketch

LEMMA CountTyped ==
  ASSUME TypeOK, NEW e \in [Blocks -> Structs], CountConnect(e), fault' = fault
  PROVE  TypeOK'
<1>1. CASE connRetry >= RetryLimit
  BY <1>1, RebootTyped DEF CountConnect
<1>2. CASE ~(connRetry >= RetryLimit)
  BY <1>2, ClientAssumption DEF CountConnect, TypeOK
<1> QED
  BY <1>1, <1>2

(* A command is under way only on an allocated struct client, and a        *)
(* connect only with a pcb.                                                *)
Owned ==
  /\ client_es # Null => client_es \in heap
  /\ ard # "idle" => client_es # Null
  /\ ard \in {"resolve", "connWait", "connFail", "connFree", "closing"} => client_pcb # Null

(* What the steps that write the fields of one pcb do.                     *)
LEMMA ConnectNet ==
  ASSUME TypeOK, Connect, client_pcb \in Pcbs
  PROVE  Becomes(net, net', client_pcb, "SYN_SENT", net.pcb[client_pcb].cb, net.pcb[client_pcb].arg,
                 net.active \cup {client_pcb}, net.tw)
<1>1. PICK n, p0, st, cb, arg, a, t :
        /\ n = net /\ p0 = client_pcb /\ st = "SYN_SENT"
        /\ cb = net.pcb[client_pcb].cb /\ arg = net.pcb[client_pcb].arg
        /\ a = net.active \cup {client_pcb} /\ t = net.tw
  OBVIOUS
<1>2. n \in Nets /\ p0 \in Pcbs \cup {Null}
  BY <1>1 DEF TypeOK
<1>3. a \in SUBSET Pcbs /\ t \in SUBSET Pcbs
  BY <1>1, <1>2, FieldTypes
<1>4. /\ st \in States \cup {n.pcb[p0].st} /\ cb \in BOOLEAN \cup {n.pcb[p0].cb}
      /\ arg \in Blocks \cup {Null, n.pcb[p0].arg}
  BY <1>1 DEF States, TypeOK
<1>5. net' = Update(n, p0, st, cb, arg, a, t)
  BY <1>1 DEF Connect, Update, Change
<1> QED
  BY <1>1, <1>2, <1>3, <1>4, <1>5, UpdateIs

LEMMA CloseTimeoutNet ==
  ASSUME TypeOK, CloseTimeout
  PROVE  Becomes(net, net', client_pcb, net.pcb[client_pcb].st, net.pcb[client_pcb].cb, Null,
                 net.active, net.tw)
<1>1. PICK n, p0, st, cb, arg, a, t :
        /\ n = net /\ p0 = client_pcb /\ st = net.pcb[client_pcb].st
        /\ cb = net.pcb[client_pcb].cb /\ arg = Null
        /\ a = net.active /\ t = net.tw
  OBVIOUS
<1>2. n \in Nets /\ p0 \in Pcbs \cup {Null}
  BY <1>1 DEF TypeOK
<1>3. a \in SUBSET Pcbs /\ t \in SUBSET Pcbs
  BY <1>1, <1>2, FieldTypes
<1>4. /\ st \in States \cup {n.pcb[p0].st} /\ cb \in BOOLEAN \cup {n.pcb[p0].cb}
      /\ arg \in Blocks \cup {Null, n.pcb[p0].arg}
  BY <1>1 DEF States, TypeOK
<1>5. net' = Update(n, p0, st, cb, arg, a, t)
  BY <1>1 DEF CloseTimeout, Update, Change
<1> QED
  BY <1>1, <1>2, <1>3, <1>4, <1>5, UpdateIs

LEMMA RunConnectedNet ==
  ASSUME TypeOK, RunConnected
  PROVE  Becomes(net, net', core.p, net.pcb[core.p].st, TRUE, client_es,
                 net.active, net.tw)
<1>1. PICK n, p0, st, cb, arg, a, t :
        /\ n = net /\ p0 = core.p /\ st = net.pcb[core.p].st
        /\ cb = TRUE /\ arg = client_es
        /\ a = net.active /\ t = net.tw
  OBVIOUS
<1>2. n \in Nets /\ p0 \in Pcbs \cup {Null}
  BY <1>1 DEF TypeOK
<1>3. a \in SUBSET Pcbs /\ t \in SUBSET Pcbs
  BY <1>1, <1>2, FieldTypes
<1>4. /\ st \in States \cup {n.pcb[p0].st} /\ cb \in BOOLEAN \cup {n.pcb[p0].cb}
      /\ arg \in Blocks \cup {Null, n.pcb[p0].arg}
  BY <1>1 DEF States, TypeOK
<1>5. net' = Update(n, p0, st, cb, arg, a, t)
  BY <1>1, ZenonT(60) DEF RunConnected, Update, Change
<1> QED
  BY <1>1, <1>2, <1>3, <1>4, <1>5, UpdateIs, ZenonT(60)

LEMMA SynAckNet ==
  ASSUME TypeOK, NEW p \in Pcbs, SynAck(p)
  PROVE  Becomes(net, net', p, "ESTABLISHED", net.pcb[p].cb, net.pcb[p].arg,
                 net.active, net.tw)
<1>1. PICK n, p0, st, cb, arg, a, t :
        /\ n = net /\ p0 = p /\ st = "ESTABLISHED"
        /\ cb = net.pcb[p].cb /\ arg = net.pcb[p].arg
        /\ a = net.active /\ t = net.tw
  OBVIOUS
<1>2. n \in Nets /\ p0 \in Pcbs \cup {Null}
  BY <1>1 DEF TypeOK
<1>3. a \in SUBSET Pcbs /\ t \in SUBSET Pcbs
  BY <1>1, <1>2, FieldTypes
<1>4. /\ st \in States \cup {n.pcb[p0].st} /\ cb \in BOOLEAN \cup {n.pcb[p0].cb}
      /\ arg \in Blocks \cup {Null, n.pcb[p0].arg}
  BY <1>1 DEF States, TypeOK
<1>5. net' = Update(n, p0, st, cb, arg, a, t)
  BY <1>1 DEF SynAck, Stack, Update, Change
<1> QED
  BY <1>1, <1>2, <1>3, <1>4, <1>5, UpdateIs

LEMMA FinNet ==
  ASSUME TypeOK, NEW p \in Pcbs, Fin(p), net.pcb[p].st = "ESTABLISHED"
  PROVE  Becomes(net, net', p, "CLOSE_WAIT", net.pcb[p].cb, net.pcb[p].arg,
                 net.active, net.tw)
<1>1. PICK n, p0, st, cb, arg, a, t :
        /\ n = net /\ p0 = p /\ st = "CLOSE_WAIT"
        /\ cb = net.pcb[p].cb /\ arg = net.pcb[p].arg
        /\ a = net.active /\ t = net.tw
  OBVIOUS
<1>2. n \in Nets /\ p0 \in Pcbs \cup {Null}
  BY <1>1 DEF TypeOK
<1>3. a \in SUBSET Pcbs /\ t \in SUBSET Pcbs
  BY <1>1, <1>2, FieldTypes
<1>4. /\ st \in States \cup {n.pcb[p0].st} /\ cb \in BOOLEAN \cup {n.pcb[p0].cb}
      /\ arg \in Blocks \cup {Null, n.pcb[p0].arg}
  BY <1>1 DEF States, TypeOK
<1>5. net' = Update(n, p0, st, cb, arg, a, t)
  BY <1>1 DEF Fin, Stack, Update, Change
<1> QED
  BY <1>1, <1>2, <1>3, <1>4, <1>5, UpdateIs

LEMMA FinWaitNet ==
  ASSUME TypeOK, NEW p \in Pcbs, Fin(p), net.pcb[p].st # "ESTABLISHED"
  PROVE  Becomes(net, net', p, "TIME_WAIT", net.pcb[p].cb, net.pcb[p].arg,
                 net.active \ {p}, net.tw \cup {p})
<1>1. PICK n, p0, st, cb, arg, a, t :
        /\ n = net /\ p0 = p /\ st = "TIME_WAIT"
        /\ cb = net.pcb[p].cb /\ arg = net.pcb[p].arg
        /\ a = net.active \ {p} /\ t = net.tw \cup {p}
  OBVIOUS
<1>2. n \in Nets /\ p0 \in Pcbs \cup {Null}
  BY <1>1 DEF TypeOK
<1>3. a \in SUBSET Pcbs /\ t \in SUBSET Pcbs
  BY <1>1, <1>2, FieldTypes
<1>4. /\ st \in States \cup {n.pcb[p0].st} /\ cb \in BOOLEAN \cup {n.pcb[p0].cb}
      /\ arg \in Blocks \cup {Null, n.pcb[p0].arg}
  BY <1>1 DEF States, TypeOK
<1>5. net' = Update(n, p0, st, cb, arg, a, t)
  BY <1>1 DEF Fin, Stack, Update, Change
<1> QED
  BY <1>1, <1>2, <1>3, <1>4, <1>5, UpdateIs

(* m is n after p lost its callbacks and was closed.                       *)
Closes(n, m, p) ==
  /\ m \in Nets /\ Others(n, m, p)
  /\ p \in Pcbs => ~m.pcb[p].cb
  /\ p \in Pcbs /\ p \in m.active => m.pcb[p].st # "SYN_SENT" /\ m.pcb[p].rxc

LEMMA CloseUpdateIs ==
  ASSUME NEW n \in Nets, NEW p \in Pcbs \cup {Null},
         NEW arg \in Blocks \cup {Null, n.pcb[p].arg}
  PROVE  Closes(n, TcpClose(Update(n, p, n.pcb[p].st, FALSE, arg, n.active, n.tw), p), p)
<1>1. PICK m : m = Update(n, p, n.pcb[p].st, FALSE, arg, n.active, n.tw)
  OBVIOUS
<1>2. n.active \in SUBSET Pcbs /\ n.tw \in SUBSET Pcbs
  BY FieldTypes
<1>3. Becomes(n, m, p, n.pcb[p].st, FALSE, arg, n.active, n.tw)
  BY <1>1, <1>2, UpdateIs
<1>4. PICK c : c = TcpClose(m, p)
  OBVIOUS
<1>5. m \in Nets /\ Others(n, m, p) /\ (p \in Pcbs => ~m.pcb[p].cb)
  BY <1>3 DEF Becomes, Others
<1>6. /\ c \in Nets /\ Fewer(m, c, p)
      /\ p \in Pcbs /\ p \in c.active => c.pcb[p].st # "SYN_SENT" /\ c.pcb[p].rxc
  BY <1>4, <1>5, TcpCloseIs
<1> QED
  BY <1>1, <1>4, <1>5, <1>6 DEF Closes, Fewer, Others

LEMMA CloseRestNet ==
  ASSUME TypeOK, CloseRest
  PROVE  Closes(net, net', client_pcb)
<1>1. PICK n, p0, arg : n = net /\ p0 = client_pcb /\ arg = net.pcb[client_pcb].arg
  OBVIOUS
<1>2. n \in Nets /\ p0 \in Pcbs \cup {Null}
  BY <1>1 DEF TypeOK
<1>3. [n EXCEPT !.pcb[p0].cb = FALSE] =
        Update(n, p0, n.pcb[p0].st, FALSE, arg, n.active, n.tw)
  BY <1>1 DEF Update, Change
<1>4. net' = TcpClose(Update(n, p0, n.pcb[p0].st, FALSE, arg, n.active, n.tw), p0)
  BY <1>1, <1>3 DEF CloseRest
<1> QED
  BY <1>1, <1>2, <1>4, CloseUpdateIs

LEMMA ConnectionCloseNet ==
  ASSUME TypeOK, NEW p \in Pcbs \cup {Null}, NEW b, ConnectionClose(p, b)
  PROVE  Closes(net, net', p)
<1>1. PICK n : n = net
  OBVIOUS
<1>2. n \in Nets
  BY <1>1 DEF TypeOK
<1>3. [n EXCEPT !.pcb[p].cb = FALSE, !.pcb[p].arg = Null] =
        Update(n, p, n.pcb[p].st, FALSE, Null, n.active, n.tw)
  BY DEF Update, Change
<1>4. net' = TcpClose(Update(n, p, n.pcb[p].st, FALSE, Null, n.active, n.tw), p)
  BY <1>1, <1>3 DEF ConnectionClose
<1> QED
  BY <1>1, <1>2, <1>4, CloseUpdateIs

LEMMA ArduinoTyped ==
  ASSUME TypeOK, Owned, Arduino
  PROVE  TypeOK'
<1> USE DEF TypeOK, retries
<1>1. CASE DnsFails
  BY <1>1 DEF DnsFails
<1>2. CASE Connect
  <2>1. client_pcb \in Pcbs
    BY <1>2 DEF Connect, Owned
  <2>2. net' \in Nets
    BY <1>2, <2>1, ConnectNet DEF Becomes
  <2> QED
    BY <1>2, <2>2, BlockWritten DEF Connect
<1>3. CASE ConnectLoops \/ CloseTimeoutNull
  BY <1>3 DEF ConnectLoops, CloseTimeoutNull, sys
<1>4. CASE ConnectNoRoute
  BY <1>4, CountTyped, BlockWritten DEF ConnectNoRoute
<1>5. CASE ConnOk
  BY <1>5, ClientAssumption DEF ConnOk
<1>6. CASE ConnFails
  BY <1>6, CountTyped DEF ConnFails
<1>7. CASE FailClose
  BY <1>7, TcpCloseIs DEF FailClose
<1>8. CASE FailFree
  BY <1>8, FreeEsTyped DEF FailFree
<1>9. CASE FreeBody
  BY <1>9, BlockWritten DEF FreeBody
<1>10. CASE CloseTake
  <2>1. /\ es' \in [Blocks -> Structs] /\ heap' \subseteq Blocks
        /\ client_es' \in Blocks \cup {Null}
        /\ mutex' \in {mutex, "arduino"} /\ ard' \in {"idle", "closeWait"}
    <3>1. CASE State = "CLOSED"
      BY <1>10, <3>1, FreeEsTyped DEF CloseTake
    <3>2. CASE State = "CLOSING"
      BY <1>10, <3>2 DEF CloseTake
    <3>3. CASE State \notin {"CLOSED", "CLOSING"}
      <4>1. es' = [es EXCEPT ![client_es].state = "CLOSING"]
        BY <1>10, <3>3 DEF CloseTake
      <4>2. es' \in [Blocks -> Structs]
        BY <4>1, BlockWritten
      <4> QED
        BY <1>10, <3>3, <4>2 DEF CloseTake
    <3> QED
      BY <3>1, <3>2, <3>3
  <2> QED
    BY <1>10, <2>1 DEF CloseTake
<1>11. CASE CloseDone
  BY <1>11, FreeEsTyped DEF CloseDone
<1>12. CASE CloseTimeout
  <2>1. net' \in Nets
    BY <1>12, CloseTimeoutNet DEF Becomes
  <2> QED
    BY <1>12, <2>1 DEF CloseTimeout
<1>13. CASE CloseRest
  <2>1. net' \in Nets
    BY <1>13, CloseRestNet DEF Closes
  <2> QED
    BY <1>13, <2>1, BlockWritten DEF CloseRest
<1> QED
  BY <1>1, <1>2, <1>3, <1>4, <1>5, <1>6, <1>7, <1>8, <1>9, <1>10, <1>11, <1>12,
     <1>13 DEF Arduino

LEMMA StackTyped ==
  ASSUME TypeOK, NEW p \in Pcbs,
         \/ Reset(p) \/ Data(p) \/ Fin(p) \/ SynAck(p) \/ GiveUp(p)
         \/ LastAck(p) \/ Poll(p)
  PROVE  TypeOK'
<1>1. PICK n, callback : Stack(n, callback) /\ n = net' /\ callback = core'
  BY DEF Reset, Data, Fin, SynAck, GiveUp, LastAck, Poll, Stack
<1>2. n \in Nets
  <2>1. CASE Reset(p) \/ Data(p) \/ LastAck(p) \/ Poll(p)
    <3>1. net' = net \/ net' = PcbRemove(net, p)
      BY <2>1 DEF Reset, Data, LastAck, Poll, Stack
    <3>2. net \in Nets
      BY DEF TypeOK
    <3> QED
      BY <1>1, <3>1, <3>2, RemoveIs
  <2>2. CASE GiveUp(p)
    BY <1>1, <2>2, ExpireIs DEF GiveUp, Stack, TypeOK
  <2>3. CASE SynAck(p)
    BY <1>1, <2>3, SynAckNet DEF Becomes
  <2>4. CASE Fin(p)
    BY <1>1, <2>4, FinNet, FinWaitNet DEF Becomes
  <2> QED
    BY <2>1, <2>2, <2>3, <2>4
<1>3. callback \in {CoreIdle} \cup {Call(pc, p) : pc \in {"connected", "data", "fin", "poll"}}
  BY <1>1 DEF Reset, Data, Fin, SynAck, GiveUp, LastAck, Poll, Stack
<1>4. core' \in [pc : {"idle", "connected", "data", "fin", "poll"},
                p : Pcbs \cup {Null}, arg : Blocks \cup {Null}]
  BY <1>1, <1>3, FieldTypes DEF TypeOK, CoreIdle, Call
<1> QED
  BY <1>1, <1>2, <1>4 DEF Stack, TypeOK, retries

LEMMA CallbackTyped ==
  ASSUME TypeOK, Callback
  PROVE  TypeOK'
<1> USE DEF TypeOK, retries
<1>1. /\ core.p \in Pcbs \cup {Null}
      /\ CoreIdle \in [pc : {"idle", "connected", "data", "fin", "poll"},
                      p : Pcbs \cup {Null}, arg : Blocks \cup {Null}]
  BY DEF CoreIdle
<1>2. ASSUME NEW p \in Pcbs \cup {Null}, NEW b, ConnectionClose(p, b)
      PROVE  net' \in Nets /\ es' \in [Blocks -> Structs]
  BY <1>2, ConnectionCloseNet, BlockWritten DEF ConnectionClose, Closes
<1>3. CASE RunConnected
  <2>1. net' \in Nets
    BY <1>1, <1>3, RunConnectedNet DEF Becomes
  <2>2. es' \in [Blocks -> Structs]
    BY <1>3, BlockWritten DEF RunConnected
  <2> QED
    BY <1>1, <1>3, <2>1, <2>2 DEF RunConnected
<1>4. CASE RunData
  <2>1. es' \in [Blocks -> Structs]
    <3>1. client_es \in Blocks
      BY <1>4 DEF RunData, Dangling
    <3>2. PICK e, rx, b, c :
            /\ rx = IF es[client_es].rx = "none" THEN "own" ELSE es[client_es].rx
            /\ b = client_es /\ c = core.arg /\ e = es
      OBVIOUS
    <3>3. es' = e \/ es' = [[e EXCEPT ![b].rx = rx] EXCEPT ![c].state = "RECEIVED"]
      BY <1>4, <3>2 DEF RunData
    <3>4. e \in [Blocks -> Structs] /\ e[b] \in Structs
      BY <3>1, <3>2
    <3>5. rx \in {"none", "own", "old"}
      BY <3>2, <3>4 DEF Structs
    <3>6. [e EXCEPT ![b].rx = rx] \in [Blocks -> Structs]
      BY <3>4, <3>5, BlockWritten
    <3>7. [[e EXCEPT ![b].rx = rx] EXCEPT ![c].state = "RECEIVED"] \in [Blocks -> Structs]
      BY <3>6, BlockWritten
    <3> QED
      BY <3>3, <3>4, <3>7
  <2> QED
    BY <1>1, <1>4, <2>1 DEF RunData
<1>5. CASE RunFin
  <2>1. CASE ConnectionClose(core.p, core.arg)
    <3>1. net' \in Nets /\ es' \in [Blocks -> Structs]
      BY <1>1, <1>2, <2>1
    <3> QED
      BY <1>1, <1>5, <3>1 DEF RunFin
  <2>2. CASE es' = [es EXCEPT ![core.arg].state = "CLOSING"] /\ UNCHANGED net
    <3>1. es' \in [Blocks -> Structs]
      BY <2>2, BlockWritten
    <3> QED
      BY <1>1, <1>5, <2>2, <3>1 DEF RunFin
  <2> QED
    BY <1>5, <2>1, <2>2 DEF RunFin
<1>6. CASE RunPoll
  <2>1. net' \in Nets /\ es' \in [Blocks -> Structs]
    BY <1>1, <1>2, <1>6 DEF RunPoll
  <2> QED
    BY <1>1, <1>6, <2>1 DEF RunPoll
<1>7. CASE RunPollAbort
  <2>1. net' \in Nets
    BY <1>1, <1>7, RemoveIs DEF RunPollAbort
  <2> QED
    BY <1>1, <1>7, <2>1 DEF RunPollAbort
<1>8. CASE RunDangling
  BY <1>8 DEF RunDangling, sys
<1> QED
  BY <1>3, <1>4, <1>5, <1>6, <1>7, <1>8 DEF Callback

LEMMA TypeStep ==
  ASSUME TypeOK, Owned, [Next]_vars
  PROVE  TypeOK'
<1>1. CASE Sketch
  BY <1>1, SketchTyped
<1>2. CASE Arduino
  BY <1>2, ArduinoTyped
<1>3. CASE Peer \/ Answers \/ \E p \in Pcbs : Poll(p)
  BY <1>3, StackTyped DEF Peer, Answers
<1>4. CASE Callback
  BY <1>4, CallbackTyped
<1>5. CASE UNCHANGED vars
  BY <1>5 DEF vars, sys, retries, TypeOK
<1> QED
  BY <1>1, <1>2, <1>3, <1>4, <1>5 DEF Next

-----------------------------------------------------------------------------
(* Who owns what.                                                          *)

LEMMA RebootOwned ==
  ASSUME NEW why, Reboot(why)
  PROVE  Owned'
  BY DEF Reboot, Owned

LEMMA OwnedStep ==
  ASSUME TypeOK, Owned, [Next]_vars
  PROVE  Owned'
<1> USE DEF Owned
<1>1. CASE Sketch
  <2>1. CASE Open
    <3>1. PICK pn \in TcpNew(net) : client_pcb' = pn[1]
      BY <2>1 DEF Open
    <3>2. client_pcb' # Null
      BY <3>1, TcpNewIs DEF TypeOK, Pcbs, Null
    <3>3. client_es' \in heap' /\ client_es' # Null
      BY <2>1 DEF Open, Blocks, Null
    <3> QED
      BY <3>2, <3>3
  <2>2. CASE OpenBusy
    BY <2>2, RebootOwned DEF OpenBusy, sys
  <2>3. CASE OpenNoMemory
    <3>1. CASE bufRetry >= RetryLimit
      BY <2>3, <3>1, RebootOwned DEF OpenNoMemory
    <3>2. CASE ~(bufRetry >= RetryLimit)
      BY <2>3, <3>2 DEF OpenNoMemory, Idle
    <3> QED
      BY <3>1, <3>2
  <2>4. CASE Read
    BY <2>4 DEF Read, Idle
  <2>5. CASE Disconnect
    BY <2>5 DEF Disconnect, Idle
  <2> QED
    BY <1>1, <2>1, <2>2, <2>3, <2>4, <2>5 DEF Sketch
<1>2. CASE Arduino
  <2>1. ASSUME NEW e, CountConnect(e), ard \in {"resolve", "connWait"}
        PROVE  Owned'
    BY <2>1, RebootOwned DEF CountConnect
  <2>2. CASE ConnectNoRoute \/ ConnFails
    BY <2>1, <2>2 DEF ConnectNoRoute, ConnFails
  <2>3. CASE ConnectLoops \/ CloseTimeoutNull
    BY <2>3 DEF ConnectLoops, CloseTimeoutNull, sys
  <2>4. CASE DnsFails \/ Connect \/ ConnOk \/ FailClose
    BY <2>4 DEF DnsFails, Connect, ConnOk, FailClose
  <2>5. CASE FailFree \/ CloseDone
    BY <2>5 DEF FailFree, CloseDone, FreeEs
  <2>6. CASE FreeBody \/ CloseTimeout \/ CloseRest
    BY <2>6 DEF FreeBody, CloseTimeout, CloseRest
  <2>7. CASE CloseTake
    BY <2>7 DEF CloseTake, FreeEs
  <2> QED
    BY <1>2, <2>2, <2>3, <2>4, <2>5, <2>6, <2>7 DEF Arduino
<1>3. CASE Peer \/ Answers \/ \E p \in Pcbs : Poll(p)
  BY <1>3 DEF Peer, Answers, Reset, Data, Fin, SynAck, GiveUp, LastAck, Poll, Stack
<1>4. CASE Callback
  BY <1>4 DEF Callback, RunConnected, RunData, RunFin, RunPoll, RunPollAbort,
     RunDangling, sys
<1>5. CASE UNCHANGED vars
  BY <1>5 DEF vars, sys
<1> QED
  BY <1>1, <1>2, <1>3, <1>4, <1>5 DEF Next

LEMMA Start == Init => TypeOK /\ Owned
<1>1. EsInit \in [Blocks -> Structs]
  BY DEF EsInit, Structs
<1>2. Init => TypeOK
  <2> SUFFICES ASSUME Init PROVE TypeOK
    OBVIOUS
  <2>1. net \in Nets /\ es \in [Blocks -> Structs] /\ heap \subseteq Blocks
    BY <1>1, NetInitTyped DEF Init
  <2>2. core \in [pc : {"idle", "connected", "data", "fin", "poll"},
                 p : Pcbs \cup {Null}, arg : Blocks \cup {Null}]
    BY DEF Init, CoreIdle
  <2>3. {connRetry, bufRetry, busyRetry} \subseteq 0..(RetryLimit)
    BY ClientAssumption DEF Init
  <2> QED
    BY <2>1, <2>2, <2>3 DEF Init, TypeOK
<1>3. Init => Owned
  BY DEF Init, Owned
<1> QED
  BY <1>2, <1>3

(* The types, and the retry counters within their limits: the step that    *)
(* reaches a limit is the one that resets the board.                       *)
THEOREM ClientTypeCorrect == Spec => []TypeOK
<1>1. Init => TypeOK /\ Owned
  BY Start
<1>2. TypeOK /\ Owned /\ [Next]_vars => (TypeOK /\ Owned)'
  BY TypeStep, OwnedStep
<1> QED
  BY <1>1, <1>2, PTL DEF Spec

-----------------------------------------------------------------------------
(* Callbacks.  Pcb p calls back if it is served and its callbacks are set. *)

Served == {p \in net.active : net.pcb[p].cb}

Opens(p) == p \in net.active /\ net.pcb[p].st = "SYN_SENT"

(* Whoever calls back is the pcb of the present connection, which is open. *)
Binding ==
  \A p \in Served :
    /\ p = client_pcb /\ client_es # Null
    /\ net.pcb[p].arg = client_es \/ ard = "closing"
    /\ State \in {"CONNECTED", "RECEIVED", "CLOSING"}
    /\ net.pcb[p].st \in {"ESTABLISHED", "CLOSE_WAIT"}

(* Where the arduino thread gives a pcb or a struct client away, nobody    *)
(* calls back; and while it waits for a connect the peer says nothing.     *)
Quiet ==
  /\ ard \in {"resolve", "connFail", "connFree"} => Served = {}
  /\ ard = "closing" /\ mutex = "none" => Served = {}
  /\ ard = "connWait" /\ mutex = "arduino" => Served = {}
  /\ ard = "connWait" /\ Served # {} => State = "CONNECTED"
  /\ ard = "resolve" => ~net.pcb[client_pcb].cb

(* A SYN is out only for the connect under way; with the mutex free that   *)
(* connect waits for it.                                                   *)
Opening ==
  \A p \in Pcbs : Opens(p) =>
    /\ p = client_pcb /\ client_es # Null /\ State = "NOT_CONNECTED"
    /\ ard = "connWait" \/ (ard = "connFail" /\ mutex = "arduino")

(* A pcb that still passes data up has its callbacks, or is about to get   *)
(* them.                                                                   *)
Receiving ==
  \A p \in net.active :
    net.pcb[p].st \notin {"CLOSED", "SYN_SENT"} /\ ~net.pcb[p].rxc =>
      net.pcb[p].cb \/ (core.pc = "connected" /\ core.p = p)

(* A callback that can get the mutex is one of the present connection.     *)
Pending ==
  mutex = "none" =>
    /\ core.pc \in {"data", "fin", "poll"} => core.p \in Served /\ core.arg = client_es
    /\ core.pc \in {"data", "fin"} => ard # "connWait"
    /\ core.pc = "connected" =>
         /\ core.p = client_pcb /\ client_pcb \in net.active
         /\ net.pcb[client_pcb].st = "ESTABLISHED"
         /\ ard = "connWait" /\ State = "NOT_CONNECTED"

Control == Binding /\ Quiet /\ Opening /\ Receiving /\ Pending

(* A peer that waits for the connect to return and opens its window.       *)
Patient == Env \cap {"early", "stuck"} = {}

(* Between connections nobody calls back or opens, and no callback waits   *)
(* that could get the mutex.                                               *)
Silent ==
  /\ Served = {} /\ Receiving
  /\ \A p \in Pcbs : ~Opens(p)
  /\ mutex = "none" => core.pc \notin {"data", "fin", "poll", "connected"}
  /\ ard = "resolve" => ~net.pcb[client_pcb].cb

LEMMA SilentControl ==
  ASSUME Silent
  PROVE  Control
  BY DEF Silent, Control, Binding, Quiet, Opening, Pending

LEMMA ActiveTyped ==
  ASSUME TypeOK
  PROVE  /\ net \in Nets /\ net.active \subseteq Pcbs /\ Served \subseteq Pcbs
         /\ client_pcb \in Pcbs \cup {Null} /\ client_es \in Blocks \cup {Null}
         /\ es \in [Blocks -> Structs]
  BY FieldTypes DEF TypeOK, Served

(* Where it is silent: with no connection that is open, where a connect    *)
(* has failed or not yet begun, and after a close.                         *)
LEMMA FallsSilent ==
  ASSUME TypeOK, Owned, Control,
         \/ ard = "idle" /\ ~Busy
         \/ ard \in {"resolve", "connFree"}
         \/ ard \in {"closeTake", "closeWait"} /\ State = "CLOSED"
  PROVE  Silent
<1>1. Served = {}
  BY DEF Control, Binding, Quiet, Busy
<1>2. \A p \in Pcbs : ~Opens(p)
  BY DEF Control, Opening
<1>3. mutex = "none" => core.pc \notin {"data", "fin", "poll", "connected"}
  BY <1>1 DEF Control, Pending
<1> QED
  BY <1>1, <1>2, <1>3 DEF Silent, Control, Quiet

LEMMA RebootControl ==
  ASSUME NEW why, Reboot(why)
  PROVE  Control'
  BY DEF Reboot, NetInit, CoreIdle, Control, Binding, Quiet, Opening, Receiving,
     Pending, Served, Opens

(* As long as nothing comes to the active list, it stays silent.           *)
LEMMA SilentStays ==
  ASSUME TypeOK, TypeOK', Silent, NEW p \in Pcbs \cup {Null},
         Others(net, net', p), UNCHANGED <<mutex, core>>,
         \/ net' = net
         \/ p \in Pcbs /\ net'.pcb[p] = FreshPcb,
         ard' # "resolve" \/ ~net'.pcb[client_pcb'].cb
  PROVE  Silent'
<1>1. net.active \subseteq Pcbs /\ net'.active \subseteq net.active
  BY ActiveTyped DEF Others
<1>2. \A q \in net'.active : net'.pcb[q] = net.pcb[q] \/ net'.pcb[q] = FreshPcb
  BY <1>1 DEF Others
<1>3. FreshPcb.st = "CLOSED" /\ FreshPcb.cb = FALSE
  BY DEF FreshPcb
<1>4. Served' = {}
  BY <1>1, <1>2, <1>3 DEF Silent, Served
<1>5. \A q \in Pcbs : ~Opens(q)'
  BY <1>1, <1>2, <1>3 DEF Silent, Opens
<1>6. Receiving'
  BY <1>1, <1>2, <1>3 DEF Silent, Receiving
<1> QED
  BY <1>4, <1>5, <1>6 DEF Silent

-----------------------------------------------------------------------------
(* The tcpip thread between callbacks.                                     *)

(* What the stack leaves alone.                                            *)
rest == <<es, heap, client_pcb, client_es, mutex, ard>>

(* A pcb leaves the active list.                                           *)
LEMMA StackDrops ==
  ASSUME TypeOK, Owned, Control, core = CoreIdle, core' = CoreIdle, UNCHANGED rest,
         NEW p \in Pcbs, Others(net, net', p), net'.pcb[p].cb = net.pcb[p].cb,
         \/ p \notin net'.active
         \/ net.pcb[p].st = "TIME_WAIT" /\ net'.pcb[p].st = "CLOSED"
  PROVE  Control'
<1>1. net'.active \subseteq net.active /\ net.active \subseteq Pcbs
  BY ActiveTyped DEF Others
<1>2. \A q \in Pcbs : net'.pcb[q].cb = net.pcb[q].cb
  BY DEF Others
<1>3. Served' \subseteq Served
  BY <1>1, <1>2 DEF Served
<1>4. \A q \in Served' : net'.pcb[q] = net.pcb[q]
  BY <1>1, <1>3 DEF Served, Others, Control, Binding
<1>5. \A q \in Pcbs : Opens(q)' => Opens(q)
  BY <1>1 DEF Opens, Others
<1>6. Binding'
  BY <1>3, <1>4 DEF Control, Binding, State, rest
<1>7. Quiet'
  <2>1. (ard = "resolve" => ~net.pcb[client_pcb].cb)'
    <3>1. ard = "resolve" => client_pcb \in Pcbs
      BY DEF TypeOK, Owned
    <3> QED
      BY <1>2, <3>1 DEF Control, Quiet, rest
  <2> QED
    BY <1>3, <2>1 DEF Control, Quiet, State, rest
<1>8. Opening'
  BY <1>5 DEF Control, Opening, State, rest
<1>9. Receiving'
  BY <1>1, <1>2 DEF Control, Receiving, Others, CoreIdle
<1>10. Pending'
  BY DEF Pending, CoreIdle
<1> QED
  BY <1>6, <1>7, <1>8, <1>9, <1>10 DEF Control

(* A callback is entered with the argument of the pcb that is served.      *)
LEMMA StackCalls ==
  ASSUME TypeOK, Owned, Control, core = CoreIdle, net' = net, UNCHANGED rest,
         NEW pc \in {"data", "poll"}, NEW p \in Served,
         pc = "data" => ard # "connWait",
         core' = Call(pc, p)
  PROVE  Control'
<1>1. /\ p = client_pcb
      /\ mutex = "none" => net.pcb[p].arg = client_es
  BY DEF Control, Binding, Quiet
<1>2. core' = [pc |-> pc, p |-> p, arg |-> net.pcb[p].arg]
  BY DEF Call
<1>3. Served' = Served /\ (\A q \in Pcbs : Opens(q)' = Opens(q)) /\ State' = State
  BY DEF Served, Opens, State, rest
<1>4. Pending'
  BY <1>1, <1>2, <1>3 DEF Pending, rest
<1>5. Receiving'
  BY DEF Control, Receiving, CoreIdle
<1> QED
  BY <1>3, <1>4, <1>5 DEF Control, Binding, Quiet, Opening, rest

(* The connection is open: the callback that sets the rest comes next.   *)
LEMMA SynAckControl ==
  ASSUME TypeOK, Owned, Control, NEW p \in Pcbs, SynAck(p)
  PROVE  Control'
<1>1. /\ Becomes(net, net', p, "ESTABLISHED", net.pcb[p].cb, net.pcb[p].arg, net.active, net.tw)
      /\ core = CoreIdle /\ core' = Call("connected", p) /\ UNCHANGED rest
  BY SynAckNet DEF SynAck, Stack, rest
<1>2. /\ Opens(p) /\ p = client_pcb /\ client_es # Null /\ State = "NOT_CONNECTED"
      /\ ard = "connWait" \/ (ard = "connFail" /\ mutex = "arduino")
  BY DEF SynAck, Control, Opening, Opens
<1>3. net.active \subseteq Pcbs
  BY ActiveTyped
<1>4. p \notin Served
  BY <1>2 DEF Control, Binding, Opens
<1>5. Served' = Served
  BY <1>1, <1>3 DEF Served, Becomes
<1>6. \A q \in Served : net'.pcb[q] = net.pcb[q]
  BY <1>1, <1>3, <1>4 DEF Becomes, Served
<1>7. Binding'
  BY <1>1, <1>5, <1>6 DEF Control, Binding, State, rest
<1>8. Quiet'
  BY <1>1, <1>2, <1>5 DEF Control, Quiet, State, rest
<1>9. \A q \in Pcbs : ~Opens(q)'
  BY <1>1, <1>2 DEF Control, Opening, Opens, Becomes
<1>10. core'.pc = "connected" /\ core'.p = p
  BY <1>1 DEF Call
<1>11. Receiving'
  BY <1>1, <1>3, <1>10 DEF Control, Receiving, Becomes, CoreIdle
<1>12. Pending'
  BY <1>1, <1>2, <1>10 DEF Pending, Becomes, Opens, State, rest
<1> QED
  BY <1>7, <1>8, <1>9, <1>11, <1>12 DEF Control, Opening

(* The peer closes: a connection of ours stays open on our side.           *)
LEMMA FinControl ==
  ASSUME TypeOK, Owned, Control, Patient, NEW p \in Pcbs, Fin(p)
  PROVE  Control'
<1>1. /\ core = CoreIdle /\ UNCHANGED rest /\ p \in net.active /\ ard # "connWait"
      /\ core' = IF net.pcb[p].cb THEN Call("fin", p) ELSE CoreIdle
  BY DEF Fin, Stack, rest, PeerTalks, Patient
<1>2. net.active \subseteq Pcbs
  BY ActiveTyped
<1>3. CASE net.pcb[p].st = "ESTABLISHED"
  <2>1. Becomes(net, net', p, "CLOSE_WAIT", net.pcb[p].cb, net.pcb[p].arg, net.active, net.tw)
    BY <1>3, FinNet
  <2>2. Served' = Served
    BY <1>2, <2>1 DEF Served, Becomes
  <2>3. \A q \in Served : /\ net'.pcb[q].arg = net.pcb[q].arg
                          /\ net'.pcb[q].st \in {net.pcb[q].st, "CLOSE_WAIT"}
    BY <1>2, <2>1 DEF Becomes, Served
  <2>4. Binding'
    BY <1>1, <2>2, <2>3 DEF Control, Binding, State, rest
  <2>5. Quiet'
    <3>1. client_pcb \in Pcbs => net'.pcb[client_pcb].cb = net.pcb[client_pcb].cb
      BY <2>1 DEF Becomes
    <3>2. ard = "resolve" => client_pcb \in Pcbs
      BY DEF TypeOK, Owned
    <3> QED
      BY <1>1, <2>2, <3>1, <3>2 DEF Control, Quiet, State, rest
  <2>6. \A q \in Pcbs : Opens(q)' => Opens(q)
    BY <2>1 DEF Opens, Becomes
  <2>7. Opening'
    BY <1>1, <2>6 DEF Control, Opening, State, rest
  <2>8. Receiving'
    BY <1>1, <1>2, <1>3, <2>1 DEF Control, Receiving, Becomes, CoreIdle
  <2>9. Pending'
    <3>1. CASE net.pcb[p].cb
      <4>1. p \in Served
        BY <1>1, <3>1 DEF Served
      <4>2. mutex = "none" => net.pcb[p].arg = client_es
        BY <4>1 DEF Control, Binding, Quiet
      <4>3. core' = [pc |-> "fin", p |-> p, arg |-> net.pcb[p].arg]
        BY <1>1, <3>1 DEF Call
      <4> QED
        BY <1>1, <2>2, <4>1, <4>2, <4>3 DEF Pending, rest
    <3>2. CASE ~net.pcb[p].cb
      BY <1>1, <3>2 DEF Pending, CoreIdle
    <3> QED
      BY <3>1, <3>2
  <2> QED
    BY <2>4, <2>5, <2>7, <2>8, <2>9 DEF Control
<1>4. CASE net.pcb[p].st # "ESTABLISHED"
  <2>1. Becomes(net, net', p, "TIME_WAIT", net.pcb[p].cb, net.pcb[p].arg, net.active \ {p},
              net.tw \cup {p})
    BY <1>4, FinWaitNet
  <2>2. net.pcb[p].st = "FIN_WAIT"
    BY <1>4 DEF Fin
  <2>3. ~net.pcb[p].cb
    BY <1>1, <2>2 DEF Control, Binding, Served
  <2>4. /\ Others(net, net', p) /\ net'.pcb[p].cb = net.pcb[p].cb
        /\ p \notin net'.active /\ core' = CoreIdle
    BY <1>1, <2>1, <2>3 DEF Becomes, Others
  <2> QED
    BY <1>1, <2>4, StackDrops
<1> QED
  BY <1>3, <1>4

LEMMA StackControl ==
  ASSUME TypeOK, Owned, Control, Patient, NEW p \in Pcbs,
         \/ Reset(p) \/ Data(p) \/ Fin(p) \/ SynAck(p) \/ GiveUp(p)
         \/ LastAck(p) \/ Poll(p)
  PROVE  Control'
<1>0. PICK n : n = net /\ n \in Nets
  BY DEF TypeOK
<1>1. ASSUME net' = PcbRemove(net, p), core = CoreIdle, core' = CoreIdle, UNCHANGED rest
      PROVE  Control'
  <2>1. net' = PcbRemove(n, p)
    BY <1>0, <1>1
  <2>2. /\ Others(n, net', p) /\ net'.pcb[p].cb = n.pcb[p].cb
        /\ n.pcb[p].st # "TIME_WAIT" => p \notin net'.active
        /\ net'.pcb[p] = [n.pcb[p] EXCEPT !.st = "CLOSED"]
    BY <1>0, <2>1, RemoveIs DEF Fewer
  <2>3. net'.pcb[p].st = "CLOSED"
    <3>1. n.pcb[p] \in PcbRecords
      BY <1>0 DEF Nets
    <3> QED
      BY <2>2, <3>1 DEF PcbRecords
  <2> QED
    BY <1>0, <1>1, <2>2, <2>3, StackDrops
<1>2. CASE Reset(p) \/ LastAck(p)
  BY <1>1, <1>2 DEF Reset, LastAck, Stack, rest
<1>3. CASE Data(p)
  <2>1. CASE net.pcb[p].rxc
    BY <1>1, <1>3, <2>1 DEF Data, Stack, rest
  <2>2. CASE ~net.pcb[p].rxc
    <3>1. /\ p \in net.active /\ ard # "connWait" /\ core = CoreIdle
          /\ net' = net /\ core' = Call("data", p) /\ UNCHANGED rest
          /\ net.pcb[p].st \in {"ESTABLISHED", "FIN_WAIT"}
      BY <1>3, <2>2 DEF Data, Stack, rest, PeerTalks, Patient
    <3>2. p \in Served
      BY <2>2, <3>1 DEF Control, Receiving, CoreIdle, Served
    <3> QED
      BY <3>1, <3>2, StackCalls
  <2> QED
    BY <2>1, <2>2
<1>4. CASE GiveUp(p)
  <2>1. /\ net' = Expire(n, p) /\ core = CoreIdle /\ core' = CoreIdle
        /\ UNCHANGED rest
    BY <1>0, <1>4 DEF GiveUp, Stack, rest
  <2>2. net'.active = n.active \ {p} /\ net'.pcb = n.pcb
    BY <1>0, <2>1, ExpireIs
  <2>3. /\ Others(net, net', p) /\ net'.pcb[p].cb = net.pcb[p].cb
        /\ p \notin net'.active
    BY <1>0, <2>2 DEF Others
  <2> QED
    BY <2>1, <2>3, StackDrops
<1>5. CASE Poll(p)
  <2>1. /\ p \in Served /\ core = CoreIdle /\ core' = Call("poll", p)
        /\ net' = net /\ UNCHANGED rest
    BY <1>5 DEF Poll, Served, Stack, rest
  <2> QED
    BY <2>1, StackCalls
<1> QED
  BY <1>2, <1>3, <1>4, <1>5, FinControl, SynAckControl

-----------------------------------------------------------------------------
(* The tcpip thread inside a callback.                                     *)

LEMMA RunConnectedControl ==
  ASSUME TypeOK, Owned, Control, RunConnected
  PROVE  Control'
<1>1. /\ core.p = client_pcb /\ client_pcb \in net.active /\ client_es # Null
      /\ net.pcb[client_pcb].st = "ESTABLISHED"
      /\ ard = "connWait" /\ State = "NOT_CONNECTED" /\ mutex = "none"
  BY DEF RunConnected, Running, Control, Pending
<1>2. Served = {}
  BY <1>1 DEF Control, Quiet
<1>3. \A q \in Pcbs : ~Opens(q)
  BY <1>1 DEF Control, Opening, Opens
<1>4. net.active \subseteq Pcbs /\ client_es \in Blocks /\ es \in [Blocks -> Structs]
  BY <1>1, ActiveTyped
<1>5. Becomes(net, net', client_pcb, "ESTABLISHED", TRUE, client_es, net.active, net.tw)
  BY <1>1, RunConnectedNet
<1>6. /\ UNCHANGED <<client_pcb, client_es, mutex, ard>> /\ core' = CoreIdle
      /\ es' = [es EXCEPT ![client_es].state = "CONNECTED"]
  BY DEF RunConnected
<1>7. State' = "CONNECTED"
  <2>1. es[client_es] \in Structs
    BY <1>4
  <2> QED
    BY <1>4, <1>6, <2>1 DEF State, Structs
<1>8. Served' = {client_pcb}
  BY <1>1, <1>2, <1>4, <1>5 DEF Served, Becomes
<1>9. Binding'
  BY <1>1, <1>4, <1>5, <1>6, <1>7, <1>8 DEF Binding, Becomes
<1>10. Quiet'
  BY <1>1, <1>6, <1>7 DEF Quiet
<1>11. \A q \in Pcbs : ~Opens(q)'
  BY <1>1, <1>3, <1>5 DEF Opens, Becomes
<1>12. Receiving'
  BY <1>1, <1>4, <1>5, <1>6 DEF Control, Receiving, Becomes
<1>13. Pending'
  BY <1>6 DEF Pending, CoreIdle
<1> QED
  BY <1>9, <1>10, <1>11, <1>12, <1>13 DEF Control, Opening

(* A connection is closed: nobody calls back any more.                     *)
LEMMA ClosesSilent ==
  ASSUME TypeOK, Control, NEW p \in Pcbs, Closes(net, net', p),
         Served \subseteq {p}, \A q \in Pcbs \ {p} : ~Opens(q),
         ard' # "resolve", mutex' = mutex,
         \/ core' = CoreIdle /\ core.pc # "connected"
         \/ core' = core /\ (mutex = "none" => core.pc = "idle")
  PROVE  Control'
<1>1. net'.active \subseteq net.active /\ net.active \subseteq Pcbs
  BY ActiveTyped DEF Closes, Others
<1>2. Served' = {}
  BY <1>1 DEF Served, Closes, Others
<1>3. \A q \in Pcbs : ~Opens(q)'
  BY <1>1 DEF Opens, Closes, Others
<1>4. Receiving'
  BY <1>1 DEF Control, Receiving, Closes, Others
<1>5. (mutex = "none" => core.pc \notin {"data", "fin", "poll", "connected"})'
  BY DEF CoreIdle
<1>6. Silent'
  BY <1>2, <1>3, <1>4, <1>5 DEF Silent
<1> QED
  BY <1>6, SilentControl, PTL

(* The state of the open connection moves on, on the arduino side or in a  *)
(* callback.                                                               *)
LEMMA StateMoves ==
  ASSUME TypeOK, Control, net' = net,
         UNCHANGED <<client_pcb, client_es>>,
         State' \in {"CONNECTED", "RECEIVED", "CLOSING"},
         ard' \notin {"resolve", "connWait", "connFail", "connFree", "closing"},
         ard # "closing",
         \A q \in Pcbs : ~Opens(q),
         \/ core' = CoreIdle /\ core.pc # "connected"
         \/ core' = core /\ (mutex' = "none" => mutex = "none" /\ core.pc # "connected")
  PROVE  Control'
<1>1. Served' = Served /\ \A q \in Pcbs : ~Opens(q)'
  BY DEF Served, Opens
<1>2. Binding'
  BY <1>1 DEF Control, Binding
<1>3. Quiet'
  BY DEF Quiet
<1>4. Receiving'
  BY DEF Control, Receiving
<1>5. Pending'
  BY <1>1 DEF Control, Pending, CoreIdle
<1> QED
  BY <1>1, <1>2, <1>3, <1>4, <1>5 DEF Control, Opening

LEMMA Written ==
  ASSUME TypeOK, client_es # Null, NEW st, NEW rx, client_es' = client_es,
         \/ es' = [es EXCEPT ![client_es].state = st]
         \/ es' = [es EXCEPT ![client_es] = [state |-> st, rx |-> rx]]
  PROVE  State' = st
<1>1. client_es \in Blocks /\ es \in [Blocks -> Structs]
  BY ActiveTyped
<1>2. es[client_es] \in Structs
  BY <1>1
<1> QED
  BY <1>1, <1>2 DEF State, Structs

LEMMA CallbackControl ==
  ASSUME TypeOK, Owned, Control, Callback
  PROVE  Control'
<1>1. ASSUME mutex = "none", core.pc \in {"data", "fin", "poll"}
      PROVE  /\ core.p \in Served /\ core.p = client_pcb /\ core.p \in Pcbs
             /\ Served \subseteq {core.p}
             /\ core.arg = client_es /\ client_es # Null
             /\ State \in {"CONNECTED", "RECEIVED", "CLOSING"}
             /\ ard \notin {"resolve", "connFail", "connFree", "closing"}
             /\ core.pc # "poll" => ard # "connWait"
             /\ \A q \in Pcbs : ~Opens(q)
  <2>1. /\ core.p \in Served /\ core.arg = client_es
        /\ core.pc # "poll" => ard # "connWait"
    BY <1>1 DEF Control, Pending
  <2>2. /\ core.p = client_pcb /\ Served \subseteq {core.p} /\ client_es # Null
        /\ State \in {"CONNECTED", "RECEIVED", "CLOSING"}
    BY <2>1 DEF Control, Binding
  <2>3. ard \notin {"resolve", "connFail", "connFree", "closing"}
    BY <1>1, <2>1 DEF Control, Quiet
  <2>4. \A q \in Pcbs : ~Opens(q)
    BY <2>2 DEF Control, Opening
  <2> QED
    BY <2>1, <2>2, <2>3, <2>4, ActiveTyped
<1>2. CASE RunConnected
  BY <1>2, RunConnectedControl
<1>3. CASE RunData
  <2>1. mutex = "none" /\ core.pc = "data"
    BY <1>3 DEF RunData, Running
  <2>2. core.arg = client_es /\ client_es # Null
    BY <1>1, <2>1
  <2>3. State' \in {State, "RECEIVED"}
    <3>1. PICK e, b, rx : /\ e = es /\ b = client_es
                          /\ rx = IF es[client_es].rx = "none" THEN "own"
                                  ELSE es[client_es].rx
      OBVIOUS
    <3>2. /\ es' = e \/ es' = [[e EXCEPT ![b].rx = rx] EXCEPT ![b].state = "RECEIVED"]
          /\ client_es' = b
      BY <1>3, <2>2, <3>1 DEF RunData
    <3>3. b \in Blocks /\ e \in [Blocks -> Structs]
      BY <2>2, <3>1, ActiveTyped
    <3>4. e[b] \in Structs
      BY <3>3
    <3>5. [[e EXCEPT ![b].rx = rx] EXCEPT ![b].state = "RECEIVED"][b].state = "RECEIVED"
      BY <3>3, <3>4 DEF Structs
    <3> QED
      BY <3>1, <3>2, <3>5 DEF State
  <2>4. /\ net' = net /\ core' = CoreIdle
        /\ UNCHANGED <<client_pcb, client_es, mutex, ard>>
    BY <1>3 DEF RunData
  <2> QED
    BY <1>1, <2>1, <2>3, <2>4, StateMoves
<1>4. CASE RunFin
  <2>1. /\ mutex = "none" /\ core.pc = "fin" /\ core' = CoreIdle
        /\ UNCHANGED <<client_pcb, client_es, mutex, ard>>
    BY <1>4 DEF RunFin, Running
  <2>2. CASE ConnectionClose(core.p, core.arg)
    <3>1. Closes(net, net', core.p)
      BY <1>1, <2>1, <2>2, ConnectionCloseNet
    <3> QED
      BY <1>1, <2>1, <3>1, ClosesSilent
  <2>3. CASE es' = [es EXCEPT ![core.arg].state = "CLOSING"] /\ UNCHANGED net
    <3>1. State' = "CLOSING"
      BY <1>1, <2>1, <2>3, Written
    <3> QED
      BY <1>1, <2>1, <2>3, <3>1, StateMoves
  <2> QED
    BY <1>4, <2>2, <2>3 DEF RunFin
<1>5. CASE RunPoll
  <2>1. /\ mutex = "none" /\ core.pc = "poll" /\ core' = CoreIdle
        /\ UNCHANGED <<client_pcb, client_es, mutex, ard>>
    BY <1>5 DEF RunPoll, Running
  <2>2. CASE ConnectionClose(core.p, core.arg)
    <3>1. Closes(net, net', core.p)
      BY <1>1, <2>1, <2>2, ConnectionCloseNet
    <3> QED
      BY <1>1, <2>1, <3>1, ClosesSilent
  <2>3. CASE UNCHANGED <<net, es>>
    BY <2>1, <2>3 DEF Control, Binding, Quiet, Opening, Receiving, Pending, Served,
       Opens, State, CoreIdle
  <2> QED
    BY <1>5, <2>2, <2>3 DEF RunPoll
<1>6. CASE RunPollAbort
  BY <1>1, <1>6 DEF RunPollAbort, Running
<1>7. CASE RunDangling
  BY <1>7 DEF RunDangling, sys, Control, Binding, Quiet, Opening, Receiving, Pending,
     Served, Opens, State
<1> QED
  BY <1>2, <1>3, <1>4, <1>5, <1>6, <1>7 DEF Callback

-----------------------------------------------------------------------------
(* The arduino thread.                                                     *)

(* Nothing but this thread's place changes, or a block.                    *)
LEMMA SilentStep ==
  ASSUME Silent, net' = net, UNCHANGED <<mutex, core>>, ard' # "resolve"
  PROVE  Control'
<1>1. Silent'
  BY DEF Silent, Served, Receiving, Opens
<1> QED
  BY <1>1, SilentControl, PTL

LEMMA SketchControl ==
  ASSUME TypeOK, TypeOK', Owned, Control, Sketch
  PROVE  Control'
<1>1. CASE Open
  <2>1. Silent
    BY <1>1, FallsSilent DEF Open, Idle
  <2>2. PICK pn \in TcpNew(net) : client_pcb' = pn[1] /\ net' = pn[2]
    BY <1>1 DEF Open
  <2>3. /\ client_pcb' \in Pcbs /\ Others(net, net', client_pcb')
        /\ net'.pcb[client_pcb'] = FreshPcb
    BY <2>2, TcpNewIs DEF TypeOK
  <2>4. ~net'.pcb[client_pcb'].cb
    BY <2>3 DEF FreshPcb
  <2>5. UNCHANGED <<mutex, core>>
    BY <1>1 DEF Open
  <2>6. Silent'
    BY <2>1, <2>3, <2>4, <2>5, SilentStays
  <2> QED
    BY <2>6, SilentControl, PTL
<1>2. CASE OpenBusy
  <2>1. CASE UNCHANGED sys
    BY <2>1 DEF sys, Control, Binding, Quiet, Opening, Receiving, Pending, Served,
       Opens, State
  <2> QED
    BY <1>2, <2>1, RebootControl DEF OpenBusy
<1>3. CASE OpenNoMemory
  <2>1. CASE bufRetry >= RetryLimit
    BY <1>3, <2>1, RebootControl DEF OpenNoMemory
  <2>2. CASE ~(bufRetry >= RetryLimit)
    <3>1. Silent
      BY <1>3, FallsSilent DEF OpenNoMemory, Idle
    <3>2. UNCHANGED <<mutex, core, ard>> /\ ard = "idle"
      BY <1>3, <2>2 DEF OpenNoMemory, Idle
    <3>3. CASE net' = net
      BY <3>1, <3>2, <3>3, SilentStep
    <3>4. CASE TcpNew(net) # {}
      <4>1. PICK pn \in TcpNew(net) : net' = MempFree(pn[2], pn[1])
        BY <1>3, <2>2, <3>4 DEF OpenNoMemory
      <4>2. /\ pn[1] \in Pcbs /\ pn[2] \in Nets /\ Others(net, pn[2], pn[1])
            /\ pn[2].pcb[pn[1]] = FreshPcb
        BY TcpNewIs DEF TypeOK
      <4>3. net'.pcb = pn[2].pcb /\ net'.active = pn[2].active
        BY <4>1, <4>2, MempFreeIs
      <4>4. Others(net, net', pn[1]) /\ net'.pcb[pn[1]] = FreshPcb
        BY <4>2, <4>3 DEF Others
      <4>5. Silent'
        BY <3>1, <3>2, <4>2, <4>4, SilentStays
      <4> QED
        BY <4>5, SilentControl, PTL
    <3> QED
      BY <1>3, <2>2, <3>3, <3>4 DEF OpenNoMemory
  <2> QED
    BY <2>1, <2>2
<1>4. CASE Read \/ Disconnect
  <2>1. /\ ard = "idle" /\ net' = net /\ client_es # Null
        /\ UNCHANGED <<client_pcb, client_es, mutex, core>>
        /\ ard' \in {"idle", "freeTake", "closeTake"}
    BY <1>4 DEF Read, Disconnect, Idle
  <2>2. \A q \in Pcbs : ~Opens(q)
    BY <2>1 DEF Control, Opening
  <2>3. mutex = "none" => core.pc # "connected"
    BY <2>1 DEF Control, Pending
  <2>4. CASE Read
    <3>1. State' = "CONNECTED"
      BY <2>1, <2>4, Written DEF Read
    <3> QED
      BY <2>1, <2>2, <2>3, <3>1, StateMoves
  <2>5. CASE Disconnect
    <3>1. es' = es /\ (mutex = "none" => core.pc # "connected")
      BY <2>3, <2>5 DEF Disconnect
    <3> QED
      BY <2>1, <2>2, <3>1 DEF Control, Binding, Quiet, Opening, Receiving, Pending,
         Served, Opens, State
  <2> QED
    BY <1>4, <2>4, <2>5
<1> QED
  BY <1>1, <1>2, <1>3, <1>4 DEF Sketch

LEMMA ConnectControl ==
  ASSUME TypeOK, Owned, Control, Connect
  PROVE  Control'
<1>1. Silent /\ client_pcb \in Pcbs /\ client_es # Null /\ ~net.pcb[client_pcb].cb
  BY FallsSilent DEF Connect, Owned, TypeOK, Silent
<1>2. Becomes(net, net', client_pcb, "SYN_SENT", net.pcb[client_pcb].cb,
              net.pcb[client_pcb].arg, net.active \cup {client_pcb}, net.tw)
  BY <1>1, ConnectNet
<1>3. UNCHANGED <<client_pcb, client_es, mutex, core>> /\ ard' = "connWait"
  BY DEF Connect
<1>4. State' = "NOT_CONNECTED"
  BY <1>1, <1>3, Written DEF Connect
<1>5. net.active \subseteq Pcbs
  BY ActiveTyped
<1>6. Served' = {}
  BY <1>1, <1>2, <1>5 DEF Served, Becomes, Silent
<1>7. \A q \in Pcbs \ {client_pcb} : ~Opens(q)'
  BY <1>1, <1>2 DEF Opens, Becomes, Silent
<1>8. Opening'
  BY <1>1, <1>3, <1>4, <1>7 DEF Opening
<1>9. Receiving'
  BY <1>1, <1>2, <1>3, <1>5 DEF Silent, Receiving, Becomes
<1>10. Pending'
  BY <1>1, <1>3 DEF Silent, Pending
<1>11. Binding' /\ Quiet'
  BY <1>3, <1>6 DEF Binding, Quiet
<1> QED
  BY <1>8, <1>9, <1>10, <1>11 DEF Control

(* Only the place changes; where it leaves a connect no SYN may be out     *)
(* that the callbacks could still answer.                                  *)
LEMMA ConnOkControl ==
  ASSUME TypeOK, Control, ConnOk
  PROVE  Control'
<1>1. /\ State = "CONNECTED" /\ ard = "connWait" /\ ard' = "idle"
      /\ UNCHANGED <<net, es, client_pcb, client_es, mutex, core>>
  BY DEF ConnOk
<1>2. Served' = Served /\ State' = State /\ \A q \in Pcbs : ~Opens(q)'
  BY <1>1 DEF Control, Opening, Served, State, Opens
<1> QED
  BY <1>1, <1>2 DEF Control, Binding, Quiet, Opening, Receiving, Pending

LEMMA ConnFailsControl ==
  ASSUME TypeOK, Control, ConnFails
  PROVE  Control'
<1>1. CASE connRetry >= RetryLimit
  BY <1>1, RebootControl DEF ConnFails, CountConnect
<1>2. CASE ~(connRetry >= RetryLimit)
  <2>1. /\ State # "CONNECTED" /\ ard = "connWait" /\ ard' = "connFail"
        /\ UNCHANGED <<net, es, client_pcb, client_es, mutex, core>>
    BY <1>2 DEF ConnFails, CountConnect
  <2>2. Served = {}
    BY <2>1 DEF Control, Quiet
  <2>3. \A q \in Pcbs : Opens(q) => mutex = "arduino"
    BY DEF ConnFails, Control, Opening, Opens
  <2>4. mutex = "none" => core.pc \notin {"data", "fin", "poll", "connected"}
    BY <2>2 DEF ConnFails, Control, Pending
  <2>5. Served' = {} /\ State' = State /\ \A q \in Pcbs : Opens(q)' = Opens(q)
    BY <2>1, <2>2 DEF Served, State, Opens
  <2> QED
    BY <2>1, <2>3, <2>4, <2>5 DEF Control, Binding, Quiet, Opening, Receiving, Pending
<1> QED
  BY <1>1, <1>2

(* The failed connect is closed; a SYN that is still out goes with its pcb.*)
LEMMA FailCloseControl ==
  ASSUME TypeOK, Owned, Control, FailClose
  PROVE  Control'
<1>1. PICK n, p : n = net /\ p = client_pcb /\ n \in Nets /\ p \in Pcbs
  BY DEF FailClose, Owned, TypeOK
<1>2. net' = TcpClose(n, p)
  BY <1>1 DEF FailClose
<1>3. /\ Others(n, net', p) /\ net'.pcb[p].cb = n.pcb[p].cb
      /\ p \in net'.active => net'.pcb[p].st # "SYN_SENT" /\ net'.pcb[p].rxc
  BY <1>1, <1>2, TcpCloseIs DEF Fewer
<1>4. net'.active \subseteq net.active /\ net.active \subseteq Pcbs
  BY <1>1, <1>3, ActiveTyped DEF Others
<1>5. Served = {} /\ ard' = "connFree" /\ UNCHANGED <<mutex, core>>
  BY DEF FailClose, Control, Quiet
<1>6. Served' = {}
  BY <1>1, <1>3, <1>4, <1>5 DEF Served, Others
<1>7. \A q \in Pcbs : ~Opens(q)'
  BY <1>1, <1>3, <1>4 DEF Control, Opening, Opens, Others
<1>8. Receiving'
  BY <1>1, <1>3, <1>4, <1>5 DEF Control, Receiving, Others
<1>9. mutex = "none" => core.pc \notin {"data", "fin", "poll", "connected"}
  BY <1>5 DEF FailClose, Control, Pending
<1>10. Silent'
  BY <1>5, <1>6, <1>7, <1>8, <1>9 DEF Silent
<1> QED
  BY <1>10, SilentControl, PTL

(* When the thirty seconds are over although poll could have closed, the   *)
(* mutex is gone for good, so that no callback runs any more.              *)
LEMMA CloseTimeoutControl ==
  ASSUME TypeOK, Owned, Control, Patient, CloseTimeout
  PROVE  Control'
<1>1. /\ client_pcb \in Pcbs /\ ard = "closeWait" /\ ard' = "closing" /\ ~PollServes
      /\ UNCHANGED <<es, client_pcb, client_es, mutex, core>>
  BY DEF CloseTimeout, Patient, TypeOK
<1>2. Becomes(net, net', client_pcb, net.pcb[client_pcb].st, net.pcb[client_pcb].cb,
              Null, net.active, net.tw)
  BY CloseTimeoutNet
<1>3. net.active \subseteq Pcbs
  BY ActiveTyped
<1>4. Served' = Served
  BY <1>1, <1>2, <1>3 DEF Served, Becomes
<1>5. mutex = "none" => Served = {}
  BY <1>1 DEF Control, Binding, PollServes, Served
<1>6. \A q \in Served : net'.pcb[q].st = net.pcb[q].st
  BY <1>1, <1>2, <1>3 DEF Served, Becomes
<1>7. Binding'
  BY <1>1, <1>4, <1>6 DEF Control, Binding, State
<1>8. Quiet'
  BY <1>1, <1>4, <1>5 DEF Quiet
<1>9. \A q \in Pcbs : ~Opens(q)'
  BY <1>1, <1>2, <1>3 DEF Control, Opening, Opens, Becomes
<1>10. Receiving'
  BY <1>1, <1>2, <1>3 DEF Control, Receiving, Becomes
<1>11. Pending'
  BY <1>1, <1>5 DEF Control, Pending
<1> QED
  BY <1>7, <1>8, <1>9, <1>10, <1>11 DEF Control, Opening

LEMMA CloseTakeControl ==
  ASSUME TypeOK, Owned, Control, CloseTake
  PROVE  Control'
<1>1. /\ ard = "closeTake" /\ mutex = "none" /\ client_es # Null /\ net' = net
      /\ UNCHANGED <<client_pcb, core>>
  BY DEF CloseTake, Owned
<1>2. \A q \in Pcbs : ~Opens(q)
  BY <1>1 DEF Control, Opening
<1>3. core.pc # "connected"
  BY <1>1 DEF Control, Pending
<1>4. CASE State = "CLOSED"
  <2>1. Silent
    BY <1>1, <1>4, FallsSilent
  <2>2. ard' = "idle" /\ mutex' = mutex
    BY <1>4 DEF CloseTake
  <2> QED
    BY <1>1, <2>1, <2>2, SilentStep
<1>5. CASE State = "CLOSING"
  <2>1. /\ mutex' = "arduino" /\ ard' = "closeWait"
        /\ UNCHANGED <<es, client_es>>
    BY <1>5 DEF CloseTake
  <2>2. State' = "CLOSING"
    BY <1>5, <2>1 DEF State
  <2> QED
    BY <1>1, <1>2, <2>1, <2>2, StateMoves
<1>6. CASE State \notin {"CLOSED", "CLOSING"}
  <2>1. /\ ard' = "closeWait" /\ UNCHANGED <<client_es, mutex>>
        /\ es' = [es EXCEPT ![client_es].state = "CLOSING"]
    BY <1>6 DEF CloseTake
  <2>2. State' = "CLOSING"
    BY <1>1, <2>1, Written
  <2> QED
    BY <1>1, <1>2, <1>3, <2>1, <2>2, StateMoves
<1> QED
  BY <1>4, <1>5, <1>6

LEMMA ArduinoControl ==
  ASSUME TypeOK, Owned, Control, Patient, Arduino
  PROVE  Control'
<1>1. CASE DnsFails \/ FailFree
  BY <1>1, FallsSilent, SilentStep DEF DnsFails, FailFree
<1>2. CASE ConnectNoRoute
  <2>1. Silent
    BY <1>2, FallsSilent DEF ConnectNoRoute
  <2> QED
    BY <1>2, <2>1, SilentStep, RebootControl DEF ConnectNoRoute, CountConnect
<1>3. CASE ConnectLoops \/ CloseTimeoutNull
  BY <1>3 DEF ConnectLoops, CloseTimeoutNull, sys, Control, Binding, Quiet, Opening,
     Receiving, Pending, Served, Opens, State
<1>4. CASE FreeBody
  <2>1. /\ ard = "freeTake" /\ ard' = "closeTake" /\ mutex = "none" /\ net' = net
        /\ UNCHANGED <<client_pcb, client_es, mutex, core>> /\ client_es # Null
    BY <1>4 DEF FreeBody, Owned
  <2>2. State' = "CONNECTED"
    BY <1>4, <2>1, Written DEF FreeBody
  <2>3. (\A q \in Pcbs : ~Opens(q)) /\ core.pc # "connected"
    BY <2>1 DEF Control, Opening, Pending
  <2> QED
    BY <2>1, <2>2, <2>3, StateMoves
<1>5. CASE CloseDone
  BY <1>5, FallsSilent, SilentStep DEF CloseDone
<1>6. CASE CloseRest
  <2>1. client_pcb \in Pcbs /\ ard = "closing"
    BY <1>6 DEF CloseRest, Owned, TypeOK
  <2>2. Closes(net, net', client_pcb)
    BY <1>6, CloseRestNet
  <2>3. Served \subseteq {client_pcb} /\ \A q \in Pcbs : ~Opens(q)
    BY <2>1 DEF Control, Binding, Opening
  <2>4. mutex = "none" => core.pc = "idle"
    <3>1. core.pc \in {"idle", "connected", "data", "fin", "poll"}
      BY DEF TypeOK
    <3> QED
      BY <2>1, <3>1 DEF Control, Quiet, Pending
  <2>5. ard' = "closeWait" /\ UNCHANGED <<mutex, core>>
    BY <1>6 DEF CloseRest
  <2> QED
    BY <2>1, <2>2, <2>3, <2>4, <2>5, ClosesSilent
<1> QED
  BY <1>1, <1>2, <1>3, <1>4, <1>5, <1>6, ConnectControl, ConnOkControl,
     ConnFailsControl, FailCloseControl, CloseTakeControl, CloseTimeoutControl
     DEF Arduino

-----------------------------------------------------------------------------
LEMMA ControlStep ==
  ASSUME TypeOK, TypeOK', Owned, Control, Patient, [Next]_vars
  PROVE  Control'
<1>1. CASE Sketch
  BY <1>1, SketchControl
<1>2. CASE Arduino
  BY <1>2, ArduinoControl
<1>3. CASE Peer \/ Answers \/ \E p \in Pcbs : Poll(p)
  BY <1>3, StackControl DEF Peer, Answers
<1>4. CASE Callback
  BY <1>4, CallbackControl
<1>5. CASE UNCHANGED vars
  BY <1>5 DEF vars, sys, Control, Binding, Quiet, Opening, Receiving, Pending,
     Served, Opens, State
<1> QED
  BY <1>1, <1>2, <1>3, <1>4, <1>5 DEF Next

LEMMA ControlHolds ==
  ASSUME Patient
  PROVE  Spec => [](TypeOK /\ Owned /\ Control)
<1>1. Init => TypeOK /\ Owned /\ Control
  <2>1. Init => Control
    BY DEF Init, NetInit, CoreIdle, Control, Binding, Quiet, Opening, Receiving,
       Pending, Served, Opens
  <2> QED
    BY <2>1, Start
<1>2. TypeOK /\ Owned /\ Control /\ [Next]_vars => (TypeOK /\ Owned /\ Control)'
  BY TypeStep, OwnedStep, ControlStep
<1> QED
  BY <1>1, <1>2, PTL DEF Spec

(* With a patient peer every callback lwIP could still make belongs to the *)
(* present connection and its struct client.                               *)
THEOREM CallbackBindingHolds ==
  ASSUME Patient
  PROVE  Spec => []CallbackBinding
<1>1. TypeOK /\ Owned /\ Control => CallbackBinding
  BY DEF Owned, Control, Binding, Served, CallbackBinding
<1> QED
  BY <1>1, ControlHolds, PTL

(* With a patient peer a callback that gets the mutex finds its struct     *)
(* client allocated.                                                       *)
THEOREM NeverDanglingHolds ==
  ASSUME Patient
  PROVE  Spec => []NeverDangling
<1>1. TypeOK /\ Owned /\ Control => NeverDangling
  BY DEF Owned, Control, Binding, Pending, NeverDangling, Dangling
<1> QED
  BY <1>1, ControlHolds, PTL

-----------------------------------------------------------------------------
(* The pool.  The list of free elements, followed for ever.                *)

Follow(n) == [x \in Pcbs \cup {Null} |-> IF x = Null THEN Null ELSE n.next[x]]

IsPath(n, P) == P \in [Nat -> Pcbs \cup {Null}] /\ Iterates(P, n.head, Follow(n))

LEMMA PoolTypes ==
  ASSUME NEW n \in Nets
  PROVE  /\ n.head \in Pcbs \cup {Null} /\ n.next \in [Pcbs -> Pcbs \cup {Null}]
         /\ Follow(n) \in [Pcbs \cup {Null} -> Pcbs \cup {Null}]
         /\ Follow(n)[Null] = Null /\ Null \notin Pcbs
         /\ \A x \in Pcbs : Follow(n)[x] = n.next[x]
<1>1. n.head \in Pcbs \cup {Null} /\ n.next \in [Pcbs -> Pcbs \cup {Null}]
  BY DEF Nets
<1>2. Null \notin Pcbs
  BY DEF Null, Pcbs
<1> QED
  BY <1>1, <1>2 DEF Follow

LEMMA PathExists ==
  ASSUME NEW n \in Nets
  PROVE  \E P : IsPath(n, P)
<1>1. \E P \in [Nat -> Pcbs \cup {Null}] : Iterates(P, n.head, Follow(n))
  BY PoolTypes, IterateExists
<1> QED
  BY <1>1 DEF IsPath

(* The recursive definition of Nth gives the path.                         *)
LEMMA NthPath ==
  ASSUME NEW n \in Nets, NEW P, IsPath(n, P)
  PROVE  \A k \in 0..NumPcb : Nth(n)[k] = P[k]
<1> DEFINE N == NumPcb
           Eq(f) == f = [k \in 0..N |-> IF k = 0 THEN n.head
                                        ELSE IF f[k - 1] = Null THEN Null
                                             ELSE n.next[f[k - 1]]]
           f0 == [k \in 0..N |-> P[k]]
<1>1. N \in Nat
  BY ClientAssumption
<1>2. P[0] = n.head /\ \A k \in Nat : P[k] \in Pcbs \cup {Null} /\ P[k + 1] = Follow(n)[P[k]]
  BY DEF IsPath, Iterates
<1>3. \A k \in Nat : P[k + 1] = IF P[k] = Null THEN Null ELSE n.next[P[k]]
  BY <1>2, PoolTypes
<1>4. Eq(f0)
  <2> SUFFICES ASSUME NEW k \in 0..N
               PROVE  f0[k] = IF k = 0 THEN n.head
                              ELSE IF f0[k - 1] = Null THEN Null ELSE n.next[f0[k - 1]]
    BY Zenon
  <2>1. CASE k = 0
    BY <1>2, <2>1
  <2>2. CASE k # 0
    <3>1. k - 1 \in Nat /\ k - 1 \in 0..N /\ (k - 1) + 1 = k
      BY <1>1, <2>2
    <3>2. f0[k - 1] = P[k - 1] /\ f0[k] = P[k]
      BY <3>1
    <3>3. P[k] = IF P[k - 1] = Null THEN Null ELSE n.next[P[k - 1]]
      BY <1>3, <3>1
    <3> HIDE DEF f0
    <3> QED
      BY <2>2, <3>2, <3>3
  <2> QED
    BY <2>1, <2>2
<1> DEFINE F == CHOOSE f : Eq(f)
<1>5. Nth(n) = F
  BY Zenon DEF Nth
<1>6. Eq(F)
  <2> HIDE DEF f0
  <2> QED
    BY <1>4, Zenon
<1> HIDE DEF F, f0
<1>7. \A k \in 0..N : F[k] = IF k = 0 THEN n.head
                            ELSE IF F[k - 1] = Null THEN Null ELSE n.next[F[k - 1]]
  BY <1>6, Zenon
<1> DEFINE S == {k \in Nat : k <= N => F[k] = P[k]}
<1>8. 0 \in S
  BY <1>1, <1>2, <1>7
<1>9. ASSUME NEW k \in Nat, k \in S
      PROVE  k + 1 \in S
  <2> SUFFICES ASSUME k + 1 <= N PROVE F[k + 1] = P[k + 1]
    OBVIOUS
  <2>1. F[k] = P[k] /\ k + 1 \in 0..N /\ k + 1 # 0 /\ (k + 1) - 1 = k
    BY <1>1, <1>9
  <2>2. F[k + 1] = IF F[k] = Null THEN Null ELSE n.next[F[k]]
    BY <1>7, <2>1
  <2> QED
    BY <1>3, <2>1, <2>2
<1>10. Nat \subseteq S
  <2> HIDE DEF S
  <2> QED
    BY <1>8, <1>9, SetInduction
<1> QED
  BY <1>1, <1>5, <1>10

(* The list ends if the path ever does, and holds what is on the path.     *)
LEMMA PoolIs ==
  ASSUME NEW n \in Nets, NEW P, IsPath(n, P)
  PROVE  /\ FreeListEnds(n) <=> \E k \in Nat : P[k] = Null
         /\ FreeListEnds(n) => FreeSet(n) = {P[k] : k \in Nat} \ {Null}
<1>1. NumPcb \in Nat /\ Pcbs \cup {Null} = 0..NumPcb
  BY ClientAssumption DEF Pcbs, Null
<1>2. \A k \in 0..NumPcb : Nth(n)[k] = P[k]
  BY NthPath
<1>3. /\ P \in [Nat -> 0..NumPcb] /\ Iterates(P, n.head, Follow(n)) /\ Follow(n)[0] = 0
  BY <1>1, PoolTypes DEF IsPath, Null
<1>4. FreeListEnds(n) <=> P[NumPcb] = Null
  BY <1>1, <1>2 DEF FreeListEnds
<1>5. (\E k \in Nat : P[k] = Null) => P[NumPcb] = Null
  BY <1>1, <1>3, IterateShort DEF Null
<1>6. ASSUME P[NumPcb] = Null
      PROVE  FreeSet(n) = {P[k] : k \in Nat} \ {Null}
  <2>1. \A k \in Nat : k >= NumPcb => P[k] = Null
    BY <1>1, <1>3, <1>6, IterateStops DEF Null
  <2>2. \A k \in Nat : P[k] # Null => k \in 0..NumPcb
    BY <1>1, <2>1
  <2>3. FreeSet(n) = {P[k] : k \in 0..NumPcb} \ {Null}
    BY <1>2 DEF FreeSet
  <2> QED
    BY <1>1, <2>2, <2>3
<1> QED
  BY <1>1, <1>4, <1>5, <1>6

LEMMA SamePool ==
  ASSUME NEW n, NEW m, m.head = n.head, m.next = n.next
  PROVE  FreeSet(m) = FreeSet(n) /\ FreeListEnds(m) = FreeListEnds(n)
<1>1. Nth(m) = Nth(n)
  BY DEF Nth
<1> QED
  BY <1>1 DEF FreeSet, FreeListEnds

(* An element becomes the head.  The list goes on to end exactly if it did *)
(* and the element was not on it.                                          *)
LEMMA PoolPut ==
  ASSUME NEW n \in Nets, NEW m \in Nets, NEW p \in Pcbs,
         m.head = p, m.next = [n.next EXCEPT ![p] = n.head]
  PROVE  /\ FreeListEnds(m) <=> FreeListEnds(n) /\ p \notin FreeSet(n)
         /\ FreeListEnds(m) => FreeSet(m) = FreeSet(n) \cup {p}
<1>1. PICK P : IsPath(n, P)
  BY PathExists
<1>2. PICK Q : IsPath(m, Q)
  BY PathExists
<1>3. /\ P[0] = n.head /\ \A k \in Nat : P[k] \in Pcbs \cup {Null}
      /\ \A k \in Nat : P[k + 1] = Follow(n)[P[k]]
  BY <1>1 DEF IsPath, Iterates
<1>4. /\ Q[0] = p /\ \A k \in Nat : Q[k] \in Pcbs \cup {Null}
      /\ \A k \in Nat : Q[k + 1] = Follow(m)[Q[k]]
  BY <1>2 DEF IsPath, Iterates
<1>5. /\ Follow(m)[p] = n.head /\ Follow(m)[Null] = Null /\ Null # p
      /\ \A x \in (Pcbs \cup {Null}) \ {p} : Follow(m)[x] = Follow(n)[x]
  BY PoolTypes
<1>6. ASSUME \A k \in Nat : P[k] # p
      PROVE  \A k \in Nat : Q[k + 1] = P[k]
  <2> DEFINE S == {k \in Nat : Q[k + 1] = P[k]}
  <2>1. 0 \in S
    BY <1>3, <1>4, <1>5
  <2>2. ASSUME NEW k \in Nat, k \in S
        PROVE  k + 1 \in S
    <3>1. Q[(k + 1) + 1] = Follow(m)[Q[k + 1]] /\ Q[k + 1] = P[k]
      BY <1>4, <2>2
    <3>2. Follow(m)[P[k]] = Follow(n)[P[k]]
      BY <1>3, <1>5, <1>6
    <3> QED
      BY <1>3, <3>1, <3>2
  <2>3. Nat \subseteq S
    <3> HIDE DEF S
    <3> QED
      BY <2>1, <2>2, SetInduction
  <2> QED
    BY <2>3
<1>7. ASSUME NEW j \in Nat, P[j] = p
      PROVE  \A k \in Nat : Q[k] # Null
  <2> DEFINE Z == {k \in Nat : P[k] = p}
  <2>1. PICK l \in Z : \A k \in Z : l <= k
    <3>1. Z \in SUBSET Nat /\ Z # {}
      BY <1>7
    <3> HIDE DEF Z
    <3> QED
      BY <3>1, LeastElement
  <2>2. l \in Nat /\ P[l] = p /\ \A k \in Nat : k < l => P[k] # p
    BY <2>1
  <2>3. \A k \in Nat : k <= l => P[k] # Null
    <3>1. ASSUME NEW k \in Nat, k <= l, P[k] = Null
          PROVE  FALSE
      <4>1. Iterates(P, n.head, Follow(n)) /\ Follow(n)[P[k]] = P[k]
        BY <1>1, <3>1, PoolTypes DEF IsPath
      <4>2. P[l] = P[k]
        BY <2>2, <3>1, <4>1, IterateStops
      <4> QED
        BY <1>5, <2>2, <3>1, <4>2
    <3> QED
      BY <3>1
  <2> DEFINE X == {P[k] : k \in 0..l}
             S == {k \in Nat : Q[k] \in X}
  <2>4. 0 \in S
    BY <1>4, <2>2
  <2>5. ASSUME NEW k \in Nat, k \in S
        PROVE  k + 1 \in S
    <3>1. PICK i \in 0..l : Q[k] = P[i]
      BY <2>5
    <3>2. Q[k + 1] = Follow(m)[P[i]]
      BY <1>4, <3>1
    <3>3. CASE i = l
      <4>1. Q[k + 1] = P[0] /\ 0 \in 0..l
        BY <1>3, <1>5, <2>2, <3>2, <3>3
      <4> QED
        BY <4>1
    <3>4. CASE i # l
      <4>1. i + 1 \in 0..l /\ i \in Nat /\ P[i] # p
        BY <2>2, <3>4
      <4>2. Q[k + 1] = P[i + 1]
        BY <1>3, <1>5, <3>2, <4>1
      <4> QED
        BY <4>1, <4>2
    <3> QED
      BY <3>3, <3>4
  <2>6. Nat \subseteq S
    <3> HIDE DEF S
    <3> QED
      BY <2>4, <2>5, SetInduction
  <2>7. Null \notin X
    BY <2>2, <2>3
  <2> QED
    BY <2>6, <2>7
<1>8. /\ FreeListEnds(n) <=> \E k \in Nat : P[k] = Null
      /\ FreeListEnds(n) => FreeSet(n) = {P[k] : k \in Nat} \ {Null}
      /\ FreeListEnds(m) <=> \E k \in Nat : Q[k] = Null
      /\ FreeListEnds(m) => FreeSet(m) = {Q[k] : k \in Nat} \ {Null}
  BY <1>1, <1>2, PoolIs
<1>9. CASE \E j \in Nat : P[j] = p
  <2>1. ~FreeListEnds(m)
    BY <1>7, <1>8, <1>9
  <2>2. FreeListEnds(n) => p \in FreeSet(n)
    BY <1>5, <1>8, <1>9
  <2> QED
    BY <2>1, <2>2
<1>10. CASE \A j \in Nat : P[j] # p
  <2>1. \A k \in Nat : Q[k + 1] = P[k]
    BY <1>6, <1>10
  <2>2. \A k \in Nat : k # 0 => Q[k] = P[k - 1] /\ k - 1 \in Nat
    <3> SUFFICES ASSUME NEW k \in Nat, k # 0
                 PROVE  Q[k] = P[k - 1] /\ k - 1 \in Nat
      OBVIOUS
    <3>1. k - 1 \in Nat /\ (k - 1) + 1 = k
      OBVIOUS
    <3> QED
      BY <2>1, <3>1
  <2>3. (\E k \in Nat : Q[k] = Null) <=> \E k \in Nat : P[k] = Null
    BY <1>4, <1>5, <2>1, <2>2
  <2>4. {Q[k] : k \in Nat} = {P[k] : k \in Nat} \cup {p}
    <3>1. \A k \in Nat : Q[k] \in {P[i] : i \in Nat} \cup {p}
      BY <1>4, <2>2
    <3>2. \A k \in Nat : P[k] \in {Q[i] : i \in Nat}
      <4> TAKE k \in Nat
      <4>1. k + 1 \in Nat /\ P[k] = Q[k + 1]
        BY <2>1
      <4> QED
        BY <4>1
    <3>3. p \in {Q[i] : i \in Nat}
      BY <1>4
    <3> QED
      BY <3>1, <3>2, <3>3
  <2>5. FreeListEnds(n) => p \notin FreeSet(n)
    BY <1>8, <1>10
  <2>6. FreeListEnds(m) <=> FreeListEnds(n)
    BY <1>8, <2>3
  <2> QED
    BY <1>5, <1>8, <2>4, <2>5, <2>6
<1> QED
  BY <1>9, <1>10

(* The head is taken off: the others stay on the list.                     *)
LEMMA PoolGet ==
  ASSUME NEW n \in Nets, NEW m \in Nets, n.head # Null,
         m.head = n.next[n.head], m.next = n.next
  PROVE  /\ FreeListEnds(m) <=> FreeListEnds(n)
         /\ FreeListEnds(n) => FreeSet(m) = FreeSet(n) \ {n.head} /\ n.head \in FreeSet(n)
<1>1. PICK P : IsPath(n, P)
  BY PathExists
<1> DEFINE Q == [k \in Nat |-> P[k + 1]]
<1>2. /\ P[0] = n.head /\ \A k \in Nat : P[k] \in Pcbs \cup {Null}
      /\ \A k \in Nat : P[k + 1] = Follow(n)[P[k]]
  BY <1>1 DEF IsPath, Iterates
<1>3. Follow(m) = Follow(n)
  BY DEF Follow
<1>4. n.head \in Pcbs /\ Follow(n)[n.head] = m.head
  BY PoolTypes
<1>5. /\ Q \in [Nat -> Pcbs \cup {Null}]
      /\ \A k \in Nat : Q[k] = P[k + 1]
  BY <1>2
<1>6. Q[0] = m.head
  BY <1>2, <1>4, <1>5
<1>7. \A k \in Nat : Q[k + 1] = Follow(m)[Q[k]]
  <2> TAKE k \in Nat
  <2>1. k + 1 \in Nat
    OBVIOUS
  <2> HIDE DEF Q
  <2> QED
    BY <1>2, <1>3, <1>5, <2>1
<1> HIDE DEF Q
<1>8. IsPath(m, Q)
  BY <1>5, <1>6, <1>7 DEF IsPath, Iterates
<1>9. /\ FreeListEnds(n) <=> \E k \in Nat : P[k] = Null
      /\ FreeListEnds(n) => FreeSet(n) = {P[k] : k \in Nat} \ {Null}
      /\ FreeListEnds(m) <=> \E k \in Nat : Q[k] = Null
      /\ FreeListEnds(m) => FreeSet(m) = {Q[k] : k \in Nat} \ {Null}
  BY <1>1, <1>8, PoolIs
<1>10. \A k \in Nat : k # 0 => P[k] = Q[k - 1] /\ k - 1 \in Nat
  <2> SUFFICES ASSUME NEW k \in Nat, k # 0
               PROVE  P[k] = Q[k - 1] /\ k - 1 \in Nat
    OBVIOUS
  <2>1. k - 1 \in Nat /\ (k - 1) + 1 = k
    OBVIOUS
  <2> QED
    BY <1>5, <2>1
<1>11. FreeListEnds(m) <=> FreeListEnds(n)
  <2>1. \A k \in Nat : Q[k] = Null => P[k + 1] = Null /\ k + 1 \in Nat
    BY <1>5
  <2>2. \A k \in Nat : P[k] = Null => Q[k - 1] = Null /\ k - 1 \in Nat
    BY <1>2, <1>10
  <2> QED
    BY <1>9, <2>1, <2>2
<1>12. {P[k] : k \in Nat} = {Q[k] : k \in Nat} \cup {n.head}
  <2>1. \A k \in Nat : P[k] \in {Q[i] : i \in Nat} \cup {n.head}
    BY <1>2, <1>10
  <2>2. \A k \in Nat : Q[k] \in {P[i] : i \in Nat}
    <3> TAKE k \in Nat
    <3>1. k + 1 \in Nat /\ Q[k] = P[k + 1]
      BY <1>5
    <3> QED
      BY <3>1
  <2>3. n.head \in {P[i] : i \in Nat}
    BY <1>2
  <2> QED
    BY <2>1, <2>2, <2>3
<1>13. ASSUME FreeListEnds(n), NEW k \in Nat, Q[k] = n.head
       PROVE  FALSE
  <2>1. PICK e \in Nat : P[e] = Null
    BY <1>9, <1>13
  <2>2. P[0] = P[k + 1] /\ Iterates(P, n.head, Follow(n)) /\ 0 \in Nat /\ k + 1 \in Nat
    BY <1>1, <1>2, <1>5, <1>13 DEF IsPath
  <2>3. \A d \in Nat : P[0 + d] = P[(k + 1) + d]
    BY ONLY <2>2, IterateRepeats
  <2> DEFINE Z == {i \in Nat : P[i] = Null}
  <2>4. PICK l \in Z : \A i \in Z : l <= i
    <3>1. Z \in SUBSET Nat /\ Z # {}
      BY <2>1
    <3> HIDE DEF Z
    <3> QED
      BY <3>1, LeastElement
  <2>5. l \in Nat /\ P[l] = Null /\ \A i \in Nat : P[i] = Null => l <= i
    BY <2>4
  <2>6. l > k
    <3> SUFFICES ASSUME l <= k PROVE FALSE
      BY <2>5
    <3>1. Follow(n)[P[l]] = P[l]
      BY <2>5, PoolTypes
    <3>2. P[k + 1] = P[l]
      <4>1. \A j \in Nat : j >= l => P[j] = P[l]
        BY <2>2, <2>5, <3>1, IterateStops
      <4>2. k + 1 \in Nat /\ k + 1 >= l
        BY <2>5
      <4> QED
        BY <4>1, <4>2
    <3> QED
      BY <1>2, <2>2, <2>5, <3>2
  <2>7. l - (k + 1) \in Nat /\ (k + 1) + (l - (k + 1)) = l /\ 0 + (l - (k + 1)) = l - (k + 1)
    BY <2>5, <2>6
  <2>8. P[l - (k + 1)] = Null
    BY <2>3, <2>5, <2>7
  <2> QED
    BY <2>5, <2>7, <2>8
<1> QED
  BY <1>9, <1>11, <1>12, <1>13

(* A pool without a head is empty.                                         *)
LEMMA PoolEmpty ==
  ASSUME NEW n \in Nets, n.head = Null
  PROVE  FreeListEnds(n) /\ FreeSet(n) = {}
<1>1. PICK P : IsPath(n, P)
  BY PathExists
<1>2. Iterates(P, n.head, Follow(n)) /\ P[0] = Null /\ Follow(n)[P[0]] = P[0] /\ 0 \in Nat
  BY <1>1, PoolTypes DEF IsPath, Iterates
<1>3. \A j \in Nat : j >= 0 => P[j] = P[0]
  BY ONLY <1>2, IterateStops
<1>4. \A j \in Nat : P[j] = Null
  BY <1>2, <1>3
<1> QED
  BY <1>1, <1>2, <1>4, PoolIs

(* What lwIP still knows of: the free pcbs and those on its lists.         *)
Known(n) == FreeSet(n) \cup n.active \cup n.tw

(* m is n after p was given back: if p was free, the list becomes a ring.  *)
Returned(n, m, p) ==
  /\ FreeListEnds(m) <=> FreeListEnds(n) /\ p \notin FreeSet(n)
  /\ FreeListEnds(m) => FreeSet(m) = FreeSet(n) \cup {p}

LEMMA MempFreeReturns ==
  ASSUME NEW n \in Nets, NEW p \in Pcbs
  PROVE  Returned(n, MempFree(n, p), p) /\ MempFree(n, p).tw = n.tw
<1>1. PICK m : m = MempFree(n, p)
  OBVIOUS
<1>2. m \in Nets /\ m.head = p
  BY <1>1, MempFreeIs
<1>3. m.next = [n.next EXCEPT ![p] = n.head] /\ m.tw = n.tw
  BY <1>1 DEF MempFree, Nets
<1> QED
  BY <1>1, <1>2, <1>3, PoolPut DEF Returned

LEMMA RemoveReturns ==
  ASSUME NEW n \in Nets, NEW p \in Pcbs
  PROVE  /\ Returned(n, PcbRemove(n, p), p)
         /\ PcbRemove(n, p).active = IF n.pcb[p].st = "TIME_WAIT" THEN n.active
                                  ELSE n.active \ {p}
         /\ PcbRemove(n, p).tw = IF n.pcb[p].st = "TIME_WAIT" THEN n.tw \ {p} ELSE n.tw
<1>1. PICK r, a, t :
        /\ r = [n.pcb[p] EXCEPT !.st = "CLOSED"]
        /\ a = IF n.pcb[p].st = "TIME_WAIT" THEN n.active ELSE n.active \ {p}
        /\ t = IF n.pcb[p].st = "TIME_WAIT" THEN n.tw \ {p} ELSE n.tw
  OBVIOUS
<1>2. r \in PcbRecords
  BY <1>1 DEF Nets, PcbRecords, States
<1>3. a \in SUBSET Pcbs /\ t \in SUBSET Pcbs
  BY <1>1 DEF Nets
<1>4. PICK m : m = Change(n, p, r, a, t)
  OBVIOUS
<1>5. m \in Nets /\ m.active = a /\ m.tw = t /\ m.head = n.head /\ m.next = n.next
  <2>1. Change(n, p, r, a, t) \in Nets /\ Change(n, p, r, a, t).active = a
    BY <1>2, <1>3, ChangeOne
  <2>2. m.tw = t /\ m.head = n.head /\ m.next = n.next
    BY <1>4, ChangeLists
  <2> QED
    BY <1>4, <2>1, <2>2
<1>6. PcbRemove(n, p) = MempFree(m, p)
  BY <1>1, <1>4 DEF PcbRemove, Change
<1>7. /\ Returned(m, PcbRemove(n, p), p) /\ PcbRemove(n, p).tw = t
      /\ PcbRemove(n, p).active = a
  BY <1>5, <1>6, MempFreeReturns, MempFreeIs
<1>8. FreeSet(m) = FreeSet(n) /\ FreeListEnds(m) = FreeListEnds(n)
  BY <1>5, SamePool
<1> QED
  BY <1>1, <1>7, <1>8 DEF Returned

LEMMA ExpireReturns ==
  ASSUME NEW n \in Nets, NEW p \in Pcbs
  PROVE  Returned(n, Expire(n, p), p) /\ Expire(n, p).tw = n.tw \ {p}
<1>1. PICK m : m = [n EXCEPT !.active = @ \ {p}, !.tw = @ \ {p}]
  OBVIOUS
<1>2. /\ m \in Nets /\ m.tw = n.tw \ {p} /\ m.head = n.head /\ m.next = n.next
  BY <1>1 DEF Nets
<1>3. Expire(n, p) = MempFree(m, p)
  BY <1>1 DEF Expire
<1>4. FreeSet(m) = FreeSet(n) /\ FreeListEnds(m) = FreeListEnds(n)
  BY <1>2, SamePool
<1> QED
  BY <1>2, <1>3, <1>4, MempFreeReturns DEF Returned

(* m has the pool and the lists of n.                                      *)
SameLists(n, m) ==
  /\ FreeSet(m) = FreeSet(n) /\ FreeListEnds(m) = FreeListEnds(n)
  /\ m.active = n.active /\ m.tw = n.tw

(* A pcb that is not open goes back to the pool, another one stays.        *)
LEMMA CloseReturns ==
  ASSUME NEW n \in Nets, NEW p \in Pcbs
  PROVE  IF n.pcb[p].st \in {"CLOSED", "SYN_SENT"}
         THEN /\ Returned(n, TcpClose(n, p), p)
              /\ TcpClose(n, p).active = n.active \ {p} /\ TcpClose(n, p).tw = n.tw
         ELSE /\ SameLists(n, TcpClose(n, p))
              /\ TcpClose(n, p).pcb[p].st = CASE n.pcb[p].st = "ESTABLISHED" -> "FIN_WAIT"
                                              [] n.pcb[p].st = "CLOSE_WAIT" -> "LAST_ACK"
                                              [] OTHER -> n.pcb[p].st
<1> DEFINE Rec(st) == [n.pcb[p] EXCEPT !.rxc = TRUE, !.st = st]
           Now(st) == Change(n, p, Rec(st), n.active, n.tw)
<1>1. n.pcb[p] \in PcbRecords /\ n.pcb[p].st \in States
  BY FieldTypes DEF Nets
<1>2. \A st \in States : Rec(st) \in PcbRecords /\ Rec(st).st = st
  BY <1>1 DEF PcbRecords
<1>3. n.active \in SUBSET Pcbs /\ n.tw \in SUBSET Pcbs
  BY FieldTypes
<1>4. ASSUME NEW st \in States
      PROVE  /\ Now(st) \in Nets /\ Now(st).pcb[p].st = st /\ SameLists(n, Now(st))
  <2>1. PICK r : r = Rec(st) /\ r \in PcbRecords /\ r.st = st
    BY <1>2
  <2>2. PICK m : m = Now(st)
    OBVIOUS
  <2>3. m = Change(n, p, r, n.active, n.tw)
    BY <2>1, <2>2
  <2>4. m \in Nets /\ m.pcb[p] = r
    BY <1>3, <2>1, <2>3, ChangeOne
  <2>5. m.active = n.active /\ m.tw = n.tw /\ m.head = n.head /\ m.next = n.next
    BY <2>3, ChangeLists
  <2>6. SameLists(n, m)
    BY <2>5, SamePool DEF SameLists
  <2> QED
    BY <2>1, <2>2, <2>4, <2>6
<1>5. CASE n.pcb[p].st \in {"CLOSED", "SYN_SENT"}
  <2>1. PICK m : m = Now(n.pcb[p].st)
    OBVIOUS
  <2>2. TcpClose(n, p) = PcbRemove(m, p)
    BY <1>5, <2>1 DEF TcpClose, Change
  <2>3. m \in Nets /\ m.pcb[p].st = n.pcb[p].st /\ SameLists(n, m)
    BY <1>1, <1>4, <2>1
  <2>4. /\ Returned(m, PcbRemove(m, p), p)
        /\ PcbRemove(m, p).active = n.active \ {p} /\ PcbRemove(m, p).tw = n.tw
    BY <1>5, <2>3, RemoveReturns DEF SameLists
  <2> QED
    BY <1>5, <2>2, <2>3, <2>4 DEF Returned, SameLists
<1>6. CASE n.pcb[p].st \notin {"CLOSED", "SYN_SENT"}
  <2>1. PICK s \in States :
          /\ TcpClose(n, p) = Now(s)
          /\ s = CASE n.pcb[p].st = "ESTABLISHED" -> "FIN_WAIT"
                   [] n.pcb[p].st = "CLOSE_WAIT" -> "LAST_ACK"
                   [] OTHER -> n.pcb[p].st
    <3>1. CASE n.pcb[p].st = "ESTABLISHED"
      <4>1. TcpClose(n, p) = Now("FIN_WAIT") /\ "FIN_WAIT" \in States
        BY <3>1 DEF TcpClose, Change, States
      <4> QED
        BY <3>1, <4>1
    <3>2. CASE n.pcb[p].st = "CLOSE_WAIT"
      <4>1. TcpClose(n, p) = Now("LAST_ACK") /\ "LAST_ACK" \in States
        BY <3>2 DEF TcpClose, Change, States
      <4> QED
        BY <3>2, <4>1
    <3>3. CASE n.pcb[p].st \notin {"ESTABLISHED", "CLOSE_WAIT"}
      <4>1. TcpClose(n, p) = Now(n.pcb[p].st)
        BY <1>6, <3>3 DEF TcpClose, Change
      <4> QED
        BY <1>1, <3>3, <4>1
    <3> QED
      BY <3>1, <3>2, <3>3
  <2> HIDE DEF Now
  <2> QED
    BY <1>4, <1>6, <2>1
<1> QED
  BY <1>5, <1>6

(* The head of the pool is handed out.                                     *)
LEMMA TakeKeeps ==
  ASSUME NEW n \in Nets, n.head # Null
  PROVE  /\ FreeListEnds(Take(n)) <=> FreeListEnds(n)
         /\ FreeListEnds(n) => /\ FreeSet(Take(n)) = FreeSet(n) \ {n.head}
                              /\ n.head \in FreeSet(n)
         /\ Take(n).active = n.active /\ Take(n).tw = n.tw
<1>1. PICK m : m = Take(n)
  OBVIOUS
<1>2. PICK f : f = [n.pcb EXCEPT ![n.head] = FreshPcb]
  OBVIOUS
<1>3. m = [n EXCEPT !.head = n.next[n.head], !.pcb = f]
  BY <1>1, <1>2 DEF Take
<1>4. m.head = n.next[n.head] /\ m.next = n.next /\ m.active = n.active /\ m.tw = n.tw
  BY <1>3 DEF Nets
<1>5. m \in Nets
  BY <1>1, TakeIs
<1> QED
  BY <1>1, <1>4, <1>5, PoolGet

(* tcp_new: the pcb comes from the pool or is taken off a list; every      *)
(* other one stays where it is.                                            *)
LEMMA TcpNewKeeps ==
  ASSUME NEW n \in Nets, NEW pn \in TcpNew(n)
  PROVE  /\ FreeListEnds(pn[2]) <=> FreeListEnds(n)
         /\ FreeListEnds(n) => FreeSet(pn[2]) = FreeSet(n) \ {pn[1]}
         /\ pn[2].active \subseteq n.active /\ n.active \subseteq pn[2].active \cup {pn[1]}
         /\ pn[2].tw \subseteq n.tw /\ n.tw \subseteq pn[2].tw \cup {pn[1]}
         /\ FreeListEnds(n) /\ FreeSet(n) \cap (n.active \cup n.tw) = {}
              /\ n.active \cap n.tw = {}
              /\ (\A q \in n.active : n.pcb[q].st # "TIME_WAIT")
              /\ (\A q \in n.tw : n.pcb[q].st = "TIME_WAIT") =>
                pn[1] \notin pn[2].active \cup pn[2].tw
<1>1. CASE n.head # Null
  <2>1. pn = <<n.head, Take(n)>>
    BY <1>1 DEF TcpNew
  <2> QED
    BY <1>1, <2>1, TakeKeeps
<1>2. CASE n.head = Null
  <2>1. PICK p \in Victims(n) : pn = <<p, Take(PcbRemove(n, p))>>
    BY <1>2 DEF TcpNew
  <2>2. p \in Pcbs /\ p # Null /\ p \in n.active \cup n.tw
    BY DEF Victims, Nets, Pcbs, Null
  <2>3. PICK r : r = PcbRemove(n, p)
    OBVIOUS
  <2>4. /\ r \in Nets /\ r.head = p /\ Returned(n, r, p)
        /\ r.active = IF n.pcb[p].st = "TIME_WAIT" THEN n.active ELSE n.active \ {p}
        /\ r.tw = IF n.pcb[p].st = "TIME_WAIT" THEN n.tw \ {p} ELSE n.tw
    BY <2>2, <2>3, RemoveIs, RemoveReturns
  <2>5. /\ FreeListEnds(Take(r)) <=> FreeListEnds(r)
        /\ FreeListEnds(r) => FreeSet(Take(r)) = FreeSet(r) \ {p}
        /\ Take(r).active = r.active /\ Take(r).tw = r.tw
    BY <2>2, <2>4, TakeKeeps
  <2>6. FreeListEnds(n) /\ FreeSet(n) = {}
    BY <1>2, PoolEmpty
  <2>7. pn[1] = p /\ pn[2] = Take(r)
    BY <2>1, <2>3
  <2> QED
    BY <2>2, <2>4, <2>5, <2>6, <2>7 DEF Returned
<1> QED
  BY <1>1, <1>2

-----------------------------------------------------------------------------
(* Pcbs that are lost.                                                     *)

(* From n to m nobody takes a pcb: what lwIP knows of it still knows, and  *)
(* a pcb it does not know is not made anything of.                         *)
Keeps(n, m, p) ==
  /\ FreeListEnds(m) => FreeListEnds(n) /\ Known(n) \subseteq Known(m)
  /\ \A q \in Pcbs \ {p} : m.pcb[q] = n.pcb[q]
  /\ FreeListEnds(m) /\ p \notin Known(m) /\ n.pcb[p].st = "CLOSED" /\ ~n.pcb[p].cb =>
       m.pcb[p].st = "CLOSED" /\ ~m.pcb[p].cb

LEMMA KeepsTwice ==
  ASSUME NEW n, NEW m, NEW l, NEW p, Keeps(n, m, p), Keeps(m, l, p)
  PROVE  Keeps(n, l, p)
  BY DEF Keeps

LEMMA RemoveKeeps ==
  ASSUME NEW n \in Nets, NEW p \in Pcbs
  PROVE  Keeps(n, PcbRemove(n, p), p)
<1>1. PICK m : m = PcbRemove(n, p)
  OBVIOUS
<1>2. /\ Returned(n, m, p) /\ n.active \subseteq m.active \cup {p}
      /\ n.tw \subseteq m.tw \cup {p}
  BY <1>1, RemoveReturns
<1>3. \A q \in Pcbs \ {p} : m.pcb[q] = n.pcb[q]
  <2>1. Fewer(n, m, p)
    BY <1>1, RemoveIs
  <2> QED
    BY <2>1 DEF Fewer, Others
<1> QED
  BY <1>1, <1>2, <1>3 DEF Keeps, Known, Returned

LEMMA ExpireKeeps ==
  ASSUME NEW n \in Nets, NEW p \in Pcbs
  PROVE  Keeps(n, Expire(n, p), p)
<1>1. PICK m : m = Expire(n, p)
  OBVIOUS
<1>2. /\ Returned(n, m, p) /\ n.active \subseteq m.active \cup {p}
      /\ n.tw \subseteq m.tw \cup {p} /\ m.pcb = n.pcb
  BY <1>1, ExpireReturns, ExpireIs
<1> QED
  BY <1>1, <1>2 DEF Keeps, Known, Returned

LEMMA CloseKeeps ==
  ASSUME NEW n \in Nets, NEW p \in Pcbs
  PROVE  Keeps(n, TcpClose(n, p), p)
<1>1. PICK m : m = TcpClose(n, p)
  OBVIOUS
<1>2. \A q \in Pcbs \ {p} : m.pcb[q] = n.pcb[q]
  BY <1>1, TcpCloseIs DEF Fewer, Others
<1>3. CASE n.pcb[p].st \in {"CLOSED", "SYN_SENT"}
  <2>1. Returned(n, m, p) /\ m.active = n.active \ {p} /\ m.tw = n.tw
    BY <1>1, <1>3, CloseReturns
  <2> QED
    BY <1>1, <1>2, <2>1 DEF Keeps, Known, Returned
<1>4. CASE n.pcb[p].st \notin {"CLOSED", "SYN_SENT"}
  <2>1. SameLists(n, m)
    BY <1>1, <1>4, CloseReturns
  <2> QED
    BY <1>1, <1>2, <1>4, <2>1 DEF Keeps, Known, SameLists
<1> QED
  BY <1>3, <1>4

LEMMA BecomesKeeps ==
  ASSUME NEW n \in Nets, NEW m, NEW p \in Pcbs, NEW st, NEW cb, NEW arg, NEW a, NEW t,
         Becomes(n, m, p, st, cb, arg, a, t), n.active \cup n.tw \subseteq a \cup t,
         p \in a \cup t \/ (st = n.pcb[p].st /\ (cb => n.pcb[p].cb))
  PROVE  Keeps(n, m, p)
<1>1. FreeSet(m) = FreeSet(n) /\ FreeListEnds(m) = FreeListEnds(n)
  BY SamePool DEF Becomes
<1>2. \A q \in Pcbs \ {p} : m.pcb[q] = n.pcb[q]
  BY DEF Becomes
<1>3. m.active = a /\ m.tw = t /\ m.pcb[p].st = st /\ m.pcb[p].cb = cb
  BY DEF Becomes
<1> QED
  BY <1>1, <1>2, <1>3 DEF Keeps, Known

(* The callbacks go and the pcb is closed.                                 *)
LEMMA UnbindKeeps ==
  ASSUME NEW n \in Nets, NEW p \in Pcbs, NEW arg \in Blocks \cup {Null, n.pcb[p].arg}
  PROVE  Keeps(n, TcpClose(Update(n, p, n.pcb[p].st, FALSE, arg, n.active, n.tw), p), p)
<1>1. PICK m : m = Update(n, p, n.pcb[p].st, FALSE, arg, n.active, n.tw)
  OBVIOUS
<1>2. n.active \in SUBSET Pcbs /\ n.tw \in SUBSET Pcbs
  BY FieldTypes
<1>3. Becomes(n, m, p, n.pcb[p].st, FALSE, arg, n.active, n.tw)
  BY <1>1, <1>2, UpdateIs
<1>4. m \in Nets /\ Keeps(n, m, p)
  BY <1>3, BecomesKeeps DEF Becomes
<1>5. PICK c : c = TcpClose(m, p)
  OBVIOUS
<1>6. Keeps(m, c, p)
  BY <1>4, <1>5, CloseKeeps
<1> QED
  BY <1>1, <1>4, <1>5, <1>6, KeepsTwice

LEMMA SameKeeps ==
  ASSUME NEW n, NEW p
  PROVE  Keeps(n, n, p)
  BY DEF Keeps

(* A step that opens nothing: the pcb of the present connection is kept,   *)
(* and no block goes astray.                                               *)
StillHeld ==
  /\ client_pcb' = client_pcb /\ LostBlocks' \subseteq LostBlocks
  /\ \E p \in Pcbs : Keeps(net, net', p)

LEMMA SomePcb == NumPcb \in Pcbs
  BY ClientAssumption DEF Pcbs

LEMMA StackHeld ==
  ASSUME TypeOK, NEW p \in Pcbs,
         \/ Reset(p) \/ Data(p) \/ Fin(p) \/ SynAck(p) \/ GiveUp(p)
         \/ LastAck(p) \/ Poll(p)
  PROVE  StillHeld
<1>1. UNCHANGED <<heap, client_pcb, client_es>>
  BY DEF Reset, Data, Fin, SynAck, GiveUp, LastAck, Poll, Stack
<1>2. net \in Nets
  BY DEF TypeOK
<1>3. Keeps(net, net', p)
  <2>1. CASE Reset(p) \/ Data(p) \/ LastAck(p) \/ Poll(p)
    <3>1. net' = net \/ net' = PcbRemove(net, p)
      BY <2>1 DEF Reset, Data, LastAck, Poll, Stack
    <3> QED
      BY <1>2, <3>1, RemoveKeeps, SameKeeps
  <2>2. CASE GiveUp(p)
    BY <1>2, <2>2, ExpireKeeps DEF GiveUp, Stack
  <2>3. CASE SynAck(p)
    <3>1. p \in net.active
      BY <2>3 DEF SynAck
    <3> QED
      BY <1>2, <2>3, <3>1, SynAckNet, BecomesKeeps
  <2>4. CASE Fin(p) /\ net.pcb[p].st = "ESTABLISHED"
    <3>1. p \in net.active
      BY <2>4 DEF Fin, PeerTalks
    <3> QED
      BY <1>2, <2>4, <3>1, FinNet, BecomesKeeps
  <2>5. CASE Fin(p) /\ net.pcb[p].st # "ESTABLISHED"
    <3>1. net.active \cup net.tw \subseteq (net.active \ {p}) \cup (net.tw \cup {p})
      OBVIOUS
    <3> QED
      BY <1>2, <2>5, <3>1, FinWaitNet, BecomesKeeps
  <2> QED
    BY <2>1, <2>2, <2>3, <2>4, <2>5
<1> QED
  BY <1>1, <1>3 DEF StillHeld, LostBlocks

LEMMA CallbackHeld ==
  ASSUME TypeOK, Owned, Control, Callback
  PROVE  StillHeld
<1>1. UNCHANGED <<heap, client_pcb, client_es>> /\ net \in Nets
  BY DEF Callback, RunConnected, RunData, RunFin, RunPoll, RunPollAbort, RunDangling, sys, TypeOK
<1>2. ASSUME mutex = "none", core.pc \in {"fin", "poll"}
      PROVE  core.p \in Pcbs /\ core.arg # Null
  <2>1. core.p \in Served /\ core.arg = client_es
    BY <1>2 DEF Control, Pending
  <2> QED
    BY <2>1, ActiveTyped DEF Control, Binding
<1>3. ASSUME NEW p \in Pcbs, NEW b, ConnectionClose(p, b)
      PROVE  Keeps(net, net', p)
  <2>1. PICK n : n = net
    OBVIOUS
  <2>2. [n EXCEPT !.pcb[p].cb = FALSE, !.pcb[p].arg = Null] =
          Update(n, p, n.pcb[p].st, FALSE, Null, n.active, n.tw)
    BY DEF Update, Change
  <2>3. net' = TcpClose(Update(n, p, n.pcb[p].st, FALSE, Null, n.active, n.tw), p)
    BY <1>3, <2>1, <2>2 DEF ConnectionClose
  <2> QED
    BY <1>1, <2>1, <2>3, UnbindKeeps
<1>4. \E p \in Pcbs : Keeps(net, net', p)
  <2>1. CASE net' = net
    BY <2>1, SameKeeps, SomePcb
  <2>2. CASE RunConnected
    <3>1. core.p = client_pcb /\ client_pcb \in net.active /\ core.p \in Pcbs
      BY <2>2, ActiveTyped DEF RunConnected, Running, Control, Pending
    <3>2. Becomes(net, net', core.p, net.pcb[core.p].st, TRUE, client_es, net.active, net.tw)
      BY <2>2, RunConnectedNet
    <3> QED
      BY <1>1, <3>1, <3>2, BecomesKeeps
  <2>3. CASE RunFin /\ net' # net
    BY <1>2, <1>3, <2>3 DEF RunFin, Running
  <2>4. CASE RunPoll /\ net' # net
    BY <1>2, <1>3, <2>4 DEF RunPoll, Running
  <2>5. CASE RunPollAbort
    BY <1>2, <2>5 DEF RunPollAbort, Running
  <2> QED
    BY <2>1, <2>2, <2>3, <2>4, <2>5 DEF Callback, RunData, RunDangling, sys
<1> QED
  BY <1>1, <1>4 DEF StillHeld, LostBlocks

LEMMA ArduinoHeld ==
  ASSUME TypeOK, Owned, Arduino
  PROVE  StillHeld \/ Reboot("CONNECTRETRY")
<1>1. net \in Nets /\ (ard \in {"resolve", "connFail", "closing"} => client_pcb \in Pcbs)
  BY DEF TypeOK, Owned
<1>2. CASE net' = net /\ UNCHANGED <<client_pcb, client_es, heap>>
  BY <1>2, SameKeeps, SomePcb DEF StillHeld, LostBlocks
<1>3. CASE FreeEs /\ net' = net /\ client_pcb' = client_pcb
  BY <1>3, SameKeeps, SomePcb DEF StillHeld, LostBlocks, FreeEs
<1>4. CASE DnsFails \/ ConnectLoops \/ ConnOk \/ FailFree \/ FreeBody \/ CloseTake
           \/ CloseDone \/ CloseTimeoutNull
  BY <1>2, <1>3, <1>4 DEF DnsFails, ConnectLoops, ConnOk, FailFree, FreeBody, CloseTake,
     CloseDone, CloseTimeoutNull, sys
<1>5. CASE ConnectNoRoute \/ ConnFails
  BY <1>2, <1>5 DEF ConnectNoRoute, ConnFails, CountConnect
<1>6. CASE Connect
  <2>1. client_pcb \in Pcbs
    BY <1>1, <1>6 DEF Connect
  <2>2. Keeps(net, net', client_pcb)
    BY <1>1, <1>6, <2>1, ConnectNet, BecomesKeeps
  <2> QED
    BY <1>6, <2>1, <2>2 DEF Connect, StillHeld, LostBlocks
<1>7. CASE FailClose
  <2>1. client_pcb \in Pcbs
    BY <1>1, <1>7 DEF FailClose
  <2>2. Keeps(net, net', client_pcb)
    BY <1>1, <1>7, <2>1, CloseKeeps DEF FailClose
  <2> QED
    BY <1>7, <2>1, <2>2 DEF FailClose, StillHeld, LostBlocks
<1>8. CASE CloseTimeout
  <2>1. client_pcb \in Pcbs
    BY <1>8 DEF CloseTimeout, TypeOK
  <2>2. Keeps(net, net', client_pcb)
    BY <1>1, <1>8, <2>1, CloseTimeoutNet, BecomesKeeps
  <2> QED
    BY <1>8, <2>1, <2>2 DEF CloseTimeout, StillHeld, LostBlocks
<1>9. CASE CloseRest
  <2>1. PICK n, p, arg : n = net /\ p = client_pcb /\ arg = net.pcb[client_pcb].arg
    OBVIOUS
  <2>2. p \in Pcbs /\ n \in Nets
    BY <1>1, <1>9, <2>1 DEF CloseRest
  <2>3. [n EXCEPT !.pcb[p].cb = FALSE] =
          Update(n, p, n.pcb[p].st, FALSE, arg, n.active, n.tw)
    BY <2>1 DEF Update, Change
  <2>4. net' = TcpClose(Update(n, p, n.pcb[p].st, FALSE, arg, n.active, n.tw), p)
    BY <1>9, <2>1, <2>3 DEF CloseRest
  <2>5. Keeps(n, net', p)
    BY <2>1, <2>2, <2>4, UnbindKeeps
  <2> QED
    BY <1>9, <2>1, <2>2, <2>5 DEF CloseRest, StillHeld, LostBlocks
<1> QED
  BY <1>4, <1>5, <1>6, <1>7, <1>8, <1>9 DEF Arduino

(* After a reset every pcb is in the pool.                                 *)
LEMMA FreshPool == FreeListEnds(NetInit) /\ FreeSet(NetInit) = Pcbs
<1> DEFINE n == NetInit
           P == [k \in Nat |-> IF k <= NumPcb THEN NumPcb - k ELSE 0]
<1>1. NumPcb \in Nat \ {0} /\ Pcbs \cup {Null} = 0..NumPcb /\ Pcbs = 1..NumPcb /\ Null = 0
  BY ClientAssumption DEF Pcbs, Null
<1>2. n \in Nets
  BY NetInitTyped
<1>3. P \in [Nat -> Pcbs \cup {Null}]
  BY <1>1
<1>4. Follow(n)[0] = 0 /\ \A x \in 1..NumPcb : Follow(n)[x] = x - 1
  BY <1>1 DEF Follow, NetInit
<1>5. n.head = NumPcb
  BY DEF NetInit
<1> HIDE DEF n
<1>6. \A k \in Nat : P[k + 1] = Follow(n)[P[k]]
  BY <1>1, <1>4
<1>7. P[0] = NumPcb /\ P[NumPcb] = Null
  BY <1>1
<1>8. IsPath(n, P)
  <2> HIDE DEF P
  <2> QED
    BY <1>3, <1>5, <1>6, <1>7 DEF IsPath, Iterates
<1>9. FreeListEnds(n) /\ FreeSet(n) = {P[k] : k \in Nat} \ {Null}
  BY <1>1, <1>2, <1>7, <1>8, PoolIs
<1>10. {P[k] : k \in Nat} \ {Null} = Pcbs
  <2>1. \A p \in Pcbs : p = P[NumPcb - p] /\ NumPcb - p \in Nat
    BY <1>1
  <2> HIDE DEF P
  <2> QED
    BY <1>1, <1>3, <2>1
<1> QED
  BY <1>9, <1>10 DEF n

(* A pcb of the present connection that lwIP does not know was never       *)
(* connected.                                                              *)
Unused ==
  FreeListEnds(net) /\ client_pcb \in Pcbs \ Known(net) =>
    net.pcb[client_pcb].st = "CLOSED" /\ ~net.pcb[client_pcb].cb

(* What LeakCauses says of a step.                                         *)
LeakStep ==
  LET connects == ard = "idle" /\ (ard' = "resolve" \/ bufRetry' = bufRetry + 1)
  IN  /\ LostBlocks' \ LostBlocks # {} =>
           connects /\ client_es # Null /\ ~Busy
      /\ FreeListEnds(net)' /\ LostPcbs' \ LostPcbs # {} =>
           /\ connects /\ client_pcb # Null
           /\ net.pcb[client_pcb].st = "CLOSED" /\ ~net.pcb[client_pcb].cb

LEMMA HeldLoses ==
  ASSUME TypeOK, Unused, StillHeld
  PROVE  Unused' /\ LeakStep
<1>1. PICK p \in Pcbs : Keeps(net, net', p)
  BY DEF StillHeld
<1>2. client_pcb' = client_pcb /\ LostBlocks' \subseteq LostBlocks
  BY DEF StillHeld
<1>3. FreeListEnds(net)' => FreeListEnds(net) /\ Known(net) \subseteq Known(net)'
  BY <1>1 DEF Keeps
<1>4. FreeListEnds(net)' => LostPcbs' \subseteq LostPcbs
  BY <1>2, <1>3 DEF LostPcbs, Known
<1>5. Unused'
  <2> SUFFICES ASSUME FreeListEnds(net)', client_pcb \in Pcbs \ Known(net)'
               PROVE  net'.pcb[client_pcb].st = "CLOSED" /\ ~net'.pcb[client_pcb].cb
    BY <1>2 DEF Unused
  <2>1. net.pcb[client_pcb].st = "CLOSED" /\ ~net.pcb[client_pcb].cb
    BY <1>3 DEF Unused
  <2> QED
    BY <1>1, <2>1 DEF Keeps
<1> QED
  BY <1>2, <1>4, <1>5 DEF LeakStep

LEMMA RebootLoses ==
  ASSUME NEW why, Reboot(why)
  PROVE  Unused' /\ LeakStep
<1>1. /\ net' = NetInit /\ heap' = {} /\ client_pcb' = Null
  BY DEF Reboot
<1>2. Null \notin Pcbs
  BY DEF Null, Pcbs
<1>3. LostBlocks' = {}
  BY <1>1 DEF LostBlocks
<1>4. LostPcbs' = {}
  BY <1>1, FreshPool DEF LostPcbs
<1> QED
  BY <1>1, <1>2, <1>3, <1>4 DEF Unused, LeakStep

(* The pcb of the connection that ended, and its block, are overwritten.   *)
LEMMA OpenLoses ==
  ASSUME TypeOK, Owned, Unused, Open
  PROVE  Unused' /\ LeakStep
<1>1. PICK pn \in TcpNew(net) : client_pcb' = pn[1] /\ net' = pn[2]
  BY DEF Open
<1>2. net \in Nets /\ client_pcb \in Pcbs \cup {Null} /\ Null \notin Pcbs
      /\ Null \notin Blocks /\ heap \subseteq Blocks
  BY DEF TypeOK, Null, Pcbs, Blocks
<1>3. /\ FreeListEnds(net') <=> FreeListEnds(net)
      /\ FreeListEnds(net) => Known(net) \subseteq Known(net') \cup {client_pcb'}
  BY <1>1, <1>2, TcpNewKeeps DEF Known
<1>4. Unused'
  <2>1. net'.pcb[client_pcb'] = FreshPcb
    BY <1>1, <1>2, TcpNewIs
  <2> QED
    BY <2>1 DEF Unused, FreshPcb
<1>5. ard = "idle" /\ ard' = "resolve" /\ ~Busy
  BY DEF Open, Idle
<1>6. LostBlocks' \ LostBlocks # {} => client_es # Null
  BY <1>2 DEF Open, LostBlocks
<1>7. FreeListEnds(net)' /\ LostPcbs' \ LostPcbs # {} =>
        FreeListEnds(net) /\ client_pcb \in Pcbs \ Known(net)
  BY <1>3 DEF LostPcbs, Known
<1>8. FreeListEnds(net)' /\ LostPcbs' \ LostPcbs # {} =>
        /\ client_pcb # Null
        /\ net.pcb[client_pcb].st = "CLOSED" /\ ~net.pcb[client_pcb].cb
  BY <1>2, <1>7 DEF Unused
<1> QED
  BY <1>4, <1>5, <1>6, <1>8 DEF LeakStep

LEMMA OpenNoMemoryLoses ==
  ASSUME TypeOK, Owned, Unused, OpenNoMemory, ~Reboot("BUFALLOCRETRY")
  PROVE  Unused' /\ LeakStep
<1>1. /\ bufRetry' = bufRetry + 1 /\ heap' = heap /\ ard = "idle" /\ ~Busy
      /\ TcpNew(net) = {} => client_pcb' = Null /\ UNCHANGED <<net, client_es>>
      /\ TcpNew(net) # {} => \E pn \in TcpNew(net) :
                               /\ client_pcb' = pn[1] /\ net' = MempFree(pn[2], pn[1])
                               /\ client_es' = Null
  BY DEF OpenNoMemory, Idle
<1>2. net \in Nets /\ client_pcb \in Pcbs \cup {Null} /\ Null \notin Pcbs
      /\ Null \notin Blocks /\ heap \subseteq Blocks
  BY DEF TypeOK, Null, Pcbs, Blocks
<1>3. LostBlocks' \ LostBlocks # {} => client_es # Null
  BY <1>1, <1>2 DEF LostBlocks
<1>4. CASE TcpNew(net) = {}
  <2>1. client_pcb' = Null /\ net' = net
    BY <1>1, <1>4
  <2>2. Unused'
    BY <1>2, <2>1 DEF Unused
  <2>3. FreeListEnds(net)' /\ LostPcbs' \ LostPcbs # {} =>
          FreeListEnds(net) /\ client_pcb \in Pcbs \ Known(net)
    BY <1>2, <2>1 DEF LostPcbs, Known
  <2> QED
    BY <1>1, <1>2, <1>3, <2>2, <2>3 DEF LeakStep, Unused
<1>5. CASE TcpNew(net) # {}
  <2>1. PICK pn \in TcpNew(net) : client_pcb' = pn[1] /\ net' = MempFree(pn[2], pn[1])
    BY <1>1, <1>5
  <2>2. PICK n, p : n = pn[2] /\ p = pn[1]
    OBVIOUS
  <2>3. /\ n \in Nets /\ p \in Pcbs
        /\ FreeListEnds(n) <=> FreeListEnds(net)
        /\ FreeListEnds(net) => Known(net) \subseteq Known(n) \cup {p}
    BY <1>2, <2>2, TcpNewIs, TcpNewKeeps DEF Known
  <2>4. PICK m : m = MempFree(n, p)
    OBVIOUS
  <2>5. Returned(n, m, p) /\ m.active = n.active /\ m.tw = n.tw
    BY <2>3, <2>4, MempFreeIs, MempFreeReturns
  <2>6. net' = m /\ client_pcb' = p
    BY <2>1, <2>2, <2>4
  <2>7. FreeListEnds(m) => FreeListEnds(net) /\ Known(net) \subseteq Known(m) /\ p \in Known(m)
    BY <2>3, <2>5 DEF Known, Returned
  <2>8. Unused'
    BY <2>6, <2>7 DEF Unused
  <2>9. FreeListEnds(net)' /\ LostPcbs' \ LostPcbs # {} =>
          FreeListEnds(net) /\ client_pcb \in Pcbs \ Known(net)
    BY <2>6, <2>7 DEF LostPcbs, Known
  <2> QED
    BY <1>1, <1>2, <1>3, <2>8, <2>9 DEF LeakStep, Unused
<1> QED
  BY <1>4, <1>5

LEMMA LeakNext ==
  ASSUME TypeOK, Owned, Control, Unused, [Next]_vars
  PROVE  Unused' /\ LeakStep
<1>1. CASE UNCHANGED <<net, heap, client_pcb, client_es>>
  BY <1>1, HeldLoses, SameKeeps, SomePcb DEF StillHeld, LostBlocks
<1>2. CASE Open
  BY <1>2, OpenLoses
<1>3. CASE OpenNoMemory
  BY <1>3, OpenNoMemoryLoses, RebootLoses
<1>4. CASE OpenBusy
  BY <1>1, <1>4, RebootLoses DEF OpenBusy, sys
<1>5. CASE Read \/ Disconnect
  BY <1>1, <1>5 DEF Read, Disconnect
<1>6. CASE Arduino
  BY <1>6, ArduinoHeld, HeldLoses, RebootLoses
<1>7. CASE Peer \/ Answers \/ \E p \in Pcbs : Poll(p)
  BY <1>7, StackHeld, HeldLoses DEF Peer, Answers
<1>8. CASE Callback
  BY <1>8, CallbackHeld, HeldLoses
<1>9. CASE UNCHANGED vars
  BY <1>1, <1>9 DEF vars, sys
<1> QED
  BY <1>2, <1>3, <1>4, <1>5, <1>6, <1>7, <1>8, <1>9 DEF Next, Sketch

(* With a patient peer a block or a pcb is lost only by a connect that     *)
(* overwrites the pointers of a connection that is over, or of one whose   *)
(* name was not resolved, as long as the pool is not broken.               *)
THEOREM LeakCausesHolds ==
  ASSUME Patient
  PROVE  Spec => LeakCauses
<1>1. Init => Unused
  BY FreshPool DEF Init, Unused, Null, Pcbs
<1>2. TypeOK /\ Owned /\ Control /\ Unused /\ [Next]_vars => Unused'
  BY LeakNext
<1>3. TypeOK /\ Owned /\ Control /\ Unused /\ [Next]_vars =>
        [LET connects == ard = "idle" /\ (ard' = "resolve" \/ bufRetry' = bufRetry + 1)
         IN  /\ LostBlocks' \ LostBlocks # {} =>
                  connects /\ client_es # Null /\ ~Busy
             /\ FreeListEnds(net)' /\ LostPcbs' \ LostPcbs # {} =>
                  /\ connects /\ client_pcb # Null
                  /\ net.pcb[client_pcb].st = "CLOSED" /\ ~net.pcb[client_pcb].cb]_vars
  BY LeakNext DEF LeakStep
<1>4. Spec => [](TypeOK /\ Owned /\ Control)
  BY ControlHolds
<1> QED
  BY <1>1, <1>2, <1>3, <1>4, PTL DEF Spec, LeakCauses

-----------------------------------------------------------------------------
(* The pool.                                                               *)

(* A peer that answers, and never closes, resets or stops.                 *)
Helpful == Env \subseteq {"noroute", "dns"}

(* The lists of lwIP share no pcb; a pcb on one of them is in a state that *)
(* list has.                                                               *)
Listed ==
  /\ PoolIntact
  /\ net.active \cap net.tw = {}
  /\ \A p \in net.active :
       /\ net.pcb[p].st \in {"SYN_SENT", "ESTABLISHED", "FIN_WAIT"}
       /\ net.pcb[p].st # "FIN_WAIT" => ~net.pcb[p].rxc
  /\ \A p \in net.tw : net.pcb[p].st = "TIME_WAIT"

(* A pcb that was taken from the pool and not connected yet.               *)
Loose(p) == p \notin Known(net) /\ net.pcb[p].st = "CLOSED"

(* What the arduino thread can still close: where it is about to, the pcb  *)
(* is in its hand only.                                                    *)
InHand ==
  /\ ard \in {"resolve", "connFail", "closing"} => Loose(client_pcb)
  /\ ard = "resolve" => ~net.pcb[client_pcb].rxc
  /\ ard = "connWait" =>
       /\ client_pcb \in net.active
       /\ net.pcb[client_pcb].st \in {"SYN_SENT", "ESTABLISHED"}
  /\ ard \in {"idle", "freeTake", "closeTake", "closeWait"}
       /\ client_es # Null /\ client_pcb # Null =>
       \/ Loose(client_pcb)
       \/ client_pcb \in Served
       \/ ard = "closeWait" /\ State = "CLOSED"

(* No connection is closing but by the arduino thread.                     *)
NoneClosing ==
  /\ mutex = "none" /\ core.pc # "fin"
  /\ \A b \in Blocks \ heap : es[b].state \in {"NOT_CONNECTED", "CLOSED"}
  /\ ard = "resolve" => State \in {"NOT_CONNECTED", "CLOSED"}
  /\ ard \in {"connFail", "connFree"} => State = "NOT_CONNECTED"
  /\ client_es # Null /\ State = "CLOSING" => ard \in {"closeWait", "closing"}

PoolInv == Listed /\ InHand /\ NoneClosing

LEMMA RebootPool ==
  ASSUME NEW why, Reboot(why)
  PROVE  PoolInv'
<1>1. net'.active = {} /\ net'.tw = {} /\ FreeListEnds(net')
  BY FreshPool DEF Reboot, NetInit
<1>2. Listed'
  BY <1>1 DEF Listed, PoolIntact
<1>3. InHand'
  BY DEF Reboot, InHand
<1>4. NoneClosing'
  BY DEF Reboot, NoneClosing, EsInit, CoreIdle
<1> QED
  BY <1>2, <1>3, <1>4 DEF PoolInv

(* lwIP's part does not change.                                            *)
LEMMA SameListed ==
  ASSUME Listed, net' = net
  PROVE  Listed'
  BY DEF Listed, PoolIntact

LEMMA SameSys ==
  ASSUME PoolInv, UNCHANGED sys
  PROVE  PoolInv'
<1>1. Listed'
  BY SameListed DEF PoolInv, sys
<1>2. InHand'
  BY DEF PoolInv, sys, InHand, Loose, Served, State
<1>3. NoneClosing'
  BY DEF PoolInv, sys, NoneClosing, State
<1> QED
  BY <1>1, <1>2, <1>3 DEF PoolInv

(* The blocks after one step: the one of the present connection is in      *)
(* state st, or was freed in it.                                           *)
LEMMA BlocksWritten ==
  ASSUME TypeOK, Owned, NoneClosing, client_es # Null, NEW st, NEW rx,
         \/ es' = [es EXCEPT ![client_es].state = st]
         \/ es' = [es EXCEPT ![client_es] = [state |-> st, rx |-> rx]],
         UNCHANGED <<client_es, heap>>
  PROVE  /\ State' = st
         /\ \A b \in Blocks \ heap' : es'[b].state \in {"NOT_CONNECTED", "CLOSED"}
<1>1. State' = st
  BY Written
<1>2. \A b \in Blocks \ heap : es'[b] = es[b]
  BY ActiveTyped DEF Owned
<1> QED
  BY <1>1, <1>2 DEF NoneClosing

LEMMA BlockFreed ==
  ASSUME TypeOK, Owned, NoneClosing, client_es # Null, FreeEs,
         State \in {"NOT_CONNECTED", "CLOSED"}
  PROVE  /\ client_es' = Null
         /\ \A b \in Blocks \ heap' : es'[b].state \in {"NOT_CONNECTED", "CLOSED"}
<1>1. client_es \in Blocks /\ es \in [Blocks -> Structs] /\ es[client_es] \in Structs
  BY ActiveTyped
<1>2. PICK rx : es' = [es EXCEPT ![client_es].rx = rx]
  <2>1. es' = [es EXCEPT ![client_es].rx = IF es[client_es].rx = "none"
                                           THEN es[client_es].rx ELSE "old"]
    BY DEF FreeEs
  <2> QED
    BY <2>1
<1>3. \A b \in Blocks : es'[b].state = es[b].state
  BY <1>1, <1>2 DEF Structs
<1> QED
  BY <1>3 DEF FreeEs, State, NoneClosing

-----------------------------------------------------------------------------
(* The sketch.                                                             *)

LEMMA SketchPool ==
  ASSUME TypeOK, Owned, Control, PoolInv, Sketch
  PROVE  PoolInv'
<1> USE DEF PoolInv
<1>1. net \in Nets /\ net.active \subseteq Pcbs /\ net.tw \subseteq Pcbs /\ Null \notin Pcbs
  BY FieldTypes DEF TypeOK, Null, Pcbs
<1>2. ASSUME NEW pn \in TcpNew(net)
      PROVE  /\ pn[1] \in Pcbs /\ pn[2] \in Nets /\ pn[2].pcb[pn[1]] = FreshPcb
             /\ FreeListEnds(pn[2]) /\ pn[1] \notin Known(pn[2])
             /\ FreeSet(pn[2]) \cap (pn[2].active \cup pn[2].tw) = {}
             /\ pn[2].active \subseteq net.active /\ pn[2].tw \subseteq net.tw
             /\ \A q \in pn[2].active \cup pn[2].tw : pn[2].pcb[q] = net.pcb[q]
  <2>1. PICK n, p : n = pn[2] /\ p = pn[1]
    OBVIOUS
  <2>2. p \in Pcbs /\ n \in Nets /\ n.pcb[p] = FreshPcb /\ Others(net, n, p)
    BY <1>1, <2>1, TcpNewIs
  <2>3. /\ FreeListEnds(n) <=> FreeListEnds(net)
        /\ FreeListEnds(net) => FreeSet(n) = FreeSet(net) \ {p}
        /\ n.active \subseteq net.active
        /\ n.tw \subseteq net.tw
    BY <1>1, <2>1, TcpNewKeeps
  <2>4. p \notin n.active \cup n.tw
    <3>1. /\ FreeListEnds(net) /\ FreeSet(net) \cap (net.active \cup net.tw) = {}
          /\ net.active \cap net.tw = {}
          /\ (\A q \in net.active : net.pcb[q].st # "TIME_WAIT")
          /\ (\A q \in net.tw : net.pcb[q].st = "TIME_WAIT")
      BY DEF Listed, PoolIntact
    <3> QED
      BY <1>1, <2>1, <3>1, TcpNewKeeps
  <2>5. FreeListEnds(net) /\ FreeSet(net) \cap (net.active \cup net.tw) = {}
    BY DEF Listed, PoolIntact
  <2>6. \A q \in n.active \cup n.tw : n.pcb[q] = net.pcb[q]
    BY <1>1, <2>2, <2>3, <2>4 DEF Others
  <2> QED
    BY <2>1, <2>2, <2>3, <2>4, <2>5, <2>6 DEF Known
<1>3. CASE Open
  <2>1. PICK pn \in TcpNew(net) : client_pcb' = pn[1] /\ net' = pn[2]
    BY <1>3 DEF Open
  <2>2. PICK p : p = pn[1] /\ client_pcb' = p
    BY <2>1
  <2>3. /\ net'.pcb[p] = FreshPcb /\ FreeListEnds(net') /\ p \notin Known(net')
        /\ FreeSet(net') \cap (net'.active \cup net'.tw) = {}
        /\ net'.active \subseteq net.active /\ net'.tw \subseteq net.tw
        /\ \A q \in net'.active \cup net'.tw : net'.pcb[q] = net.pcb[q]
    BY <1>2, <2>1, <2>2
  <2>4. Listed'
    BY <2>3 DEF Listed, PoolIntact
  <2>5. ard' = "resolve" /\ UNCHANGED <<mutex, core>>
    BY <1>3 DEF Open
  <2>6. InHand'
    BY <2>2, <2>3, <2>5 DEF InHand, Loose, FreshPcb
  <2>7. /\ State' \in {"NOT_CONNECTED", "CLOSED"}
        /\ \A b \in Blocks \ heap' : es'[b].state \in {"NOT_CONNECTED", "CLOSED"}
    <3>1. PICK b \in Blocks \ heap :
            client_es' = b /\ heap' = heap \cup {b} /\ es' \in {es, [es EXCEPT ![b] = EsInit[b]]}
      BY <1>3 DEF Open
    <3>2. \A c \in Blocks : es'[c] = es[c] \/ es'[c].state = "NOT_CONNECTED"
      BY <3>1, ActiveTyped DEF EsInit
    <3> QED
      BY <3>1, <3>2 DEF NoneClosing, State
  <2>8. NoneClosing'
    BY <2>5, <2>7 DEF NoneClosing
  <2> QED
    BY <2>4, <2>6, <2>8
<1>4. CASE OpenBusy
  BY <1>4, RebootPool, SameSys DEF OpenBusy
<1>5. CASE OpenNoMemory /\ ~Reboot("BUFALLOCRETRY")
  <2>1. UNCHANGED <<es, heap, mutex, core, ard>> /\ ard = "idle"
    BY <1>5 DEF OpenNoMemory, Idle
  <2>2. CASE TcpNew(net) = {}
    <3>1. client_pcb' = Null /\ net' = net /\ client_es' = client_es
      BY <1>5, <2>2 DEF OpenNoMemory
    <3>2. Listed' /\ InHand' /\ NoneClosing'
      BY <2>1, <3>1, SameListed DEF InHand, NoneClosing, State
    <3> QED
      BY <3>2
  <2>3. CASE TcpNew(net) # {}
    <3>1. PICK pn \in TcpNew(net) : net' = MempFree(pn[2], pn[1]) /\ client_es' = Null
      BY <1>5, <2>3 DEF OpenNoMemory
    <3>2. PICK n, p : n = pn[2] /\ p = pn[1]
      OBVIOUS
    <3>3. /\ p \in Pcbs /\ n \in Nets /\ FreeListEnds(n) /\ p \notin Known(n)
          /\ FreeSet(n) \cap (n.active \cup n.tw) = {}
          /\ n.active \subseteq net.active /\ n.tw \subseteq net.tw
          /\ \A q \in n.active \cup n.tw : n.pcb[q] = net.pcb[q]
      BY <1>2, <3>2
    <3>4. PICK m : m = MempFree(n, p)
      OBVIOUS
    <3>5. /\ Returned(n, m, p) /\ m.active = n.active /\ m.tw = n.tw /\ m.pcb = n.pcb
      BY <3>3, <3>4, MempFreeIs, MempFreeReturns
    <3>6. FreeListEnds(m) /\ FreeSet(m) \cap (m.active \cup m.tw) = {}
      BY <3>3, <3>5 DEF Returned, Known
    <3>7. net' = m
      BY <3>1, <3>2, <3>4
    <3>8. Listed'
      BY <3>3, <3>5, <3>6, <3>7 DEF Listed, PoolIntact
    <3>9. InHand' /\ NoneClosing'
      BY <2>1, <3>1 DEF InHand, NoneClosing
    <3> QED
      BY <3>8, <3>9
  <2> QED
    BY <2>2, <2>3
<1>6. CASE Read
  <2>1. /\ net' = net /\ client_es # Null /\ ard = "idle"
        /\ UNCHANGED <<heap, client_pcb, client_es, mutex, core, ard>>
        /\ es' = [es EXCEPT ![client_es] = [state |-> "CONNECTED", rx |-> "none"]]
    BY <1>6 DEF Read, Idle
  <2>2. /\ State' = "CONNECTED"
        /\ \A b \in Blocks \ heap' : es'[b].state \in {"NOT_CONNECTED", "CLOSED"}
    BY <2>1, BlocksWritten
  <2>3. Listed' /\ InHand'
    BY <2>1, SameListed DEF InHand, Loose, Served
  <2>4. NoneClosing'
    BY <2>1, <2>2 DEF NoneClosing
  <2> QED
    BY <2>3, <2>4
<1>7. CASE Disconnect
  <2>1. /\ net' = net /\ client_es # Null /\ ard = "idle" /\ ard' \in {"freeTake", "closeTake"}
        /\ UNCHANGED <<heap, es, client_pcb, client_es, mutex, core>>
    BY <1>7 DEF Disconnect, Idle
  <2>2. Listed' /\ InHand' /\ NoneClosing'
    BY <2>1, SameListed DEF InHand, Loose, Served, NoneClosing, State
  <2> QED
    BY <2>2
<1> QED
  BY <1>3, <1>4, <1>5, <1>6, <1>7, RebootPool DEF Sketch

-----------------------------------------------------------------------------
(* The arduino thread.                                                     *)

(* Only its place and the present block change.                            *)
LEMMA PlaceMoves ==
  ASSUME TypeOK, PoolInv, net' = net, UNCHANGED <<client_pcb, mutex, core>>,
         \/ ard' \in {"connFail", "connFree"} /\ State' = "NOT_CONNECTED"
              /\ ard \in {"resolve", "connFail"}
         \/ ard' = "idle" /\ client_es' = Null
         \/ /\ ard' \in {"idle", "closeTake", "closeWait"}
            /\ UNCHANGED client_es
            /\ State' = "CLOSING" => ard' = "closeWait"
            /\ Loose(client_pcb) \/ client_pcb \in Served \/ client_pcb = Null,
         \A b \in Blocks \ heap' : es'[b].state \in {"NOT_CONNECTED", "CLOSED"}
  PROVE  PoolInv'
<1>1. Listed'
  BY SameListed DEF PoolInv
<1>2. InHand'
  BY DEF PoolInv, InHand, Loose, Served
<1>3. NoneClosing'
  BY DEF PoolInv, NoneClosing
<1> QED
  BY <1>1, <1>2, <1>3 DEF PoolInv

(* The pcb in hand goes back to the pool.                                  *)
LEMMA LooseReturned ==
  ASSUME TypeOK, PoolInv, Loose(client_pcb), client_pcb \in Pcbs,
         Returned(net, net', client_pcb),
         net'.active = net.active, net'.tw = net.tw,
         \A q \in Pcbs \ {client_pcb} : net'.pcb[q] = net.pcb[q]
  PROVE  Listed'
<1>1. net.active \subseteq Pcbs /\ net.tw \subseteq Pcbs
  BY FieldTypes DEF TypeOK
<1>2. FreeListEnds(net') /\ FreeSet(net') \cap (net'.active \cup net'.tw) = {}
  BY DEF PoolInv, Listed, PoolIntact, Loose, Known, Returned
<1>3. \A q \in net.active \cup net.tw : net'.pcb[q] = net.pcb[q]
  BY <1>1 DEF Loose, Known
<1> QED
  BY <1>2, <1>3 DEF PoolInv, Listed, PoolIntact

LEMMA ConnectPool ==
  ASSUME TypeOK, Owned, PoolInv, Connect
  PROVE  PoolInv'
<1> USE DEF PoolInv
<1>1. /\ client_pcb \in Pcbs /\ client_es # Null /\ ard = "resolve" /\ ard' = "connWait"
      /\ UNCHANGED <<heap, client_pcb, client_es, mutex, core>>
      /\ es' = [es EXCEPT ![client_es].state = "NOT_CONNECTED"]
  BY DEF Connect, Owned, TypeOK
<1>2. Becomes(net, net', client_pcb, "SYN_SENT", net.pcb[client_pcb].cb,
              net.pcb[client_pcb].arg, net.active \cup {client_pcb}, net.tw)
  BY <1>1, ConnectNet
<1>3. Loose(client_pcb) /\ ~net.pcb[client_pcb].rxc
  BY <1>1 DEF InHand
<1>4. FreeSet(net') = FreeSet(net) /\ FreeListEnds(net') = FreeListEnds(net)
  BY <1>2, SamePool DEF Becomes
<1>5. net.active \subseteq Pcbs /\ net.tw \subseteq Pcbs
  BY FieldTypes DEF TypeOK
<1>6. PoolIntact' /\ net'.active \cap net'.tw = {}
  BY <1>2, <1>3, <1>4 DEF Listed, PoolIntact, Becomes, Loose, Known
<1>7. Listed'
  BY <1>1, <1>2, <1>3, <1>5, <1>6 DEF Listed, Becomes, Loose, Known
<1>8. InHand'
  BY <1>1, <1>2 DEF InHand, Becomes
<1>9. /\ State' = "NOT_CONNECTED"
      /\ \A b \in Blocks \ heap' : es'[b].state \in {"NOT_CONNECTED", "CLOSED"}
  BY <1>1, BlocksWritten
<1>10. NoneClosing'
  BY <1>1, <1>9 DEF NoneClosing
<1> QED
  BY <1>7, <1>8, <1>10

(* With this peer a connect that was sent is answered.                     *)
LEMMA NoConnFails ==
  ASSUME TypeOK, Owned, Control, PoolInv
  PROVE  ~ConnFails
<1> SUFFICES ASSUME ConnFails PROVE FALSE
  OBVIOUS
<1>1. /\ ard = "connWait" /\ mutex = "none" /\ client_pcb \in net.active
      /\ net.pcb[client_pcb].st \in {"SYN_SENT", "ESTABLISHED"}
  BY DEF ConnFails, PoolInv, InHand, NoneClosing
<1>2. ~net.pcb[client_pcb].rxc /\ client_pcb \in Pcbs
  BY <1>1, ActiveTyped DEF PoolInv, Listed
<1>3. State \in {"NOT_CONNECTED", "CONNECTED"}
  <2>1. CASE net.pcb[client_pcb].st = "SYN_SENT"
    BY <1>1, <1>2, <2>1 DEF Control, Opening, Opens
  <2>2. CASE net.pcb[client_pcb].st = "ESTABLISHED" /\ net.pcb[client_pcb].cb
    BY <1>1, <2>2 DEF Control, Quiet, Served
  <2>3. CASE net.pcb[client_pcb].st = "ESTABLISHED" /\ ~net.pcb[client_pcb].cb
    BY <1>1, <1>2, <2>3 DEF Control, Receiving, Pending
  <2> QED
    BY <1>1, <2>1, <2>2, <2>3
<1> QED
  BY <1>1, <1>3 DEF ConnFails

LEMMA ConnOkPool ==
  ASSUME TypeOK, Owned, Control, PoolInv, ConnOk
  PROVE  PoolInv'
<1>1. /\ ard = "connWait" /\ State = "CONNECTED" /\ ard' = "idle"
      /\ UNCHANGED <<net, es, heap, client_pcb, client_es, mutex, core>>
  BY DEF ConnOk
<1>2. /\ client_pcb \in net.active /\ client_pcb \in Pcbs /\ ~net.pcb[client_pcb].rxc
      /\ net.pcb[client_pcb].st \in {"SYN_SENT", "ESTABLISHED"}
  BY <1>1, ActiveTyped DEF PoolInv, InHand, Listed
<1>3. net.pcb[client_pcb].st # "SYN_SENT"
  BY <1>1, <1>2 DEF Control, Opening, Opens
<1>4. client_pcb \in Served
  BY <1>1, <1>2, <1>3 DEF Control, Receiving, Pending, Served, PoolInv, NoneClosing
<1>5. \A b \in Blocks \ heap' : es'[b].state \in {"NOT_CONNECTED", "CLOSED"}
  BY <1>1 DEF PoolInv, NoneClosing
<1>6. State' = State
  BY <1>1 DEF State
<1> QED
  BY <1>1, <1>4, <1>5, <1>6, PlaceMoves

(* When the thirty seconds are over although nothing of the connection is  *)
(* left that poll could serve, the pcb was never connected.                *)
LEMMA CloseTimeoutPool ==
  ASSUME TypeOK, Owned, Control, Helpful, PoolInv, CloseTimeout
  PROVE  PoolInv'
<1> USE DEF PoolInv
<1>1. /\ client_pcb \in Pcbs /\ client_es # Null /\ client_pcb # Null /\ ard = "closeWait"
      /\ ard' = "closing" /\ State # "CLOSED" /\ ~PollServes
      /\ UNCHANGED <<es, heap, client_pcb, client_es, mutex, core>>
  BY DEF CloseTimeout, Owned, TypeOK, Helpful
<1>2. Becomes(net, net', client_pcb, net.pcb[client_pcb].st, net.pcb[client_pcb].cb,
              Null, net.active, net.tw)
  BY CloseTimeoutNet
<1>3. client_pcb \notin Served
  BY <1>1 DEF PollServes, Control, Binding, Served, NoneClosing
<1>4. Loose(client_pcb)
  BY <1>1, <1>3 DEF InHand
<1>5. FreeSet(net') = FreeSet(net) /\ FreeListEnds(net') = FreeListEnds(net)
  BY <1>2, SamePool DEF Becomes
<1>6. net.active \subseteq Pcbs /\ net.tw \subseteq Pcbs
  BY FieldTypes DEF TypeOK
<1>7. \A q \in net.active \cup net.tw : net'.pcb[q] = net.pcb[q]
  BY <1>2, <1>4, <1>6 DEF Becomes, Loose, Known
<1>8. Listed'
  BY <1>2, <1>5, <1>7 DEF Listed, PoolIntact, Becomes
<1>9. InHand'
  BY <1>1, <1>2, <1>4, <1>5 DEF InHand, Becomes, Loose, Known
<1>10. NoneClosing'
  BY <1>1 DEF NoneClosing, State
<1> QED
  BY <1>8, <1>9, <1>10

LEMMA CloseRestPool ==
  ASSUME TypeOK, Owned, PoolInv, CloseRest
  PROVE  PoolInv'
<1>1. /\ client_pcb \in Pcbs /\ client_es # Null /\ ard = "closing" /\ ard' = "closeWait"
      /\ UNCHANGED <<heap, client_pcb, client_es, mutex, core>>
      /\ es' = [es EXCEPT ![client_es].state = "CLOSED"]
  BY DEF CloseRest, Owned, TypeOK
<1>2. Loose(client_pcb)
  BY <1>1 DEF PoolInv, InHand
<1>3. PICK n, p, arg : n = net /\ p = client_pcb /\ arg = net.pcb[client_pcb].arg
  OBVIOUS
<1>4. n \in Nets /\ n.active \in SUBSET Pcbs /\ n.tw \in SUBSET Pcbs /\ p \in Pcbs
  BY <1>1, <1>3, FieldTypes DEF TypeOK
<1>5. PICK m : m = Update(n, p, n.pcb[p].st, FALSE, arg, n.active, n.tw)
  OBVIOUS
<1>6. Becomes(n, m, p, n.pcb[p].st, FALSE, arg, n.active, n.tw)
  BY <1>3, <1>4, <1>5, UpdateIs
<1>7. [n EXCEPT !.pcb[p].cb = FALSE] = m
  BY <1>3, <1>5 DEF Update, Change
<1>8. net' = TcpClose(m, p)
  BY <1>3, <1>7 DEF CloseRest
<1>9. /\ m \in Nets /\ m.pcb[p].st = "CLOSED" /\ m.active = n.active /\ m.tw = n.tw
      /\ FreeSet(m) = FreeSet(n) /\ FreeListEnds(m) = FreeListEnds(n)
      /\ \A q \in Pcbs \ {p} : m.pcb[q] = n.pcb[q]
  BY <1>2, <1>3, <1>4, <1>6, SamePool DEF Becomes, Loose
<1>10. /\ Returned(m, net', p) /\ net'.active = n.active \ {p} /\ net'.tw = n.tw
       /\ \A q \in Pcbs \ {p} : net'.pcb[q] = m.pcb[q]
  BY <1>4, <1>8, <1>9, CloseReturns, TcpCloseIs DEF Fewer, Others
<1>11. Listed'
  <2>1. Returned(n, net', p)
    BY <1>9, <1>10 DEF Returned
  <2>2. net'.active = n.active /\ net'.tw = n.tw
    BY <1>2, <1>3, <1>10 DEF Loose, Known
  <2>3. \A q \in Pcbs \ {p} : net'.pcb[q] = n.pcb[q]
    BY <1>9, <1>10
  <2> QED
    BY <1>1, <1>2, <1>3, <2>1, <2>2, <2>3, LooseReturned
<1>12. /\ State' = "CLOSED"
       /\ \A b \in Blocks \ heap' : es'[b].state \in {"NOT_CONNECTED", "CLOSED"}
  BY <1>1, BlocksWritten DEF PoolInv
<1>13. InHand' /\ NoneClosing'
  BY <1>1, <1>12 DEF PoolInv, InHand, NoneClosing
<1> QED
  BY <1>11, <1>13 DEF PoolInv

LEMMA FailClosePool ==
  ASSUME TypeOK, Owned, PoolInv, FailClose
  PROVE  PoolInv'
<1>1. /\ client_pcb \in Pcbs /\ ard = "connFail" /\ ard' = "connFree"
      /\ UNCHANGED <<es, heap, client_pcb, client_es, mutex, core>>
      /\ net' = TcpClose(net, client_pcb) /\ net \in Nets
  BY DEF FailClose, Owned, TypeOK
<1>2. Loose(client_pcb) /\ net.pcb[client_pcb].st = "CLOSED"
  BY <1>1 DEF PoolInv, InHand, Loose
<1>3. /\ Returned(net, net', client_pcb)
      /\ net'.active = net.active \ {client_pcb} /\ net'.tw = net.tw
  BY <1>1, <1>2, CloseReturns
<1>4. \A q \in Pcbs \ {client_pcb} : net'.pcb[q] = net.pcb[q]
  BY <1>1, TcpCloseIs DEF Fewer, Others
<1>5. net'.active = net.active
  BY <1>2, <1>3 DEF Loose, Known
<1>6. Listed'
  BY <1>1, <1>2, <1>3, <1>4, <1>5, LooseReturned
<1>7. InHand' /\ NoneClosing'
  BY <1>1 DEF PoolInv, InHand, NoneClosing, State
<1> QED
  BY <1>6, <1>7 DEF PoolInv

LEMMA ArduinoPool ==
  ASSUME TypeOK, Owned, Control, Helpful, PoolInv, Arduino
  PROVE  PoolInv'
<1>1. \A b \in Blocks \ heap : es[b].state \in {"NOT_CONNECTED", "CLOSED"}
  BY DEF PoolInv, NoneClosing
<1>2. CASE DnsFails
  <2>1. /\ ard = "resolve" /\ ard' = "idle" /\ client_es # Null
        /\ UNCHANGED <<net, es, heap, client_pcb, client_es, mutex, core>>
    BY <1>2 DEF DnsFails, Owned
  <2>2. Loose(client_pcb) /\ State' # "CLOSING"
    BY <2>1 DEF PoolInv, InHand, NoneClosing, State
  <2> QED
    BY <1>1, <2>1, <2>2, PlaceMoves
<1>3. CASE ConnectLoops \/ CloseTimeoutNull
  BY <1>3, SameSys DEF ConnectLoops, CloseTimeoutNull
<1>4. CASE ConnectNoRoute
  <2>1. CASE Reboot("CONNECTRETRY")
    BY <2>1, RebootPool
  <2>2. CASE ~Reboot("CONNECTRETRY")
    <3>1. /\ ard = "resolve" /\ ard' = "connFail" /\ client_es # Null
          /\ es' = [es EXCEPT ![client_es].state = "NOT_CONNECTED"]
          /\ UNCHANGED <<net, heap, client_pcb, client_es, mutex, core>>
      BY <1>4, <2>2 DEF ConnectNoRoute, CountConnect, Owned
    <3>2. /\ State' = "NOT_CONNECTED"
          /\ \A b \in Blocks \ heap' : es'[b].state \in {"NOT_CONNECTED", "CLOSED"}
      BY <3>1, BlocksWritten DEF PoolInv
    <3> QED
      BY <3>1, <3>2, PlaceMoves
  <2> QED
    BY <2>1, <2>2
<1>5. CASE FailFree \/ CloseDone
  <2>1. /\ FreeEs /\ ard' = "idle" /\ client_es # Null
        /\ UNCHANGED <<net, client_pcb, mutex, core>>
        /\ State \in {"NOT_CONNECTED", "CLOSED"}
    BY <1>5 DEF FailFree, CloseDone, Owned, PoolInv, NoneClosing
  <2>2. /\ client_es' = Null
        /\ \A b \in Blocks \ heap' : es'[b].state \in {"NOT_CONNECTED", "CLOSED"}
    BY <2>1, BlockFreed DEF PoolInv
  <2> QED
    BY <2>1, <2>2, PlaceMoves
<1>6. CASE FreeBody
  <2>1. /\ ard = "freeTake" /\ ard' = "closeTake" /\ client_es # Null
        /\ es' = [es EXCEPT ![client_es] = [state |-> "CONNECTED", rx |-> "none"]]
        /\ UNCHANGED <<net, heap, client_pcb, client_es, mutex, core>>
    BY <1>6 DEF FreeBody, Owned
  <2>2. /\ State' = "CONNECTED"
        /\ \A b \in Blocks \ heap' : es'[b].state \in {"NOT_CONNECTED", "CLOSED"}
    BY <2>1, BlocksWritten DEF PoolInv
  <2>3. Loose(client_pcb) \/ client_pcb \in Served \/ client_pcb = Null
    BY <2>1 DEF PoolInv, InHand
  <2> QED
    BY <2>1, <2>2, <2>3, PlaceMoves
<1>7. CASE CloseTake
  <2>1. /\ ard = "closeTake" /\ client_es # Null
        /\ UNCHANGED <<net, client_pcb, core>> /\ State # "CLOSING"
    BY <1>7 DEF CloseTake, Owned, PoolInv, NoneClosing
  <2>2. CASE State = "CLOSED"
    <3>1. FreeEs /\ ard' = "idle" /\ mutex' = mutex
      BY <1>7, <2>2 DEF CloseTake
    <3>2. /\ client_es' = Null
          /\ \A b \in Blocks \ heap' : es'[b].state \in {"NOT_CONNECTED", "CLOSED"}
      BY <2>1, <2>2, <3>1, BlockFreed DEF PoolInv
    <3> QED
      BY <2>1, <3>1, <3>2, PlaceMoves
  <2>3. CASE State # "CLOSED"
    <3>1. /\ es' = [es EXCEPT ![client_es].state = "CLOSING"] /\ ard' = "closeWait"
          /\ UNCHANGED <<heap, client_es, mutex>>
      BY <1>7, <2>1, <2>3 DEF CloseTake
    <3>2. \A b \in Blocks \ heap' : es'[b].state \in {"NOT_CONNECTED", "CLOSED"}
      BY <2>1, <3>1, BlocksWritten DEF PoolInv
    <3>3. Loose(client_pcb) \/ client_pcb \in Served \/ client_pcb = Null
      BY <2>1 DEF PoolInv, InHand
    <3> QED
      BY <2>1, <3>1, <3>2, <3>3, PlaceMoves
  <2> QED
    BY <2>2, <2>3
<1> QED
  BY <1>2, <1>3, <1>4, <1>5, <1>6, <1>7, ConnectPool, NoConnFails, ConnOkPool,
     CloseTimeoutPool, CloseRestPool, FailClosePool DEF Arduino

-----------------------------------------------------------------------------
(* The tcpip thread.                                                       *)

(* A connection that was closed is over: its pcb goes back to the pool.    *)
LEMMA StackReturns ==
  ASSUME TypeOK, Owned, Control, PoolInv, NEW p \in net.active \cup net.tw,
         net.pcb[p].st \in {"FIN_WAIT", "TIME_WAIT"}, Returned(net, net', p),
         net'.active = net.active \ {p}, net'.tw = net.tw \ {p},
         \A q \in Pcbs \ {p} : net'.pcb[q] = net.pcb[q],
         core' = CoreIdle, UNCHANGED <<rest, heap>>
  PROVE  PoolInv'
<1> USE DEF PoolInv, rest
<1>1. net.active \subseteq Pcbs /\ net.tw \subseteq Pcbs /\ p \in Known(net)
  BY FieldTypes DEF TypeOK, Known
<1>2. /\ FreeListEnds(net') /\ FreeSet(net') = FreeSet(net) \cup {p}
      /\ FreeSet(net') \cap (net'.active \cup net'.tw) = {}
  BY DEF Listed, PoolIntact, Returned
<1>3. \A q \in (net.active \cup net.tw) \ {p} : net'.pcb[q] = net.pcb[q]
  BY <1>1
<1>4. Listed'
  BY <1>2, <1>3 DEF Listed, PoolIntact
<1>5. ASSUME client_pcb \in Pcbs, Loose(client_pcb)
      PROVE  Loose(client_pcb)' /\ net'.pcb[client_pcb] = net.pcb[client_pcb]
  BY <1>1, <1>2, <1>5 DEF Loose, Known
<1>6. p \notin Served /\ Served \subseteq Served'
  BY <1>3 DEF Control, Binding, Served
<1>7. client_pcb \in net.active /\ net.pcb[client_pcb].st \in {"SYN_SENT", "ESTABLISHED"} =>
        client_pcb \in net'.active /\ net'.pcb[client_pcb] = net.pcb[client_pcb]
  BY <1>3
<1>8. State' = State
  BY DEF State
<1>9. NoneClosing'
  BY <1>8 DEF NoneClosing, CoreIdle
<1>10. ard \in {"resolve", "connFail", "closing"} => client_pcb \in Pcbs
  BY DEF Owned, TypeOK
<1>11. InHand'
  BY <1>5, <1>6, <1>7, <1>8, <1>10, ActiveTyped DEF InHand
<1> QED
  BY <1>4, <1>9, <1>11

LEMMA SynAckPool ==
  ASSUME TypeOK, Owned, Control, PoolInv, NEW p \in Pcbs, SynAck(p)
  PROVE  PoolInv'
<1> USE DEF PoolInv
<1>1. Becomes(net, net', p, "ESTABLISHED", net.pcb[p].cb, net.pcb[p].arg, net.active,
              net.tw)
  BY SynAckNet
<1>2. /\ p \in net.active /\ net.pcb[p].st = "SYN_SENT" /\ core' = Call("connected", p)
      /\ UNCHANGED <<es, heap, client_pcb, client_es, mutex, ard>>
  BY DEF SynAck, Stack
<1>3. FreeSet(net') = FreeSet(net) /\ FreeListEnds(net') = FreeListEnds(net)
  BY <1>1, SamePool DEF Becomes
<1>4. net.active \subseteq Pcbs /\ net.tw \subseteq Pcbs /\ p \in Known(net) /\ p \notin net.tw
  BY <1>2, FieldTypes DEF TypeOK, Known, Listed
<1>5. Listed'
  BY <1>1, <1>2, <1>3, <1>4 DEF Listed, PoolIntact, Becomes
<1>6. Known(net') = Known(net)
  BY <1>1, <1>3 DEF Known, Becomes
<1>7. ASSUME client_pcb \in Pcbs, Loose(client_pcb)
      PROVE  Loose(client_pcb)' /\ net'.pcb[client_pcb] = net.pcb[client_pcb]
  BY <1>1, <1>2, <1>4, <1>6, <1>7 DEF Loose, Becomes
<1>8. Served \subseteq Served'
  BY <1>1, <1>4 DEF Served, Becomes
<1>9. ard \in {"resolve", "connFail", "closing"} => client_pcb \in Pcbs
  BY DEF Owned, TypeOK
<1>10. State' = State
  BY <1>2 DEF State
<1>11. InHand'
  BY <1>1, <1>2, <1>4, <1>7, <1>8, <1>9, <1>10, ActiveTyped DEF InHand, Becomes
<1>12. NoneClosing'
  BY <1>2, <1>10 DEF NoneClosing, Call
<1> QED
  BY <1>5, <1>11, <1>12

(* The peer closes the connection this side has closed.                    *)
LEMMA FinPool ==
  ASSUME TypeOK, Owned, Control, Helpful, PoolInv, NEW p \in Pcbs, Fin(p)
  PROVE  PoolInv'
<1> USE DEF PoolInv
<1>1. p \in net.active /\ net.pcb[p].st = "FIN_WAIT"
  BY DEF Fin, PeerTalks, Helpful
<1>2. Becomes(net, net', p, "TIME_WAIT", net.pcb[p].cb, net.pcb[p].arg, net.active \ {p},
              net.tw \cup {p})
  BY <1>1, FinWaitNet
<1>3. p \notin Served
  BY <1>1 DEF Control, Binding
<1>4. core' = CoreIdle /\ UNCHANGED <<es, heap, client_pcb, client_es, mutex, ard>>
  BY <1>1, <1>3 DEF Fin, Stack, Served
<1>5. FreeSet(net') = FreeSet(net) /\ FreeListEnds(net') = FreeListEnds(net)
  BY <1>2, SamePool DEF Becomes
<1>6. net.active \subseteq Pcbs /\ net.tw \subseteq Pcbs /\ p \in Known(net)
  BY <1>1, FieldTypes DEF TypeOK, Known
<1>7. Listed'
  BY <1>1, <1>2, <1>5, <1>6 DEF Listed, PoolIntact, Becomes
<1>8. Known(net') = Known(net)
  BY <1>1, <1>2, <1>5 DEF Known, Becomes
<1>9. ASSUME client_pcb \in Pcbs, Loose(client_pcb)
      PROVE  Loose(client_pcb)' /\ net'.pcb[client_pcb] = net.pcb[client_pcb]
  <2>1. client_pcb # p /\ client_pcb \in Pcbs \ {p}
    BY <1>6, <1>9 DEF Loose
  <2>2. net'.pcb[client_pcb] = net.pcb[client_pcb]
    BY <1>2, <2>1 DEF Becomes
  <2> QED
    BY <1>4, <1>8, <1>9, <2>2 DEF Loose
<1>10. Served \subseteq Served'
  BY <1>2, <1>3, <1>6 DEF Served, Becomes
<1>11. ard \in {"resolve", "connFail", "closing"} => client_pcb \in Pcbs
  BY DEF Owned, TypeOK
<1>12. client_pcb \in net.active /\ net.pcb[client_pcb].st \in {"SYN_SENT", "ESTABLISHED"} =>
         client_pcb \in net'.active /\ net'.pcb[client_pcb] = net.pcb[client_pcb]
  BY <1>1, <1>2, <1>6 DEF Becomes
<1>13. State' = State
  BY <1>4 DEF State
<1>14. InHand'
  BY <1>4, <1>9, <1>10, <1>11, <1>12, <1>13, ActiveTyped DEF InHand
<1>15. NoneClosing'
  BY <1>4, <1>13 DEF NoneClosing, CoreIdle
<1> QED
  BY <1>7, <1>14, <1>15

LEMMA StackPool ==
  ASSUME TypeOK, Owned, Control, Helpful, PoolInv, NEW p \in Pcbs,
         \/ Reset(p) \/ Data(p) \/ Fin(p) \/ SynAck(p) \/ GiveUp(p)
         \/ LastAck(p) \/ Poll(p)
  PROVE  PoolInv'
<1>1. /\ \A q \in net.active : net.pcb[q].st \in {"SYN_SENT", "ESTABLISHED", "FIN_WAIT"}
      /\ \A q \in net.active : net.pcb[q].st # "FIN_WAIT" => ~net.pcb[q].rxc
      /\ \A q \in net.tw : net.pcb[q].st = "TIME_WAIT"
      /\ net.active \cap net.tw = {} /\ net \in Nets
  BY DEF PoolInv, Listed, TypeOK
<1>2. ~Reset(p) /\ ~LastAck(p)
  BY <1>1 DEF Reset, LastAck, Helpful
<1>3. CASE GiveUp(p)
  <2>1. /\ p \in net.active \cup net.tw /\ net.pcb[p].st \in {"FIN_WAIT", "TIME_WAIT"}
        /\ net' = Expire(net, p) /\ core' = CoreIdle
        /\ UNCHANGED <<es, heap, client_pcb, client_es, mutex, ard>>
    BY <1>1, <1>3 DEF GiveUp, OnAList, Stack, Helpful
  <2>2. /\ Returned(net, net', p) /\ net'.active = net.active \ {p}
        /\ net'.tw = net.tw \ {p} /\ net'.pcb = net.pcb
    BY <1>1, <2>1, ExpireIs, ExpireReturns
  <2> QED
    BY <2>1, <2>2, StackReturns DEF rest
<1>4. CASE Data(p) /\ net.pcb[p].rxc
  <2>1. /\ p \in net.active /\ net.pcb[p].st = "FIN_WAIT"
        /\ net' = PcbRemove(net, p) /\ core' = CoreIdle
        /\ UNCHANGED <<es, heap, client_pcb, client_es, mutex, ard>>
    BY <1>1, <1>4 DEF Data, PeerTalks, Stack
  <2>2. Returned(net, net', p) /\ net'.active = net.active \ {p} /\ net'.tw = net.tw
    BY <1>1, <2>1, RemoveReturns
  <2>3. Fewer(net, net', p)
    BY <1>1, <2>1, RemoveIs
  <2>4. net.tw \ {p} = net.tw
    BY <1>1, <2>1
  <2> QED
    BY <2>1, <2>2, <2>3, <2>4, StackReturns DEF rest, Fewer, Others
<1>5. CASE (Data(p) /\ ~net.pcb[p].rxc) \/ Poll(p)
  <2>1. /\ net' = net /\ UNCHANGED <<es, heap, client_pcb, client_es, mutex, ard>>
        /\ core'.pc \in {"data", "poll"}
    BY <1>5 DEF Data, Poll, Stack, Call
  <2>2. Listed'
    BY <2>1, SameListed DEF PoolInv
  <2>3. InHand' /\ NoneClosing'
    BY <2>1 DEF PoolInv, InHand, NoneClosing, Loose, Served, State
  <2> QED
    BY <2>2, <2>3 DEF PoolInv
<1> QED
  BY <1>2, <1>3, <1>4, <1>5, FinPool, SynAckPool

-----------------------------------------------------------------------------
(* Callbacks.                                                              *)

LEMMA RunConnectedPool ==
  ASSUME TypeOK, Owned, Control, PoolInv, RunConnected
  PROVE  PoolInv'
<1> USE DEF PoolInv
<1>1. /\ core.p = client_pcb /\ client_pcb \in net.active /\ client_es # Null
      /\ net.pcb[client_pcb].st = "ESTABLISHED" /\ ard = "connWait" /\ client_pcb \in Pcbs
  BY ActiveTyped DEF RunConnected, Running, Control, Pending
<1>2. /\ UNCHANGED <<heap, client_pcb, client_es, mutex, ard>> /\ core' = CoreIdle
      /\ es' = [es EXCEPT ![client_es].state = "CONNECTED"]
  BY DEF RunConnected
<1>3. Becomes(net, net', client_pcb, "ESTABLISHED", TRUE, client_es, net.active, net.tw)
  BY <1>1, RunConnectedNet
<1>4. FreeSet(net') = FreeSet(net) /\ FreeListEnds(net') = FreeListEnds(net)
  BY <1>3, SamePool DEF Becomes
<1>5. net.active \subseteq Pcbs /\ net.tw \subseteq Pcbs /\ client_pcb \notin net.tw
  BY <1>1, FieldTypes DEF TypeOK, Listed
<1>6. Listed'
  BY <1>1, <1>3, <1>4, <1>5 DEF Listed, PoolIntact, Becomes
<1>7. InHand'
  BY <1>1, <1>2, <1>3 DEF InHand, Becomes
<1>8. /\ State' = "CONNECTED"
      /\ \A b \in Blocks \ heap' : es'[b].state \in {"NOT_CONNECTED", "CLOSED"}
  BY <1>1, <1>2, BlocksWritten
<1>9. NoneClosing'
  BY <1>1, <1>2, <1>8 DEF NoneClosing, CoreIdle
<1> QED
  BY <1>6, <1>7, <1>9

(* poll closes a connection the arduino thread waits for.                  *)
LEMMA RunPollPool ==
  ASSUME TypeOK, Owned, Control, PoolInv, RunPoll
  PROVE  PoolInv'
<1> USE DEF PoolInv
<1>1. /\ core.p \in Served /\ core.p = client_pcb /\ client_pcb \in Pcbs
      /\ core.arg = client_es /\ client_es # Null
      /\ net.pcb[client_pcb].st \in {"ESTABLISHED", "CLOSE_WAIT"}
      /\ client_pcb \in net.active /\ ard # "closing"
  BY ActiveTyped DEF RunPoll, Running, Control, Pending, Binding, Quiet, Served
<1>2. /\ UNCHANGED <<heap, client_pcb, client_es, mutex, ard>> /\ core' = CoreIdle
      /\ mutex = "none"
  BY DEF RunPoll, Running
<1>3. net.pcb[client_pcb].st = "ESTABLISHED"
  BY <1>1 DEF Listed
<1>4. CASE State # "CLOSING"
  <2>1. UNCHANGED <<net, es>>
    BY <1>1, <1>4 DEF RunPoll, State
  <2>2. Listed'
    BY <2>1, SameListed
  <2>3. InHand' /\ NoneClosing'
    BY <1>2, <2>1 DEF InHand, NoneClosing, Loose, Served, State, CoreIdle
  <2> QED
    BY <2>2, <2>3
<1>5. CASE State = "CLOSING"
  <2>1. ard = "closeWait"
    BY <1>1, <1>5 DEF NoneClosing
  <2>2. ConnectionClose(client_pcb, client_es)
    BY <1>1, <1>5 DEF RunPoll, State
  <2>3. PICK n, p : n = net /\ p = client_pcb
    OBVIOUS
  <2>4. n \in Nets /\ n.active \in SUBSET Pcbs /\ n.tw \in SUBSET Pcbs /\ p \in Pcbs
    BY <1>1, <2>3, FieldTypes DEF TypeOK
  <2>5. PICK m : m = Update(n, p, n.pcb[p].st, FALSE, Null, n.active, n.tw)
    OBVIOUS
  <2>6. Becomes(n, m, p, n.pcb[p].st, FALSE, Null, n.active, n.tw)
    BY <2>4, <2>5, UpdateIs
  <2>7. [n EXCEPT !.pcb[p].cb = FALSE, !.pcb[p].arg = Null] = m
    BY <2>5 DEF Update, Change
  <2>8. net' = TcpClose(m, p)
    BY <2>2, <2>3, <2>7 DEF ConnectionClose
  <2>9. /\ m \in Nets /\ m.pcb[p].st = "ESTABLISHED" /\ m.active = n.active /\ m.tw = n.tw
        /\ FreeSet(m) = FreeSet(n) /\ FreeListEnds(m) = FreeListEnds(n)
        /\ \A q \in Pcbs \ {p} : m.pcb[q] = n.pcb[q]
    BY <1>3, <2>3, <2>4, <2>6, SamePool DEF Becomes
  <2>10. /\ SameLists(m, net') /\ net'.pcb[p].st = "FIN_WAIT"
         /\ \A q \in Pcbs \ {p} : net'.pcb[q] = m.pcb[q]
    BY <2>4, <2>8, <2>9, CloseReturns, TcpCloseIs DEF Fewer, Others
  <2>11. /\ FreeSet(net') = FreeSet(net) /\ FreeListEnds(net')
         /\ net'.active = net.active /\ net'.tw = net.tw
    BY <2>3, <2>9, <2>10 DEF SameLists, Listed, PoolIntact
  <2>12. /\ \A q \in net.active \cup net.tw : q = client_pcb \/ net'.pcb[q] = net.pcb[q]
         /\ net'.pcb[client_pcb].st = "FIN_WAIT" /\ client_pcb \notin net.tw
    BY <1>1, <2>3, <2>4, <2>9, <2>10 DEF Listed
  <2>13. Listed'
    BY <2>11, <2>12 DEF Listed, PoolIntact
  <2>14. /\ State' = "CLOSED"
         /\ \A b \in Blocks \ heap' : es'[b].state \in {"NOT_CONNECTED", "CLOSED"}
    BY <1>1, <1>2, <2>2, BlocksWritten DEF ConnectionClose
  <2>15. InHand' /\ NoneClosing'
    BY <1>2, <2>1, <2>14 DEF InHand, NoneClosing, CoreIdle
  <2> QED
    BY <2>13, <2>15
<1> QED
  BY <1>4, <1>5

LEMMA CallbackPool ==
  ASSUME TypeOK, Owned, Control, PoolInv, Callback
  PROVE  PoolInv'
<1>1. CASE RunData
  <2>1. /\ core.p \in Served /\ core.p = client_pcb /\ core.arg = client_es
        /\ client_es \in Blocks /\ client_es \in heap
        /\ ard \notin {"resolve", "connFail", "connFree", "closing", "connWait"}
        /\ UNCHANGED <<net, heap, client_pcb, client_es, mutex, ard>> /\ core' = CoreIdle
    BY <1>1, ActiveTyped DEF RunData, Running, Control, Pending, Binding, Quiet, Dangling, Owned
  <2>2. PICK rx : es' = es \/ es' = [[es EXCEPT ![client_es].rx = rx]
                                        EXCEPT ![client_es].state = "RECEIVED"]
    BY <1>1, <2>1 DEF RunData
  <2>3. es \in [Blocks -> Structs] /\ es[client_es] \in Structs
    BY <2>1, ActiveTyped
  <2>4. State' = State \/ State' = "RECEIVED"
    BY <2>1, <2>2, <2>3 DEF State, Structs
  <2>5. \A b \in Blocks \ {client_es} : es'[b] = es[b]
    BY <2>2, <2>3
  <2>6. Listed'
    BY <2>1, SameListed DEF PoolInv
  <2>7. InHand'
    BY <2>1 DEF InHand, Served
  <2>8. NoneClosing'
    BY <2>1, <2>4, <2>5 DEF PoolInv, NoneClosing, CoreIdle
  <2> QED
    BY <2>6, <2>7, <2>8 DEF PoolInv
<1>2. ~RunFin
  BY DEF PoolInv, NoneClosing, RunFin, Running
<1>3. ~RunPollAbort
  BY DEF RunPollAbort, Running, Control, Pending, Binding
<1>4. CASE RunDangling
  BY <1>4, SameSys DEF RunDangling
<1> QED
  BY <1>1, <1>2, <1>3, <1>4, RunConnectedPool, RunPollPool DEF Callback

-----------------------------------------------------------------------------
LEMMA PoolStep ==
  ASSUME TypeOK, Owned, Control, Helpful, PoolInv, [Next]_vars
  PROVE  PoolInv'
<1>1. CASE Sketch
  BY <1>1, SketchPool
<1>2. CASE Arduino
  BY <1>2, ArduinoPool
<1>3. CASE Peer \/ Answers \/ \E p \in Pcbs : Poll(p)
  BY <1>3, StackPool DEF Peer, Answers
<1>4. CASE Callback
  BY <1>4, CallbackPool
<1>5. CASE UNCHANGED vars
  BY <1>5, SameSys DEF vars
<1> QED
  BY <1>1, <1>2, <1>3, <1>4, <1>5 DEF Next

(* With a peer that answers, and leaves it to this side to close, every    *)
(* pcb that was opened is closed exactly once: the pool stays a list that  *)
(* ends, and holds no pcb lwIP still serves.                               *)
THEOREM PoolIntactHolds ==
  ASSUME Helpful
  PROVE  Spec => []PoolIntact
<1>1. Init => PoolInv
  <2>1. Init => Listed
    BY FreshPool DEF Init, NetInit, Listed, PoolIntact
  <2>2. Init => InHand /\ NoneClosing
    BY DEF Init, InHand, NoneClosing, EsInit, CoreIdle
  <2> QED
    BY <2>1, <2>2 DEF PoolInv
<1>2. TypeOK /\ Owned /\ Control /\ PoolInv /\ [Next]_vars => PoolInv'
  BY PoolStep
<1>3. Spec => [](TypeOK /\ Owned /\ Control)
  BY ControlHolds DEF Helpful, Patient
<1>4. PoolInv => PoolIntact
  BY DEF PoolInv, Listed
<1> QED
  BY <1>1, <1>2, <1>3, <1>4, PTL DEF Spec
=============================================================================
