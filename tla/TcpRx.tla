------------------------------- MODULE TcpRx -------------------------------
(***************************************************************************)
(* The receive path of tcp_client.c.  The tcpip thread runs the lwIP       *)
(* callbacks tcp_client_recv and tcp_client_poll; the arduino thread runs  *)
(* tcpip_tcp_read, tcpip_tcp_read_buffer_free and tcpip_tcp_disconnect,    *)
(* called by the $TR and $TD commands (arduino_api.c) and by               *)
(* rtc_time_synchronize (rtc.c).  They share the struct client of the      *)
(* connection and the mutex semaphore_tcp.  A step is a stretch of code    *)
(* without a point at which the other thread could see or change a         *)
(* difference: the code between xSemaphoreTake and xSemaphoreGive, or one  *)
(* unprotected access to client_es.                                        *)
(*                                                                         *)
(* Bytes are numbered in the order the stack acknowledges them, so that a  *)
(* pbuf's payload is the sequence of its unread bytes.  The transmit chain *)
(* is abstracted to txBusy (p_tx # NULL).                                  *)
(*                                                                         *)
(* Neither tcp_client_connect nor tcp_client_connected sets p_rx, and a    *)
(* struct client is freed with what it points to: a connection begins with *)
(* the p_rx that is in its heap block, see TakeBlock.                      *)
(***************************************************************************)
EXTENDS Naturals, Sequences, SequencesExt

CONSTANTS
  MaxBytes,      \* bound of the model: bytes the peer sends in a behaviour
  Segments,      \* sizes <<a, b>> of the one (b = 0) or two pbufs of a segment
  Requests       \* byte counts a read may ask for

ASSUME RxAssumption ==
  /\ MaxBytes \in Nat
  /\ Segments \subseteq (Nat \ {0}) \X Nat
  /\ Requests \subseteq Nat

States == {"NOT_CONNECTED", "CONNECTED", "RECEIVED", "CLOSING", "CLOSED"}

(* A pbuf of the chain p_rx: what is left of its payload, and tot_len.     *)
Pbufs == [data : Seq(Nat), tot : Nat]

VARIABLES
  live,          \* client_es points to an allocated struct client
  state,         \* client_es->state
  chain,         \* client_es->p_rx, NULL when empty
  origin,        \* what p_rx was in its block when client_es got it: "own" if
                 \* it was NULL or was reset since, "left" if it was a chain of
                 \* an earlier connection, "wild" if other data was in its place
  remains,       \* the chains that freed blocks point to with their p_rx
  txBusy,        \* client_es->p_tx # NULL
  registered,    \* the pcb has its recv, sent and poll callbacks
  peerFin,       \* the peer has sent its FIN on this connection
  mutex,         \* holder of semaphore_tcp: "none", "arduino" or "tcpip"
  core,          \* what the tcpip thread is doing
  seg,           \* the segment the tcpip thread is handing to tcp_client_recv
  ard,           \* where the arduino thread is
  job,           \* the command it executes: "none", "read", "rtc", "close"
  out,           \* the bytes the last read handed to its caller
  arrived,       \* bytes acknowledged with tcp_recved and kept
  fault          \* a NULL or freed pointer was dereferenced

past == <<origin, remains>>
vars == <<live, state, chain, past, txBusy, registered, peerFin, mutex, core, seg,
          ard, job, out, arrived, fault>>

es == <<live, state, chain, past>>

Init ==
  /\ live = FALSE /\ state = "CLOSED" /\ chain = <<>>
  /\ origin = "own" /\ remains = {}
  /\ txBusy = FALSE /\ registered = FALSE /\ peerFin = FALSE
  /\ mutex = "none"
  /\ core = "idle" /\ seg = <<1, 0>>
  /\ ard = "idle" /\ job = "none" /\ out = <<>>
  /\ arrived = 0
  /\ fault = FALSE

-----------------------------------------------------------------------------
(* Helpers on the pbuf chain.                                              *)

(* The pbuf chain lwIP passes up for a segment: tot_len counts the pbuf    *)
(* and everything after it in the same chain.                              *)
Pbuf(sg) ==
  LET a == sg[1]
      b == sg[2]
      first == [data |-> [i \in 1..a |-> arrived + i], tot |-> a + b]
      second == [data |-> [i \in 1..b |-> arrived + a + i], tot |-> b]
  IN  IF b = 0 THEN <<first>> ELSE <<first, second>>

(* Mutants of Link: the lengths in front are not updated; the new pbufs go *)
(* in front of the old ones.                                               *)
LinkUncounted(c, p) == c \o p
LinkInFront(c, p) == p \o c

(* Link p behind the chain, adding its length to every tot_len on the way. *)
Link(c, p) ==
  IF c = <<>> THEN p
  ELSE [i \in 1..Len(c) |-> [c[i] EXCEPT !.tot = @ + p[1].tot]] \o p

Drained(c) == \A i \in 1..Len(c) : c[i].data = <<>>

(* The first pbuf that still has data.                                     *)
IsFront(c, i) == /\ i \in 1..Len(c)
                 /\ c[i].data # <<>>
                 /\ \A j \in 1..(i - 1) : c[j].data = <<>>

(* Mutant of Consume: both branches of the read subtract from tot_len.     *)
ConsumeTwice(c, i, n) ==
  LET rest == SubSeq(c[i].data, n + 1, Len(c[i].data))
  IN  [j \in 1..Len(c) |->
        [data |-> IF j = i THEN rest ELSE c[j].data,
         tot  |-> IF j \in {1, i} THEN c[i].tot - n - Len(c[i].data)
                                  ELSE c[j].tot]]

(* Take n bytes from the front of pbuf i; the head mirrors its tot_len.    *)
Consume(c, i, n) ==
  LET left == c[i].tot - n
      rest == SubSeq(c[i].data, n + 1, Len(c[i].data))
  IN  [j \in 1..Len(c) |->
        [data |-> IF j = i THEN rest ELSE c[j].data,
         tot  |-> IF j \in {1, i} THEN left ELSE c[j].tot]]

-----------------------------------------------------------------------------
(* The tcpip thread.                                                       *)

(* tcpip_tcp_busy lets a connect begin: there is no connection, or one     *)
(* that is closed, whose struct client is then forgotten with its chain.   *)
NotBusy == ~live \/ state \in {"CLOSED", "NOT_CONNECTED"}

Connectable == ~fault /\ NotBusy /\ core = "idle" /\ ard = "idle"

(* The block the new struct is in: p_rx is what a freed block still points *)
(* to, zero, or something else that the heap was used for.                 *)
TakeBlock ==
  \/ /\ origin' = "left" /\ chain' \in remains
     /\ remains' = remains \ {chain'}
  \/ /\ origin' \in {"own", "wild"} /\ chain' = <<>>
     /\ UNCHANGED remains

(* tcp_client_connect up to the connected callback: the connection is open *)
(* and its callbacks set.  The arduino thread waits for it, so it is one   *)
(* step here.                                                              *)
Connected ==
  /\ Connectable /\ mutex = "none"
  /\ TakeBlock
  /\ live' = TRUE /\ state' = "CONNECTED"
  /\ txBusy' = FALSE /\ registered' = TRUE /\ peerFin' = FALSE
  /\ UNCHANGED <<mutex, core, seg, ard, job, out, arrived, fault>>

(* A name that is not resolved: client_es stays, and no word of its block  *)
(* was written.  Its state is one a freed block has, or zero.              *)
Unresolved ==
  /\ Connectable
  /\ TakeBlock
  /\ live' = TRUE /\ state' \in {"CLOSED", "NOT_CONNECTED"}
  /\ txBusy' \in BOOLEAN
  /\ UNCHANGED <<registered, peerFin, mutex, core, seg, ard, job, out, arrived, fault>>

(* Any other connect that fails frees its block as it was and leaves       *)
(* client_es NULL.                                                         *)
ConnectFails ==
  /\ Connectable /\ live
  /\ live' = FALSE /\ chain' = <<>> /\ origin' = "own"
  /\ UNCHANGED <<state, remains, txBusy, registered, peerFin, mutex, core, seg, ard,
                 job, out, arrived, fault>>

(* A segment arrives: lwIP calls tcp_client_recv, which first takes the    *)
(* mutex and so may wait here.                                             *)
SegmentArrives(sg) ==
  /\ ~fault /\ registered /\ ~peerFin /\ core = "idle"
  /\ arrived + sg[1] + sg[2] <= MaxBytes
  /\ core' = "recv" /\ seg' = sg
  /\ UNCHANGED <<es, txBusy, registered, peerFin, mutex, ard, job, out, arrived, fault>>

(* The peer's FIN: tcp_client_recv is called without a pbuf.               *)
FinArrives ==
  /\ ~fault /\ registered /\ ~peerFin /\ core = "idle"
  /\ core' = "fin" /\ peerFin' = TRUE
  /\ UNCHANGED <<es, txBusy, registered, mutex, seg, ard, job, out, arrived, fault>>

(* tcp_client_recv takes the mutex and links the pbuf behind p_rx.         *)
RecvLink ==
  /\ ~fault /\ core = "recv" /\ mutex = "none" /\ live
  /\ state \in {"CONNECTED", "RECEIVED"} /\ origin # "wild"
  /\ mutex' = "tcpip" /\ core' = "recvEnd"
  /\ chain' = Link(chain, Pbuf(seg))
  /\ arrived' = arrived + seg[1] + seg[2]
  /\ UNCHANGED <<live, state, past, txBusy, registered, peerFin, seg, ard, job, out, fault>>

(* ... then records that data is there and gives the mutex back.           *)
RecvEnd ==
  /\ ~fault /\ core = "recvEnd"
  /\ state' = "RECEIVED"
  /\ mutex' = "none" /\ core' = "idle"
  /\ UNCHANGED <<live, chain, past, txBusy, registered, peerFin, seg, ard, job, out, arrived, fault>>

(* Data for a connection that is closing is acknowledged and freed.        *)
RecvDrop ==
  /\ ~fault /\ core = "recv" /\ mutex = "none" /\ live
  /\ state \notin {"CONNECTED", "RECEIVED"}
  /\ core' = "idle"
  /\ UNCHANGED <<es, txBusy, registered, peerFin, mutex, seg, ard, job, out, arrived, fault>>

(* The FIN marks the connection as closing.  With data left to send the    *)
(* callback ends there, otherwise it goes on to close the connection.      *)
RecvFin ==
  /\ ~fault /\ core = "fin" /\ mutex = "none" /\ live
  /\ state' = "CLOSING"
  /\ IF txBusy THEN core' = "idle" /\ UNCHANGED mutex
               ELSE core' = "close" /\ mutex' = "tcpip"
  /\ UNCHANGED <<live, chain, past, txBusy, registered, peerFin, seg, ard, job, out, arrived, fault>>

(* tcp_client_poll finds a closing connection with nothing left to send.   *)
PollCloses ==
  /\ ~fault /\ core = "idle" /\ registered /\ live /\ mutex = "none"
  /\ state = "CLOSING" /\ ~txBusy
  /\ core' = "close" /\ mutex' = "tcpip"
  /\ UNCHANGED <<es, txBusy, registered, peerFin, seg, ard, job, out, arrived, fault>>

(* tcp_client_connection_close in a callback, up to the end of it.         *)
CallbackCloses ==
  /\ ~fault /\ core = "close"
  /\ registered' = FALSE /\ state' = "CLOSED"
  /\ mutex' = "none" /\ core' = "idle"
  /\ UNCHANGED <<live, chain, past, txBusy, peerFin, seg, ard, job, out, arrived, fault>>

(* poll or sent hands the rest of p_tx to lwIP.                            *)
TxDrained ==
  /\ ~fault /\ core = "idle" /\ registered /\ mutex = "none" /\ txBusy
  /\ txBusy' = FALSE
  /\ UNCHANGED <<es, registered, peerFin, mutex, core, seg, ard, job, out, arrived, fault>>

(* A callback that had to wait for the mutex finds its struct client gone. *)
CallbackAfterFree ==
  /\ ~fault /\ core \in {"recv", "fin"} /\ mutex = "none" /\ ~live
  /\ fault' = TRUE
  /\ UNCHANGED <<es, txBusy, registered, peerFin, mutex, core, seg, ard, job, out, arrived>>

(* A wild p_rx is followed: to the end of the chain, or to free it.        *)
WildUsed ==
  /\ ~fault /\ live /\ origin = "wild" /\ mutex = "none"
  /\ \/ core = "recv" /\ state \in {"CONNECTED", "RECEIVED"}
     \/ ard = "freeTake"
  /\ fault' = TRUE
  /\ UNCHANGED <<es, txBusy, registered, peerFin, mutex, core, seg, ard, job, out, arrived>>

-----------------------------------------------------------------------------
(* The arduino thread.                                                     *)

ArdIdle == ~fault /\ ard = "idle"

(* A write queues data for poll to send.                                   *)
Write ==
  /\ ArdIdle /\ live /\ mutex = "none"
  /\ txBusy' = TRUE
  /\ UNCHANGED <<es, registered, peerFin, mutex, core, seg, ard, job, out, arrived, fault>>

(* p_rx # NULL.                                                            *)
HasRx == chain # <<>> \/ origin = "wild"

(* tcpip_tcp_read for a $TR command or for rtc_time_synchronize: with a    *)
(* chain it goes to take the mutex, without one it waits for data.         *)
ReadCall(j) ==
  /\ ArdIdle /\ live
  /\ job' = j
  /\ ard' = IF HasRx THEN "readTake" ELSE "readWait"
  /\ UNCHANGED <<es, txBusy, registered, peerFin, mutex, core, seg, out, arrived, fault>>

(* Mutant: any wake-up of the wait loop counts as data.                    *)
ReadWakesAnyway ==
  /\ ~fault /\ ard = "readWait"
  /\ ard' = "readTake"
  /\ UNCHANGED <<es, txBusy, registered, peerFin, mutex, core, seg, job, out, arrived, fault>>

(* The wait of tcpip_tcp_read ends with RECEIVED or CLOSING.               *)
ReadWakes ==
  /\ ~fault /\ ard = "readWait"
  /\ state \in {"RECEIVED", "CLOSING"}
  /\ ard' = "readTake"
  /\ UNCHANGED <<es, txBusy, registered, peerFin, mutex, core, seg, job, out, arrived, fault>>

(* Five seconds: status 1, and no read_buffer_free.  The count is compared *)
(* again after the loop, so data found in the last two turns counts as a   *)
(* timeout too.                                                            *)
ReadTimeout ==
  /\ ~fault /\ ard = "readWait"
  /\ ard' = "idle" /\ job' = "none"
  /\ UNCHANGED <<es, txBusy, registered, peerFin, mutex, core, seg, out, arrived, fault>>

(* The body of tcpip_tcp_read under the mutex: it takes at most n bytes    *)
(* from the first pbuf that has some.  When every pbuf is empty it is the  *)
(* "read list error", status 2.                                            *)
ReadBody(n) ==
  /\ ~fault /\ ard = "readTake" /\ mutex = "none" /\ chain # <<>>
  /\ IF Drained(chain)
     THEN ard' = "idle" /\ job' = "none" /\ UNCHANGED <<chain, out>>
     ELSE /\ \E i \in 1..Len(chain) :
               /\ IsFront(chain, i)
               /\ LET k == IF n < Len(chain[i].data) THEN n ELSE Len(chain[i].data)
                  IN  /\ out' = SubSeq(chain[i].data, 1, k)
                      /\ chain' = Consume(chain, i, k)
          /\ ard' = "sending" /\ UNCHANGED job
  /\ UNCHANGED <<live, state, past, txBusy, registered, peerFin, mutex, core, seg, arrived, fault>>

(* The wait ended with CLOSING and no chain: ptr->len with ptr = NULL.  Or *)
(* ptr is wild.                                                            *)
ReadNull ==
  /\ ~fault /\ ard = "readTake" /\ mutex = "none" /\ chain = <<>>
  /\ fault' = TRUE
  /\ UNCHANGED <<es, txBusy, registered, peerFin, mutex, core, seg, ard, job, out, arrived>>

(* Mutant: a drained chain is only released when it is forced.             *)
FreeCheckForcedOnly(force) ==
  /\ ~fault /\ ard = "sending"
  /\ job = "read" => ~force
  /\ ard' = IF chain # <<>> /\ force THEN "freeTake"
            ELSE IF job = "rtc" THEN "closeTake" ELSE "idle"
  /\ job' = IF ard' = "idle" THEN "none" ELSE job
  /\ UNCHANGED <<es, txBusy, registered, peerFin, mutex, core, seg, out, arrived, fault>>

(* The reply is on its way to the Arduino; then read_buffer_free looks at  *)
(* the chain WITHOUT the mutex.  Its argument is 0 for $TR and missing     *)
(* (whatever is in the register) in rtc_time_synchronize.                  *)
FreeCheck(force) ==
  /\ ~fault /\ ard = "sending"
  /\ job = "read" => ~force
  /\ ard' = IF chain # <<>> /\ (chain[1].tot = 0 \/ force) THEN "freeTake"
            ELSE IF job = "rtc" THEN "closeTake" ELSE "idle"
  /\ job' = IF ard' = "idle" THEN "none" ELSE job
  /\ UNCHANGED <<es, txBusy, registered, peerFin, mutex, core, seg, out, arrived, fault>>

(* $TD: read_buffer_free(1), then tcpip_tcp_disconnect.                    *)
CloseCall ==
  /\ ArdIdle /\ live
  /\ job' = "close"
  /\ ard' = IF HasRx THEN "freeTake" ELSE "closeTake"
  /\ UNCHANGED <<es, txBusy, registered, peerFin, mutex, core, seg, out, arrived, fault>>

(* Mutant: the state is left alone when the chain is released.             *)
FreeBodyKeepState ==
  /\ ~fault /\ ard = "freeTake" /\ mutex = "none" /\ origin # "wild"
  /\ chain' = <<>> /\ origin' = "own"
  /\ ard' = IF job = "read" THEN "idle" ELSE "closeTake"
  /\ job' = IF job = "read" THEN "none" ELSE job
  /\ UNCHANGED <<live, state, remains, txBusy, registered, peerFin, mutex, core, seg, out, arrived, fault>>

(* read_buffer_free under the mutex: the chain goes, the state becomes     *)
(* CONNECTED whatever it was.                                              *)
FreeBody ==
  /\ ~fault /\ ard = "freeTake" /\ mutex = "none" /\ origin # "wild"
  /\ chain' = <<>> /\ origin' = "own" /\ state' = "CONNECTED"
  /\ ard' = IF job = "read" THEN "idle" ELSE "closeTake"
  /\ job' = IF job = "read" THEN "none" ELSE job
  /\ UNCHANGED <<live, remains, txBusy, registered, peerFin, mutex, core, seg, out, arrived, fault>>

(* mem_free(client_es): the pbuf chain is not freed with it, and the block *)
(* goes on pointing to it.                                                 *)
Release ==
  /\ live' = FALSE /\ chain' = <<>> /\ origin' = "own"
  /\ remains' = remains \cup ({chain} \ {<<>>})
  /\ ard' = "idle" /\ job' = "none"

CloseWhenClosed ==
  /\ ~fault /\ ard = "closeTake" /\ mutex = "none" /\ state = "CLOSED"
  /\ Release
  /\ UNCHANGED <<state, txBusy, registered, peerFin, mutex, core, seg, out, arrived, fault>>

CloseRequest ==
  /\ ~fault /\ ard = "closeTake" /\ mutex = "none"
  /\ state \notin {"CLOSED", "CLOSING"}
  /\ state' = "CLOSING" /\ ard' = "closeWait"
  /\ UNCHANGED <<live, chain, past, txBusy, registered, peerFin, mutex, core, seg, job, out, arrived, fault>>

(* Already CLOSING: the mutex is taken and not given back.                 *)
CloseWhenClosing ==
  /\ ~fault /\ ard = "closeTake" /\ mutex = "none" /\ state = "CLOSING"
  /\ mutex' = "arduino" /\ ard' = "closeWait"
  /\ UNCHANGED <<es, txBusy, registered, peerFin, core, seg, job, out, arrived, fault>>

(* Mutant: the wait for ES_CLOSED has no timeout.                          *)
CloseTimeoutNever == FALSE /\ UNCHANGED vars

(* Thirty seconds pass because poll cannot close: data is left to send,    *)
(* the callbacks are gone, or poll is blocked on the mutex.  The close of  *)
(* the arduino thread is one step here and split in TcpClient.             *)
CloseTimeout ==
  /\ ~fault /\ ard = "closeWait" /\ state # "CLOSED"
  /\ txBusy \/ ~registered \/ mutex = "arduino"
  /\ registered' = FALSE /\ state' = "CLOSED"
  /\ UNCHANGED <<live, chain, past, txBusy, peerFin, mutex, core, seg, ard, job, out, arrived, fault>>

CloseDone ==
  /\ ~fault /\ ard = "closeWait" /\ state = "CLOSED"
  /\ Release
  /\ UNCHANGED <<state, txBusy, registered, peerFin, mutex, core, seg, out, arrived, fault>>

(* A thread that has kept the mutex waits for itself, until the watchdog   *)
(* resets the board.                                                       *)
Watchdog ==
  /\ ~fault /\ ard \in {"readTake", "freeTake", "closeTake"} /\ mutex = "arduino"
  /\ live' = FALSE /\ state' = "CLOSED" /\ chain' = <<>>
  /\ origin' = "own" /\ remains' = {}
  /\ txBusy' = FALSE /\ registered' = FALSE /\ peerFin' = FALSE
  /\ mutex' = "none" /\ core' = "idle" /\ ard' = "idle" /\ job' = "none"
  /\ UNCHANGED <<seg, out, arrived, fault>>

-----------------------------------------------------------------------------
Peer == \/ Connected \/ Unresolved \/ ConnectFails
        \/ \E sg \in Segments : SegmentArrives(sg)
        \/ FinArrives

Tcpip == \/ RecvLink \/ RecvEnd \/ RecvDrop \/ RecvFin
         \/ PollCloses \/ CallbackCloses \/ CallbackAfterFree \/ WildUsed

Arduino == \/ ReadWakes \/ ReadTimeout
           \/ \E n \in Requests : ReadBody(n)
           \/ ReadNull
           \/ \E force \in BOOLEAN : FreeCheck(force)
           \/ FreeBody
           \/ CloseWhenClosed \/ CloseRequest \/ CloseWhenClosing
           \/ CloseTimeout \/ CloseDone

Sketch == \/ Write \/ CloseCall
          \/ \E j \in {"read", "rtc"} : ReadCall(j)

Next == Peer \/ Tcpip \/ TxDrained \/ Arduino \/ Sketch \/ Watchdog

Spec == Init /\ [][Next]_vars

(* FreeRTOS time-slices threads of equal priority: a thread that can go on *)
(* does.  The mutex is handed to its oldest waiter, hence strong fairness  *)
(* of the steps that take it.  The tcpip thread runs tcp_slowtmr, and with *)
(* it poll, between the messages it is fed.  The watchdog counts in a      *)
(* timer's interrupt.  Nothing is assumed of the peer, nor of the time     *)
(* p_tx takes to drain.                                                    *)
FairSpec == /\ Spec
            /\ SF_vars(Arduino)
            /\ SF_vars(Tcpip)
            /\ SF_vars(PollCloses)
            /\ WF_vars(Watchdog)
-----------------------------------------------------------------------------
(* Properties.                                                             *)

(* Types of the variables; the tot_len of no pbuf underflows.              *)
TypeOK ==
  /\ live \in BOOLEAN /\ state \in States /\ chain \in Seq(Pbufs)
  /\ origin \in {"own", "left", "wild"} /\ remains \subseteq Seq(Pbufs)
  /\ txBusy \in BOOLEAN /\ registered \in BOOLEAN /\ peerFin \in BOOLEAN
  /\ mutex \in {"none", "arduino", "tcpip"}
  /\ core \in {"idle", "recv", "recvEnd", "fin", "close"}
  /\ seg \in (Nat \ {0}) \X Nat
  /\ ard \in {"idle", "readWait", "readTake", "sending", "freeTake",
               "closeTake", "closeWait"}
  /\ job \in {"none", "read", "rtc", "close"}
  /\ out \in Seq(Nat)
  /\ arrived \in Nat
  /\ fault \in BOOLEAN

(* The bytes of a chain, pbuf by pbuf; those that were not read yet.       *)
Parts(c) == [i \in 1..Len(c) |-> c[i].data]
Bytes(c) == FlattenSeq(Parts(c))
Unread == Bytes(chain)

(* While the connection is open and nobody is inside the mutex, a RECEIVED *)
(* connection has a chain, and a CONNECTED one has none, unless it is one  *)
(* that was in its heap block before it: tcpip_tcp_read waits for RECEIVED *)
(* and tests p_rx, two things two threads change and no connect resets.    *)
StateBuffer ==
  (mutex = "none" /\ live /\ state \in {"CONNECTED", "RECEIVED"})
     => /\ state = "RECEIVED" => chain # <<>>
        /\ state = "CONNECTED" /\ HasRx => origin # "own"

(* The tot_len of the first pbuf, which alone decides whether the chain is *)
(* released, counts the unread bytes of the whole chain, in whatever order *)
(* segments were appended and pbufs partly read.                           *)
TotLenSum == chain # <<>> => chain[1].tot = Len(Unread)

(* A read that enters the mutex with a chain finds data in it: the status  *)
(* 2 of tcpip_tcp_read ("read list error") is never produced.              *)
NoListError == (ard = "readTake" /\ chain # <<>>) => ~Drained(chain)

(* A read enters the mutex without a chain only when the connection is     *)
(* closing: tcpip_tcp_read never dereferences p_rx = NULL on a connection  *)
(* that stays open.                                                        *)
ReadHasData == ard = "readTake" => HasRx \/ state \in {"CLOSING", "CLOSED"}

(* The bytes handed to the Arduino are the acknowledged bytes, in order    *)
(* and without a hole, until the unread rest is dropped as a whole or left *)
(* behind in a freed block.  There it stays as it is: a later connection   *)
(* may begin with all of it, once, and no byte comes out twice.            *)
Stream == INSTANCE ByteStream
            WITH Chunks <- {sg[1] + sg[2] : sg \in Segments},
                 accepted <- arrived, unread <- Unread,
                 remains <- {Bytes(c) : c \in remains}, out <- out

ByteStreamSpec == Stream!Spec

(* Every command the arduino thread starts on the connection ends, even    *)
(* the disconnect that waits for a close the callbacks cannot do; one that *)
(* waits for the mutex of its own thread ends with the board.              *)
CommandReturns == (ard # "idle") ~> (ard = "idle" \/ fault)

-----------------------------------------------------------------------------
(* What the repository says of this code and the code does not keep.       *)

(* FreeRTOS: a task taking a mutex "MUST ALWAYS 'give' the semaphore       *)
(* back": between commands the arduino thread does not hold it.            *)
MutexGivenBack == ard = "idle" => mutex # "arduino"
=============================================================================
