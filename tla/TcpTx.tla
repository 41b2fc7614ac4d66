------------------------------- MODULE TcpTx -------------------------------
(***************************************************************************)
(* The transmit path of tcp_client.c: tcpip_tcp_write of the arduino       *)
(* thread chains pbufs behind p_tx, tcp_client_send hands them to lwIP in  *)
(* the poll, sent and recv callbacks of the tcpip thread, and              *)
(* tcpip_tcp_disconnect waits for the chain to drain or frees it.          *)
(*                                                                         *)
(* The unit of data is a pbuf; pbufs are numbered in the order they are    *)
(* written and never renumbered, so a number that is not in live is freed  *)
(* memory.  A callback runs with the mutex held, but the close that        *)
(* disconnect does after its timeout does not take the mutex: the send     *)
(* loop is therefore split where that close can fall into it.              *)
(*                                                                         *)
(* A connect whose name is not resolved leaves client_es on a block nobody *)
(* wrote to, p_tx included; no behaviour of this model goes on from there  *)
(* (TcpClient and TcpRx have it).                                          *)
(***************************************************************************)
EXTENDS Naturals, Sequences, FiniteSets, Functions

CONSTANTS
  NumPbuf,       \* PBUF_POOL_SIZE, as far as transmission may use it
  SndBuf,        \* TCP_SND_BUF, counted in pbufs
  WriteSizes,    \* how many pbufs a write may need
  RetryLimit,    \* BUF_ALLOC_RETRY_TIMEOUT
  MaxWritten     \* bound of the model: pbufs written in a behaviour

ASSUME TxAssumption ==
  /\ NumPbuf \in Nat /\ SndBuf \in Nat \ {0}
  /\ WriteSizes \subseteq Nat \ {0}
  /\ RetryLimit \in Nat /\ MaxWritten \in Nat

VARIABLES
  state,         \* client_es->state, "NONE" when client_es is NULL
  chain,         \* client_es->p_tx and the pbufs behind it
  registered,    \* the pcb exists and has its callbacks
  mutex,         \* holder of semaphore_tcp
  core,          \* the send loop of the tcpip thread: "idle", "send", "free"
  room,          \* tcp_sndbuf
  sent,          \* what lwIP was given on this connection
  live,          \* the pbufs that are allocated
  written,       \* pbufs written so far
  ard,           \* "idle", or "wait" in tcpip_tcp_disconnect
  retry,         \* psld.buf_alloc_retry
  fault          \* a freed pbuf or struct client was used

es == <<state, chain>>
vars == <<state, chain, registered, mutex, core, room, sent, live, written,
          ard, retry, fault>>

Fresh == /\ state' = "NONE" /\ chain' = <<>> /\ registered' = FALSE
         /\ mutex' = "none" /\ core' = "idle" /\ room' = SndBuf /\ sent' = <<>>
         /\ live' = {} /\ ard' = "idle" /\ retry' = 0 /\ fault' = FALSE

Init ==
  /\ state = "NONE" /\ chain = <<>> /\ registered = FALSE
  /\ mutex = "none" /\ core = "idle" /\ room = SndBuf /\ sent = <<>>
  /\ live = {} /\ written = 0 /\ ard = "idle" /\ retry = 0 /\ fault = FALSE

-----------------------------------------------------------------------------
(* The arduino thread.                                                     *)

Ready == ~fault /\ ard = "idle" /\ mutex = "none"

(* tcpip_tcp_busy lets a connect begin also on a closed connection; it     *)
(* overwrites client_es, and the struct is forgotten with its chain.       *)
NotBusy == state \in {"NONE", "CLOSED"}

(* A connect that succeeds: a new struct client, tcp_client_connected.     *)
Connected ==
  /\ Ready /\ NotBusy /\ core = "idle"
  /\ state' = "CONNECTED" /\ chain' = <<>> /\ registered' = TRUE
  /\ room' = SndBuf /\ sent' = <<>>
  /\ UNCHANGED <<mutex, core, live, written, ard, retry, fault>>

(* A connect that fails frees its own struct client and leaves client_es   *)
(* NULL.                                                                   *)
ConnectFails ==
  /\ Ready /\ state = "CLOSED" /\ core = "idle"
  /\ state' = "NONE" /\ chain' = <<>>
  /\ UNCHANGED <<registered, mutex, core, room, sent, live, written, ard, retry, fault>>

(* read_buffer_free, called by $TR and before a disconnect: CONNECTED,     *)
(* whatever the state was.                                                 *)
BufferReleased ==
  /\ Ready /\ state # "NONE"
  /\ state' = "CONNECTED"
  /\ UNCHANGED <<chain, registered, mutex, core, room, sent, live, written, ard, retry, fault>>

(* Mutant of Behind: what is written last is sent first.                   *)
InFront(c, new) == new \o c

(* Link the new pbufs: behind the first one of the chain, whatever its     *)
(* next pointer held before.                                               *)
Behind(c, new) == IF c = <<>> THEN new ELSE <<c[1]>> \o new

(* tcpip_tcp_write, with pbufs enough.                                     *)
Write(n) ==
  /\ Ready /\ state # "NONE" /\ written + n <= MaxWritten
  /\ Cardinality(live) + n <= NumPbuf
  /\ LET new == [i \in 1..n |-> written + i]
     IN  /\ chain' = Behind(chain, new)
         /\ live' = live \cup Range(new)
  /\ written' = written + n
  /\ retry' = 0
  /\ UNCHANGED <<state, registered, mutex, core, room, sent, ard, fault>>

(* tcpip_tcp_write without: after some of these in a row the board resets. *)
WriteFails(n) ==
  /\ Ready /\ state # "NONE" /\ Cardinality(live) + n > NumPbuf
  /\ UNCHANGED written
  /\ IF retry >= RetryLimit
     THEN Fresh
     ELSE /\ retry' = retry + 1
          /\ UNCHANGED <<es, registered, mutex, core, room, sent, live, ard, fault>>

(* tcpip_tcp_disconnect: of a closed connection it frees the struct only;  *)
(* when the peer closed first it keeps the mutex.                          *)
Disconnect ==
  /\ Ready /\ state # "NONE"
  /\ IF state = "CLOSED"
     THEN state' = "NONE" /\ chain' = <<>> /\ UNCHANGED <<mutex, ard>>
     ELSE /\ state' = "CLOSING" /\ ard' = "wait"
          /\ mutex' = IF state = "CLOSING" THEN "arduino" ELSE mutex
          /\ UNCHANGED chain
  /\ UNCHANGED <<registered, core, room, sent, live, written, retry, fault>>

(* Mutant of ForceClose: the pbufs are not freed.                          *)
ForceCloseKeeps ==
  /\ ~fault /\ ard = "wait" /\ state # "CLOSED"
  /\ registered' = FALSE /\ state' = "CLOSED"
  /\ UNCHANGED <<chain, live, mutex, core, room, sent, written, ard, retry, fault>>

(* Its timeout: tcp_client_connection_close in the arduino thread, without *)
(* the mutex.  p_tx keeps pointing at what is freed.                       *)
ForceClose ==
  /\ ~fault /\ ard = "wait" /\ state # "CLOSED"
  /\ registered' = FALSE /\ state' = "CLOSED"
  /\ live' = live \ Range(chain)
  /\ UNCHANGED <<chain, mutex, core, room, sent, written, ard, retry, fault>>

(* Its end: the struct client is freed.                                    *)
DisconnectDone ==
  /\ ~fault /\ ard = "wait" /\ state = "CLOSED"
  /\ state' = "NONE" /\ chain' = <<>> /\ ard' = "idle"
  /\ UNCHANGED <<registered, mutex, core, room, sent, live, written, retry, fault>>

(* A thread that has kept the mutex waits for itself at the next command,  *)
(* until the watchdog resets the board.                                    *)
Watchdog ==
  /\ ~fault /\ ard = "idle" /\ mutex = "arduino"
  /\ Fresh /\ UNCHANGED written

-----------------------------------------------------------------------------
(* The tcpip thread.                                                       *)

Callback == ~fault /\ core = "idle" /\ registered /\ mutex = "none"

EnterSend == core' = "send" /\ mutex' = "tcpip"

(* Mutant of Poll: only an open connection is served.                      *)
PollOpen ==
  /\ Callback /\ chain # <<>> /\ state = "CONNECTED"
  /\ EnterSend
  /\ UNCHANGED <<es, registered, room, sent, live, written, ard, retry, fault>>

(* tcp_client_poll with something to send.                                 *)
Poll ==
  /\ Callback /\ chain # <<>>
  /\ EnterSend
  /\ UNCHANGED <<es, registered, room, sent, live, written, ard, retry, fault>>

(* tcp_client_poll with nothing to send closes a closing connection.       *)
PollCloses ==
  /\ Callback /\ chain = <<>> /\ state = "CLOSING"
  /\ state' = "CLOSED" /\ registered' = FALSE
  /\ UNCHANGED <<chain, mutex, core, room, sent, live, written, ard, retry, fault>>

(* The peer's FIN, tcp_client_recv without a pbuf: close, or send the rest.*)
Fin ==
  /\ Callback
  /\ IF chain = <<>>
     THEN /\ state' = "CLOSED" /\ registered' = FALSE
          /\ UNCHANGED <<core, mutex>>
     ELSE /\ state' = "CLOSING" /\ EnterSend
          /\ UNCHANGED registered
  /\ UNCHANGED <<chain, room, sent, live, written, ard, retry, fault>>

(* The peer acknowledges n pbufs: tcp_client_sent.                         *)
Acked(n) ==
  /\ Callback /\ room + n <= SndBuf
  /\ room' = room + n
  /\ IF chain # <<>> THEN EnterSend ELSE UNCHANGED <<core, mutex>>
  /\ UNCHANGED <<es, registered, sent, live, written, ard, retry, fault>>

(* The peer resets: lwIP frees the pcb, and no tcp_err tells the client.   *)
PeerReset ==
  /\ ~fault /\ core = "idle" /\ registered
  /\ registered' = FALSE
  /\ UNCHANGED <<es, mutex, core, room, sent, live, written, ard, retry, fault>>

(* The send loop reads es->p_tx and its pbuf; after a forced close either  *)
(* may be freed.                                                           *)
Gone == state = "NONE" \/ (chain # <<>> /\ chain[1] \notin live)

Use == ~fault /\ core # "idle"

UseAfterFree ==
  /\ Use /\ Gone
  /\ fault' = TRUE
  /\ UNCHANGED <<es, registered, mutex, core, room, sent, live, written, ard, retry>>

(* Mutant of SendWrite: the space in the send buffer is not tested.        *)
SendWriteBlind ==
  /\ Use /\ ~Gone /\ core = "send" /\ chain # <<>>
  /\ sent' = Append(sent, chain[1])
  /\ room' = room - 1
  /\ core' = "free"
  /\ UNCHANGED <<es, registered, mutex, live, written, ard, retry, fault>>

(* tcp_write accepts the first pbuf of the chain.                          *)
SendWrite ==
  /\ Use /\ ~Gone /\ core = "send" /\ chain # <<>> /\ room > 0
  /\ sent' = Append(sent, chain[1])
  /\ room' = room - 1
  /\ core' = "free"
  /\ UNCHANGED <<es, registered, mutex, live, written, ard, retry, fault>>

(* Mutant of SendFree: without pbuf_ref the rest of the chain goes too.    *)
SendFreeUnreferenced ==
  /\ Use /\ ~Gone /\ core = "free"
  /\ chain' = Tail(chain)
  /\ live' = live \ Range(chain)
  /\ core' = "send"
  /\ UNCHANGED <<state, registered, mutex, room, sent, written, ard, retry, fault>>

(* p_tx moves to the next pbuf, which is referenced before the first one   *)
(* is freed.                                                               *)
SendFree ==
  /\ Use /\ ~Gone /\ core = "free"
  /\ chain' = Tail(chain)
  /\ live' = live \ {chain[1]}
  /\ core' = "send"
  /\ UNCHANGED <<state, registered, mutex, room, sent, written, ard, retry, fault>>

(* The loop ends: nothing left, no room, or ERR_MEM, which goes away when  *)
(* what lwIP already has is acknowledged.                                  *)
SendEnds ==
  /\ Use /\ ~Gone /\ core = "send"
  /\ chain = <<>> \/ room < SndBuf
  /\ core' = "idle" /\ mutex' = "none"
  /\ UNCHANGED <<es, registered, room, sent, live, written, ard, retry, fault>>

-----------------------------------------------------------------------------
Sketch == \/ Connected \/ ConnectFails \/ BufferReleased
          \/ \E n \in WriteSizes : Write(n) \/ WriteFails(n)
          \/ Disconnect
Arduino == ForceClose \/ DisconnectDone
Send == SendWrite \/ SendFree \/ SendEnds
Peer == Fin \/ PeerReset

Next == \/ Sketch \/ Arduino \/ Watchdog
        \/ Poll \/ PollCloses \/ Peer
        \/ \E n \in 1..SndBuf : Acked(n)
        \/ Send \/ UseAfterFree

Spec == Init /\ [][Next]_vars

(* The tcpip thread goes on and polls every half second, a peer that is    *)
(* there acknowledges what it was sent.  The callbacks compete with the    *)
(* arduino thread for the mutex, which FreeRTOS hands to its waiters in    *)
(* turn: strong fairness.                                                  *)
FairSpec == /\ Spec
            /\ WF_vars(Send \/ UseAfterFree)
            /\ SF_vars(Poll) /\ SF_vars(PollCloses)
            /\ SF_vars(\E n \in 1..SndBuf : Acked(n))
            /\ WF_vars(Arduino)

-----------------------------------------------------------------------------
(* Properties.                                                             *)

(* Types; what is sent or chained was written; the mutex is the tcpip      *)
(* thread's exactly while it is in the send loop.                          *)
TypeOK ==
  /\ state \in {"NONE", "CONNECTED", "CLOSING", "CLOSED"}
  /\ chain \in Seq(1..written) /\ sent \in Seq(1..written)
  /\ registered \in BOOLEAN /\ fault \in BOOLEAN
  /\ core \in {"idle", "send", "free"}
  /\ mutex \in {"none", "arduino", "tcpip"}
  /\ mutex = "tcpip" <=> core # "idle"
  /\ room \in 0..SndBuf
  /\ live \subseteq 1..written
  /\ written \in Nat
  /\ ard \in {"idle", "wait"}
  /\ retry \in 0..RetryLimit

Increasing(s) == \A i, j \in DOMAIN s : i < j => s[i] < s[j]

(* The pbufs that tcp_client_send has still to hand to lwIP.               *)
Unsent == IF core = "free" /\ chain # <<>> THEN Tail(chain) ELSE chain

(* The peer gets the data in the order it was written and no part twice,   *)
(* also when the links between the pbufs are overwritten and when sending  *)
(* stops half way for lack of memory and is resumed by another callback.   *)
InOrder == Increasing(sent \o Unsent)

(* Freed memory is used by the send loop only after disconnect has closed  *)
(* the connection by force: never while it is open.                        *)
FaultOnlyAfterForce == fault => state \in {"CLOSED", "NONE"}

Leaked == live \ Range(chain)

(* A pbuf is lost to the pool in three ways only: a write that finds two   *)
(* or more pbufs in the chain and overwrites the link between them, and,   *)
(* on a connection that was written to after its close, the disconnect     *)
(* that frees its struct client and the connect that overwrites the        *)
(* pointer to it.  The disconnect that has to force the close frees        *)
(* everything.                                                             *)
LeakCauses ==
  [][Leaked' \ Leaked # {} =>
       \/ Len(chain) > 1 /\ written' # written
       \/ state = "CLOSED" /\ ard = "idle" /\ (state' = "NONE" \/ registered')]_vars

(* With a peer that acknowledges, what was written is sent, however the    *)
(* connection is being closed, unless disconnect gives up on it.           *)
Drains == (chain # <<>> /\ registered) ~> (chain = <<>> \/ ~registered)

-----------------------------------------------------------------------------
(* What the repository says of this code and the code does not keep.       *)

(* tcpip_tcp_write returns "0:success 1:error": data it accepted stays in  *)
(* the chain until it is sent, as long as the connection lasts.            *)
AcceptedKept ==
  [][state' \in {"CONNECTED", "CLOSING"} =>
       Range(chain) \subseteq Range(chain') \cup Range(sent')]_vars
=============================================================================
