----------------------------- MODULE TcpClient -----------------------------
(***************************************************************************)
(* The life of a connection in tcp_client.c: the struct client it hangs    *)
(* on, the lwIP control block (pcb) it is bound to, and lwIP's pool and    *)
(* lists of pcbs.  The arduino thread opens and closes connections and     *)
(* calls lwIP's raw functions itself; the tcpip thread runs the callbacks. *)
(* What is sent and received is in TcpRx: here p_rx is empty or not, and   *)
(* whether p_tx has drained is left open.                                  *)
(***************************************************************************)
EXTENDS Naturals, FiniteSets

CONSTANTS
  NumPcb,        \* MEMP_NUM_TCP_PCB
  NumBlock,      \* how many struct client fit in the heap
  RetryLimit,    \* the ..._TIMEOUT counts of phs_shield.h
  Env            \* what may go wrong outside, see EnvKinds

(* The connect is refused; is not answered, or an established peer stops   *)
(* answering; the peer resets, closes first, talks first; sends nothing    *)
(* but keeps its window shut; the name is not resolved; there is no route. *)
EnvKinds == {"refuse", "silent", "rst", "fin", "early", "stuck", "dns", "noroute"}

ASSUME ClientAssumption ==
  /\ NumPcb \in Nat \ {0} /\ NumBlock \in Nat \ {0}
  /\ RetryLimit \in Nat
  /\ Env \subseteq EnvKinds

Null == 0
Pcbs == 1..NumPcb
Blocks == 1..NumBlock

VARIABLES
  net,           \* lwIP: the pcbs, the active and TIME-WAIT lists, the pool
  es,            \* the content of each heap block a struct client can be in
  heap,          \* the blocks that are allocated
  client_pcb,
  client_es,
  mutex,         \* holder of semaphore_tcp: "none" or "arduino"
  core,          \* the callback the tcpip thread has entered, and its arguments
  ard,           \* where the arduino thread is
  connRetry, bufRetry, busyRetry,  \* psld.tcpip_connect_retry and the like
  cause,         \* RTC backup register 19: why the board was last reset
  fault          \* memory was used that belongs to nobody

sys == <<net, es, heap, client_pcb, client_es, mutex, core, ard>>
retries == <<connRetry, bufRetry, busyRetry>>
vars == <<sys, retries, cause, fault>>

-----------------------------------------------------------------------------
(* lwIP: the pool of pcbs is a linked list of free elements, the lists of  *)
(* pcbs are sets.                                                          *)

(* A pcb: its TCP state, whether the callbacks of tcp_client.c are set,    *)
(* their argument, and whether it was closed so that data abort it.        *)
States == {"CLOSED", "SYN_SENT", "ESTABLISHED", "CLOSE_WAIT",
           "FIN_WAIT", "LAST_ACK", "TIME_WAIT"}

PcbRecords == [st : States, cb : BOOLEAN, arg : Blocks \cup {Null}, rxc : BOOLEAN]

Nets == [pcb : [Pcbs -> PcbRecords], active : SUBSET Pcbs, tw : SUBSET Pcbs,
         head : Pcbs \cup {Null}, next : [Pcbs -> Pcbs \cup {Null}]]

FreshPcb == [st |-> "CLOSED", cb |-> FALSE, arg |-> Null, rxc |-> FALSE]

NetInit == [pcb |-> [p \in Pcbs |-> FreshPcb], active |-> {}, tw |-> {},
            head |-> NumPcb, next |-> [p \in Pcbs |-> p - 1]]

(* memp_free: p becomes the head of the list, whatever it was before.      *)
MempFree(n, p) == [n EXCEPT !.next[p] = n.head, !.head = p]

(* The elements of the list, and whether it ends.                          *)
Nth(n) == LET nth[k \in 0..NumPcb] ==
                IF k = 0 THEN n.head
                ELSE IF nth[k - 1] = Null THEN Null ELSE n.next[nth[k - 1]]
          IN  nth
FreeSet(n) == {Nth(n)[k] : k \in 0..NumPcb} \ {Null}
FreeListEnds(n) == Nth(n)[NumPcb] = Null

(* tcp_pcb_remove and memp_free.                                           *)
PcbRemove(n, p) ==
  MempFree([n EXCEPT !.active = IF n.pcb[p].st = "TIME_WAIT" THEN @ ELSE @ \ {p},
                     !.tw = IF n.pcb[p].st = "TIME_WAIT" THEN @ \ {p} ELSE @,
                     !.pcb[p].st = "CLOSED"], p)

(* tcp_slowtmr takes p off its list and frees it; the state stays.         *)
Expire(n, p) == MempFree([n EXCEPT !.active = @ \ {p}, !.tw = @ \ {p}], p)

(* tcp_close.                                                              *)
TcpClose(n, p) ==
  LET m == [n EXCEPT !.pcb[p].rxc = TRUE]
      st == n.pcb[p].st
  IN  CASE st \in {"CLOSED", "SYN_SENT"} -> PcbRemove(m, p)
        [] st = "ESTABLISHED" -> [m EXCEPT !.pcb[p].st = "FIN_WAIT"]
        [] st = "CLOSE_WAIT" -> [m EXCEPT !.pcb[p].st = "LAST_ACK"]
        [] OTHER -> m

(* tcp_new: the head of the pool; without one the pcb of some connection   *)
(* in TIME-WAIT, or of the one waiting for its last ACK, or of any other.  *)
Victims(n) ==
  LET last == {p \in n.active : n.pcb[p].st = "LAST_ACK"}
  IN  IF n.tw # {} THEN n.tw ELSE IF last # {} THEN last ELSE n.active

Take(n) == [n EXCEPT !.head = n.next[n.head], !.pcb[n.head] = FreshPcb]

TcpNew(n) == IF n.head # Null THEN {<<n.head, Take(n)>>}
             ELSE {<<p, Take(PcbRemove(n, p))>> : p \in Victims(n)}

-----------------------------------------------------------------------------
(* A struct client; the chain p_rx is empty, of this connection, or what   *)
(* the block held before.                                                  *)
Structs == [state : {"NOT_CONNECTED", "CONNECTED", "RECEIVED", "CLOSING", "CLOSED"},
            rx : {"none", "own", "old"}]

EsInit == [b \in Blocks |-> [state |-> "NOT_CONNECTED", rx |-> "none"]]

CoreIdle == [pc |-> "idle", p |-> Null, arg |-> Null]

Init ==
  /\ net = NetInit /\ es = EsInit /\ heap = {}
  /\ client_pcb = Null /\ client_es = Null
  /\ mutex = "none" /\ core = CoreIdle /\ ard = "idle"
  /\ connRetry = 0 /\ bufRetry = 0 /\ busyRetry = 0
  /\ cause = "none" /\ fault = FALSE

(* NVIC_SystemReset: only the backup register survives.                    *)
Reboot(why) ==
  /\ net' = NetInit /\ es' = EsInit /\ heap' = {}
  /\ client_pcb' = Null /\ client_es' = Null
  /\ mutex' = "none" /\ core' = CoreIdle /\ ard' = "idle"
  /\ connRetry' = 0 /\ bufRetry' = 0 /\ busyRetry' = 0
  /\ cause' = why

(* mem_free(client_es): what p_rx pointed to is left in the block.         *)
FreeEs ==
  /\ heap' = heap \ {client_es}
  /\ es' = [es EXCEPT ![client_es].rx = IF @ = "none" THEN @ ELSE "old"]
  /\ client_es' = Null

State == es[client_es].state

-----------------------------------------------------------------------------
(* The arduino thread: tcp_client_connect.                                 *)

Idle == ~fault /\ ard = "idle"

(* tcpip_tcp_busy.                                                         *)
Busy == /\ client_es # Null
        /\ State \in {"CONNECTED", "RECEIVED", "CLOSING"}

OpenBusy ==
  /\ Idle /\ Busy
  /\ IF busyRetry >= RetryLimit
     THEN Reboot("TCPIPBUSY")
     ELSE busyRetry' = busyRetry + 1 /\ UNCHANGED <<sys, connRetry, bufRetry, cause>>
  /\ UNCHANGED fault

(* No pcb, status 1, or no block, status 2: the count of failed            *)
(* allocations goes up.                                                    *)
OpenNoMemory ==
  /\ Idle /\ ~Busy
  /\ TcpNew(net) = {} \/ heap = Blocks
  /\ IF bufRetry >= RetryLimit
     THEN Reboot("BUFALLOCRETRY")
     ELSE /\ bufRetry' = bufRetry + 1 /\ busyRetry' = 0
          /\ IF TcpNew(net) = {}
             THEN client_pcb' = Null /\ UNCHANGED <<net, client_es>>
             ELSE \E pn \in TcpNew(net) :
                    /\ client_pcb' = pn[1] /\ net' = MempFree(pn[2], pn[1])
                    /\ client_es' = Null
          /\ UNCHANGED <<es, heap, mutex, core, ard, connRetry, cause>>
  /\ UNCHANGED fault

(* A pcb and the first free block.  Nothing of the block is written yet:   *)
(* it holds what it held, or zeroes other users of the heap left.          *)
Open ==
  /\ Idle /\ ~Busy
  /\ \E pn \in TcpNew(net) : client_pcb' = pn[1] /\ net' = pn[2]
  /\ \E b \in Blocks \ heap :
       /\ \A c \in Blocks \ heap : b <= c
       /\ client_es' = b /\ heap' = heap \cup {b}
       /\ es' \in {es, [es EXCEPT ![b] = EsInit[b]]}
  /\ ard' = "resolve" /\ bufRetry' = 0 /\ busyRetry' = 0
  /\ UNCHANGED <<mutex, core, connRetry, cause, fault>>

(* Status 3 or 4: the pcb and the block are kept.                          *)
DnsFails ==
  /\ ~fault /\ ard = "resolve" /\ "dns" \in Env
  /\ ard' = "idle"
  /\ UNCHANGED <<net, es, heap, client_pcb, client_es, mutex, core, retries, cause, fault>>

OnAList(n, p) == p \in n.active \cup n.tw

(* tcp_connect sends the SYN and puts the pcb on the active list.          *)
Connect ==
  /\ ~fault /\ ard = "resolve" /\ ~OnAList(net, client_pcb)
  /\ es' = [es EXCEPT ![client_es].state = "NOT_CONNECTED"]
  /\ net' = [net EXCEPT !.pcb[client_pcb].st = "SYN_SENT",
                        !.active = @ \cup {client_pcb}]
  /\ ard' = "connWait"
  /\ UNCHANGED <<heap, client_pcb, client_es, mutex, core, retries, cause, fault>>

(* One that is on a list already makes a loop of that list.                *)
ConnectLoops ==
  /\ ~fault /\ ard = "resolve" /\ OnAList(net, client_pcb)
  /\ fault' = TRUE
  /\ UNCHANGED <<sys, retries, cause>>

(* Mutant: one failure too many.                                           *)
CountConnectLate(blocks) ==
  IF connRetry > RetryLimit
  THEN Reboot("CONNECTRETRY")
  ELSE /\ connRetry' = connRetry + 1 /\ ard' = "connFail" /\ es' = blocks
       /\ UNCHANGED <<net, heap, client_pcb, client_es, mutex, core, bufRetry, busyRetry, cause>>

(* The failure counts, and at the limit resets the board.                  *)
CountConnect(blocks) ==
  IF connRetry >= RetryLimit
  THEN Reboot("CONNECTRETRY")
  ELSE /\ connRetry' = connRetry + 1 /\ ard' = "connFail" /\ es' = blocks
       /\ UNCHANGED <<net, heap, client_pcb, client_es, mutex, core, bufRetry, busyRetry, cause>>

(* Status 5.                                                               *)
ConnectNoRoute ==
  /\ ~fault /\ ard = "resolve" /\ "noroute" \in Env
  /\ CountConnect([es EXCEPT ![client_es].state = "NOT_CONNECTED"])
  /\ UNCHANGED fault

ConnOk ==
  /\ ~fault /\ ard = "connWait" /\ State = "CONNECTED"
  /\ connRetry' = 0 /\ ard' = "idle"
  /\ UNCHANGED <<net, es, heap, client_pcb, client_es, mutex, core, bufRetry,
                 busyRetry, cause, fault>>

(* Mutants: no timeout; a timeout shorter than lwIP's SYN retries.         *)
ConnFailsNever ==
  /\ ~fault /\ ard = "connWait"
  /\ State \notin {"NOT_CONNECTED", "CONNECTED"}
  /\ CountConnect(es)
  /\ UNCHANGED fault

ConnFailsSoon ==
  /\ ~fault /\ ard = "connWait" /\ State # "CONNECTED"
  /\ CountConnect(es)
  /\ UNCHANGED fault

(* Status 7: the state went past CONNECTED between two looks, or it did    *)
(* not change for 20 s.  lwIP gives a SYN up after 12.5 s, so by then the  *)
(* pcb is gone, unless the tcpip thread hangs on the mutex.                *)
ConnFails ==
  /\ ~fault /\ ard = "connWait"
  /\ \/ State \notin {"NOT_CONNECTED", "CONNECTED"}
     \/ State = "NOT_CONNECTED" /\ client_pcb \notin net.active
     \/ State = "NOT_CONNECTED" /\ core # CoreIdle /\ mutex = "arduino"
  /\ CountConnect(es)
  /\ UNCHANGED fault

(* Mutant: the pcb is given back by hand as well.                          *)
FailCloseAndFree ==
  /\ ~fault /\ ard = "connFail"
  /\ net' = MempFree(TcpClose(net, client_pcb), client_pcb) /\ ard' = "connFree"
  /\ UNCHANGED <<es, heap, client_pcb, client_es, mutex, core, retries, cause, fault>>

(* tcp_close(client_pcb), then mem_free(client_es).                        *)
FailClose ==
  /\ ~fault /\ ard = "connFail"
  /\ net' = TcpClose(net, client_pcb) /\ ard' = "connFree"
  /\ UNCHANGED <<es, heap, client_pcb, client_es, mutex, core, retries, cause, fault>>

(* Mutant: the pointer goes, the block stays.                              *)
FailForget ==
  /\ ~fault /\ ard = "connFree"
  /\ client_es' = Null /\ ard' = "idle"
  /\ UNCHANGED <<net, es, heap, client_pcb, mutex, core, retries, cause, fault>>

FailFree ==
  /\ ~fault /\ ard = "connFree"
  /\ FreeEs /\ ard' = "idle"
  /\ UNCHANGED <<net, client_pcb, mutex, core, retries, cause, fault>>

-----------------------------------------------------------------------------
(* The arduino thread: reading, and tcpip_tcp_disconnect.                  *)

(* A read takes the chain to its end and releases it.                      *)
Read ==
  /\ Idle /\ client_es # Null /\ mutex = "none"
  /\ es[client_es].rx # "none"
  /\ es' = [es EXCEPT ![client_es] = [state |-> "CONNECTED", rx |-> "none"]]
  /\ UNCHANGED <<net, heap, client_pcb, client_es, mutex, core, ard, retries, cause, fault>>

(* $TD: read_buffer_free(1), then tcpip_tcp_disconnect.                    *)
Disconnect ==
  /\ Idle /\ client_es # Null
  /\ ard' = IF es[client_es].rx # "none" THEN "freeTake" ELSE "closeTake"
  /\ UNCHANGED <<net, es, heap, client_pcb, client_es, mutex, core, retries, cause, fault>>

FreeBody ==
  /\ ~fault /\ ard = "freeTake" /\ mutex = "none"
  /\ es' = [es EXCEPT ![client_es] = [state |-> "CONNECTED", rx |-> "none"]]
  /\ ard' = "closeTake"
  /\ UNCHANGED <<net, heap, client_pcb, client_es, mutex, core, retries, cause, fault>>

(* The branches on the state, under the mutex; the one for CLOSING does    *)
(* not give it back.                                                       *)
CloseTake ==
  /\ ~fault /\ ard = "closeTake" /\ mutex = "none"
  /\ CASE State = "CLOSED" ->
            FreeEs /\ ard' = "idle" /\ UNCHANGED mutex
       [] State = "CLOSING" ->
            mutex' = "arduino" /\ ard' = "closeWait" /\ UNCHANGED <<es, heap, client_es>>
       [] OTHER ->
            /\ es' = [es EXCEPT ![client_es].state = "CLOSING"]
            /\ ard' = "closeWait" /\ UNCHANGED <<heap, client_es, mutex>>
  /\ UNCHANGED <<net, client_pcb, core, retries, cause, fault>>

CloseDone ==
  /\ ~fault /\ ard = "closeWait" /\ State = "CLOSED"
  /\ FreeEs /\ ard' = "idle"
  /\ UNCHANGED <<net, client_pcb, mutex, core, retries, cause, fault>>

(* poll will call the close of this connection.                            *)
PollServes ==
  /\ client_pcb \in net.active /\ mutex = "none"
  /\ net.pcb[client_pcb].cb /\ net.pcb[client_pcb].arg = client_es

(* Thirty seconds: poll cannot close, or the peer's window is shut so that *)
(* p_tx does not drain.  The arduino thread calls connection_close itself, *)
(* without the mutex: first tcp_arg(NULL) ...                              *)
CloseTimeout ==
  /\ ~fault /\ ard = "closeWait" /\ State # "CLOSED" /\ client_pcb # Null
  /\ ~PollServes \/ "stuck" \in Env
  /\ net' = [net EXCEPT !.pcb[client_pcb].arg = Null]
  /\ ard' = "closing"
  /\ UNCHANGED <<es, heap, client_pcb, client_es, mutex, core, retries, cause, fault>>

(* client_pcb is NULL after an open that found no pcb.                     *)
CloseTimeoutNull ==
  /\ ~fault /\ ard = "closeWait" /\ State # "CLOSED" /\ client_pcb = Null
  /\ fault' = TRUE
  /\ UNCHANGED <<sys, retries, cause>>

(* ... then the callbacks, tcp_close and the state.                        *)
CloseRest ==
  /\ ~fault /\ ard = "closing"
  /\ net' = TcpClose([net EXCEPT !.pcb[client_pcb].cb = FALSE], client_pcb)
  /\ es' = [es EXCEPT ![client_es].state = "CLOSED"]
  /\ ard' = "closeWait"
  /\ UNCHANGED <<heap, client_pcb, client_es, mutex, core, retries, cause, fault>>

-----------------------------------------------------------------------------
(* The tcpip thread between callbacks: segments and timers.                *)

Stack(n, callback) ==
  /\ ~fault /\ core = CoreIdle
  /\ net' = n /\ core' = callback
  /\ UNCHANGED <<es, heap, client_pcb, client_es, mutex, ard, retries, cause, fault>>

Call(pc, p) == [pc |-> pc, p |-> p, arg |-> net.pcb[p].arg]

(* Without "early" a peer waits until the arduino thread has seen the      *)
(* connection.                                                             *)
PeerTalks(p) == /\ p \in net.active
                /\ "early" \in Env \/ ard # "connWait"

SynAck(p) ==
  /\ p \in net.active /\ net.pcb[p].st = "SYN_SENT"
  /\ Stack([net EXCEPT !.pcb[p].st = "ESTABLISHED"], Call("connected", p))

(* RST: the pcb is freed and no error callback is registered.              *)
Reset(p) ==
  /\ PeerTalks(p) \/ net.pcb[p].st = "SYN_SENT"
  /\ p \in net.active
  /\ (IF net.pcb[p].st = "SYN_SENT" THEN "refuse" ELSE "rst") \in Env
  /\ Stack(PcbRemove(net, p), CoreIdle)

(* tcp_slowtmr gives up: no answer to the SYN or to data, or FIN_WAIT_2,   *)
(* LAST_ACK and TIME_WAIT are over.                                        *)
GiveUp(p) ==
  /\ OnAList(net, p)
  /\ net.pcb[p].st \in {"SYN_SENT", "ESTABLISHED", "CLOSE_WAIT"} => "silent" \in Env
  /\ Stack(Expire(net, p), CoreIdle)

(* tcp_input aborts a pcb that was closed and still gets data.             *)
Data(p) ==
  /\ PeerTalks(p) /\ net.pcb[p].st \in {"ESTABLISHED", "FIN_WAIT"}
  /\ IF net.pcb[p].rxc THEN Stack(PcbRemove(net, p), CoreIdle)
     ELSE Stack(net, Call("data", p))

Fin(p) ==
  /\ PeerTalks(p) /\ net.pcb[p].st \in {"ESTABLISHED", "FIN_WAIT"}
  /\ net.pcb[p].st = "ESTABLISHED" => "fin" \in Env
  /\ LET n == IF net.pcb[p].st = "ESTABLISHED"
              THEN [net EXCEPT !.pcb[p].st = "CLOSE_WAIT"]
              ELSE [net EXCEPT !.pcb[p].st = "TIME_WAIT", !.active = @ \ {p},
                               !.tw = @ \cup {p}]
     IN  Stack(n, IF net.pcb[p].cb THEN Call("fin", p) ELSE CoreIdle)

LastAck(p) ==
  /\ p \in net.active /\ net.pcb[p].st = "LAST_ACK"
  /\ Stack(PcbRemove(net, p), CoreIdle)

Poll(p) ==
  /\ p \in net.active /\ net.pcb[p].cb
  /\ Stack(net, Call("poll", p))

-----------------------------------------------------------------------------
(* The tcpip thread inside a callback, once it has the mutex.              *)

Running(pc) == ~fault /\ core.pc = pc /\ mutex = "none"

(* es = arg is not an allocated struct client, or client_es is NULL where  *)
(* the callback uses it.                                                   *)
Dangling == core.arg \notin heap \/ client_es = Null

RunConnected ==
  /\ Running("connected") /\ client_es # Null
  /\ net' = [net EXCEPT !.pcb[core.p].cb = TRUE, !.pcb[core.p].arg = client_es]
  /\ es' = [es EXCEPT ![client_es].state = "CONNECTED"]
  /\ core' = CoreIdle
  /\ UNCHANGED <<heap, client_pcb, client_es, mutex, ard, retries, cause, fault>>

(* The pbuf goes to the chain of client_es, the state to arg.              *)
RunData ==
  /\ Running("data") /\ ~Dangling
  /\ es' = IF es[core.arg].state \in {"CONNECTED", "RECEIVED"}
           THEN [es EXCEPT ![client_es].rx = IF @ = "none" THEN "own" ELSE @,
                           ![core.arg].state = "RECEIVED"]
           ELSE es
  /\ core' = CoreIdle
  /\ UNCHANGED <<net, heap, client_pcb, client_es, mutex, ard, retries, cause, fault>>

(* Mutant: the callbacks are not removed.                                  *)
ConnectionCloseBound(p, b) ==
  /\ net' = TcpClose(net, p)
  /\ es' = [es EXCEPT ![b].state = "CLOSED"]

(* tcp_client_connection_close in a callback.                              *)
ConnectionClose(p, b) ==
  /\ net' = TcpClose([net EXCEPT !.pcb[p].cb = FALSE, !.pcb[p].arg = Null], p)
  /\ es' = [es EXCEPT ![b].state = "CLOSED"]

(* With p_tx empty the connection is closed at once, else by a later poll. *)
RunFin ==
  /\ Running("fin") /\ ~Dangling
  /\ \/ ConnectionClose(core.p, core.arg)
     \/ es' = [es EXCEPT ![core.arg].state = "CLOSING"] /\ UNCHANGED net
  /\ core' = CoreIdle
  /\ UNCHANGED <<heap, client_pcb, client_es, mutex, ard, retries, cause, fault>>

RunPoll ==
  /\ Running("poll") /\ core.arg # Null /\ ~Dangling
  /\ IF es[core.arg].state = "CLOSING"
     THEN ConnectionClose(core.p, core.arg) ELSE UNCHANGED <<net, es>>
  /\ core' = CoreIdle
  /\ UNCHANGED <<heap, client_pcb, client_es, mutex, ard, retries, cause, fault>>

(* poll with arg = NULL aborts the connection.                             *)
RunPollAbort ==
  /\ Running("poll") /\ core.arg = Null
  /\ net' = PcbRemove(net, core.p) /\ core' = CoreIdle
  /\ UNCHANGED <<es, heap, client_pcb, client_es, mutex, ard, retries, cause, fault>>

RunDangling ==
  /\ ~fault /\ core # CoreIdle /\ core.pc # "connected" /\ mutex = "none"
  /\ Dangling /\ ~(core.pc = "poll" /\ core.arg = Null)
  /\ fault' = TRUE
  /\ UNCHANGED <<sys, retries, cause>>

-----------------------------------------------------------------------------
Sketch == Open \/ OpenBusy \/ OpenNoMemory \/ Read \/ Disconnect

Arduino == \/ DnsFails \/ Connect \/ ConnectLoops \/ ConnectNoRoute
           \/ ConnOk \/ ConnFails \/ FailClose \/ FailFree
           \/ FreeBody \/ CloseTake \/ CloseDone \/ CloseTimeout
           \/ CloseTimeoutNull \/ CloseRest

Peer == \E p \in Pcbs : Reset(p) \/ Data(p) \/ Fin(p)

Answers == \E p \in Pcbs : SynAck(p) \/ GiveUp(p) \/ LastAck(p)

Callback == \/ RunConnected \/ RunData \/ RunFin \/ RunPoll
            \/ RunPollAbort \/ RunDangling

Next == Sketch \/ Arduino \/ Peer \/ Answers \/ (\E p \in Pcbs : Poll(p)) \/ Callback

Spec == Init /\ [][Next]_vars

(* FreeRTOS runs both threads in turn; a mutex that is free is got.  lwIP's *)
(* timers run between messages, so a SYN is answered or given up.  Nothing *)
(* is assumed of the peer otherwise, nor of the sketch.                    *)
FairSpec == /\ Spec
            /\ WF_vars(Arduino)
            /\ WF_vars(Callback)
            /\ \A p \in Pcbs : SF_vars(SynAck(p) \/ GiveUp(p)) /\ SF_vars(Poll(p))

-----------------------------------------------------------------------------
(* Properties.                                                             *)

(* Types; the retry counters stay within their limits, the reset of the    *)
(* board being part of the step that counts.                               *)
TypeOK ==
  /\ net \in Nets
  /\ es \in [Blocks -> Structs]
  /\ heap \subseteq Blocks
  /\ client_pcb \in Pcbs \cup {Null} /\ client_es \in Blocks \cup {Null}
  /\ mutex \in {"none", "arduino"}
  /\ core \in [pc : {"idle", "connected", "data", "fin", "poll"},
               p : Pcbs \cup {Null}, arg : Blocks \cup {Null}]
  /\ ard \in {"idle", "resolve", "connWait", "connFail", "connFree",
              "freeTake", "closeTake", "closeWait", "closing"}
  /\ {connRetry, bufRetry, busyRetry} \subseteq 0..(RetryLimit)
  /\ cause \in {"none", "CONNECTRETRY", "BUFALLOCRETRY", "TCPIPBUSY"}
  /\ fault \in BOOLEAN

(* The pool of pcbs is a list that ends, and a pcb in it is on none of     *)
(* lwIP's lists: tcp_client.c closes every pcb it opened exactly once.     *)
PoolIntact ==
  /\ FreeListEnds(net)
  /\ FreeSet(net) \cap (net.active \cup net.tw) = {}

LostBlocks == heap \ {client_es}
LostPcbs == Pcbs \ (FreeSet(net) \cup net.active \cup net.tw \cup {client_pcb})

(* Memory is lost in one way only: by a connect that overwrites client_es  *)
(* of a connection the peer has closed, or client_es or client_pcb of a    *)
(* connect whose name was not resolved.  No error path, no disconnect, no  *)
(* reset by the peer and no timeout of lwIP loses a block, nor a pcb as    *)
(* long as the pool is not broken.                                         *)
LeakCauses ==
  [][LET connects == ard = "idle" /\ (ard' = "resolve" \/ bufRetry' = bufRetry + 1)
     IN  /\ LostBlocks' \ LostBlocks # {} =>
              connects /\ client_es # Null /\ ~Busy
         /\ FreeListEnds(net)' /\ LostPcbs' \ LostPcbs # {} =>
              /\ connects /\ client_pcb # Null
              /\ net.pcb[client_pcb].st = "CLOSED" /\ ~net.pcb[client_pcb].cb]_vars

(* A pcb lwIP still serves calls back into tcp_client.c only if it is the  *)
(* pcb of the present connection, with the struct client of that           *)
(* connection, which is allocated.  Only the close the arduino thread does *)
(* itself passes through a state in which the argument is gone and the     *)
(* callbacks are there.                                                    *)
CallbackBinding ==
  \A p \in net.active : net.pcb[p].cb =>
     /\ p = client_pcb /\ client_es \in heap
     /\ net.pcb[p].arg = client_es \/ ard = "closing"

(* A callback that gets the mutex, however long it waited for it, finds    *)
(* the struct client it was called with, and client_es, still allocated.   *)
NeverDangling ==
  mutex = "none" =>
     /\ core.pc \in {"data", "fin"} => ~Dangling
     /\ core.pc = "poll" => ~Dangling \/ core.arg = Null
     /\ core.pc = "connected" => client_es \in heap /\ client_pcb = core.p

(* Every connect and disconnect the sketch starts comes back.              *)
ClientReturns == ard # "idle" ~> (ard = "idle" \/ fault)

-----------------------------------------------------------------------------
(* What the repository says of this code and the code does not keep.       *)

(* tcp_close of a pcb that is closed already "is erroneous, but this       *)
(* should never happen" (lwIP's tcp.c): the pcb tcp_client.c is about to   *)
(* close is not in the pool.                                               *)
CloseOnce == ard \in {"connFail", "closing"} => client_pcb \notin FreeSet(net)
=============================================================================
