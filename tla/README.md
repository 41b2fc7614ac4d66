# A verification of the phs_shield firmware

The firmware in `src/` runs on the STM32F4 of a PHS modem shield for the
Arduino. It takes text commands from the Arduino over a UART (`$TC` connect,
`$TR` read, `$TD` disconnect, ...), drives the modem with AT commands, runs PPP
over it, and offers TCP and mail to the sketch. It is built on FreeRTOS, lwIP
and ST's HAL, which are vendored in `src/` and belong to the environment here.

This directory holds TLA+ models of its concurrent core and of the protocols
around it, TLC configurations that check them, and TLAPS proofs about them. All paths below are relative to
`src/`; `PROJECT.json` maps every definition to the lines it stands for.

- [1. The system](#1-the-system)
- [2. The plan](#2-the-plan)
- [3. Modules and code](#3-modules-and-code)
- [4. What the runs show](#4-what-the-runs-show)
- [5. Fairness](#5-fairness)
- [6. What is proved](#6-what-is-proved)
- [7. Where the code breaks a promise](#7-where-the-code-breaks-a-promise)
- [8. What is not modelled](#8-what-is-not-modelled)

## 1. The system

### Threads

| thread | code | what it does in a turn |
|---|---|---|
| control | `main.c:90-172` | `profile_update`, a requested change of mode, ring calls, power pins, monitor |
| arduino | `main.c:200-243` | watchdog, `modem_ppp_linkup_surveillance`, one command of the sketch (`arduino_api.c`) |
| lwip | `lwip_ppp.c:73-145` | opens a PPP session, waits for its outcome, closes it, waits for a restart |
| ppp_rx | `lwip_ppp.c:150-195` | reads the modem's UART and feeds PPP |
| tcpip | lwIP | timers, segments, PPP phases; runs the callbacks of `tcp_client.c` and `ppp_link_status_cb` |
| print, interrupts | `phs_shield_msp.c` | DMA transfers, ring interrupt, the watchdog's timer |

All threads have one priority and are time-sliced. What they share is
`psld` (`phs_shield.h`, no lock), the struct client `client_es` and
`client_pcb` (the mutex `semaphore_tcp`, not everywhere), lwIP's own
structures (which the raw API expects to be used from the tcpip thread only),
and the UART rings.

### Components

| component | state | operations | what makes it correct |
|---|---|---|---|
| TCP client, receive side | `client_es->state`, pbuf chain `p_rx` with `len`/`tot_len`, `semaphore_tcp` | `tcp_client_recv`, `poll`, `tcpip_tcp_read`, `read_buffer_free`, `tcpip_tcp_disconnect` | the sketch gets the byte stream in order and once, and loses unread bytes only all together; state and chain agree; every command comes back |
| TCP client, lifecycle | `client_pcb`, `client_es`, heap block, lwIP's pcb pool and lists, retry counters | `tcp_client_connect` and its error paths, `connection_close`, `disconnect`, callbacks | every pcb and block is given back once; a callback finds the struct it was bound to |
| TCP client, transmit side | chain `p_tx` | `tcpip_tcp_write`, `tcp_client_send`, `tcp_client_sent` | bytes accepted are sent in order, once |
| PPP link supervision | `modem_status`, `ppp_enable/done/restart`, `ppp_linkup_retry`, profile and its changed flag | redial, link check, surveillance, change of mode, `lwip_main`, `ppp_link_status_cb` | a wanted link that is lost comes back, or the board is reset; `PPP_LINK` means a session |
| UART receive | circular DMA buffer, tail, canonical mode, read timeout | `uart_available`, `uart_getchar`, `uart_read` | characters in order; loss only by a full ring |
| UART transmit, printf queue | `queue_uart`, transfer in progress | `PrintChar`, `printf_queued_push/flush`, `uart_send` | a buffer in transfer is not written |
| AT engine | `modem_private` | `modem_command`, `atcmd_read_result`, `atcmd_parse_result`, `modem_escape` | an answer is matched with its command |
| Light mail, ring | `mail` buffers, ring flag | `modem_lightmail`, `modem_check_ringcall`, `modem_mail_write/read` | a mail is announced once |
| Command interpreter | the received line | `arduino_api` and one function per command | one answer per command |
| Watchdog, stop mode | watchdog counter, backup register 19 | refresh, count, reset, `power_saving` | a hanging arduino thread resets the board |
| Flash, RTC | sectors; calendar | write/erase/read; `rtc_time_synchronize` | what is reported as written is; the date is valid |
| Monitor | console flags | developer commands, `xm`/`xa` | the console stays connected |

Components call each other directly; the only messages are lwIP's callbacks.
`$TC` goes through `modem_ppp_link_check` (which may redial for a minute)
before it reaches `tcp_client_connect`; `$TR` and `$TD` go to the receive
side; `rtc_time_synchronize` is a second client of it.

### Hard behaviours

`PROJECT.json` lists 39 hazards with their lines. The main groups:

- *unlocked tests before locked bodies*: `read_buffer_free` looks at `tot_len`,
  `tcpip_tcp_read` at `p_rx` and the state, before they take the mutex;
- *polling for a state that another thread moves on*: `tcp_client_connect` waits
  for `ES_CONNECTED` in steps of 10 ms, `lwip_main` and the redial wait for
  `modem_status` in steps of 500 ms;
- *ownership of lwIP objects on error paths*: who frees the pcb after a refused,
  timed out, reset or half-closed connection;
- *memory that is not cleared*: a struct client is freed with its `p_rx` and `p_tx`
  and the next one is not initialised, a connect over a closed connection forgets
  the struct;
- *flags that several threads set and clear*: `modem_status`,
  `profile_number_changed`, `ppp_restart`, `ppp_linkup_retry`;
- *recovery by several mechanisms at once*: surveillance, redials, retry
  counters and the watchdog reset the board, each under its own condition;
- *producers that do not wait*: the DMA behind a UART ring, a peer that goes on
  sending, a sketch whose command is still arriving while it is parsed;
- *protocols without names or lengths*: an AT answer does not say which command
  it answers, a command of the sketch ends where the characters stop coming.

## 2. The plan

Most important behaviour first; all of it is done.

1. `ByteStream` (abstract), `TcpRx`: the receive path, refinement, proofs.
2. `TcpClient`: life of connections over lwIP's pool, proofs.
3. `PppLink`: supervision of the link, with liveness and proofs.
4. `TcpTx`: the chain of `p_tx`, the send loop against a forced close, proofs.
5. `LossyStream` (abstract), `UartRing`: DMA head, tail, canonical mode, the
   timeout; refinement, proofs.
6. `AtDial`: the AT dialogue that ends in `CONNECT`, with a late modem, rings
   and a second reader of the line, proofs.
7. `FlashStore` (operators), `ArduinoStore`: `$RW` and `$RR` from the characters
   to the flash, proofs.
8. `DataInduction`: the induction over numbers, sequences and sets of positions that the
   proofs of 1, 2 and 7 share.

`TcpRx`, `TcpTx` and `TcpClient` describe the same functions from three sides:
each keeps the full control of `tcp_client.c` as far as its own data can see it
(the chain `p_rx`, the chain `p_tx`, the pcbs and blocks) and leaves the others
a choice. `ArduinoStore` extends `FlashStore`. What the modules take from each
other's results: `PppLink` that a dialogue ends (`Dials`) and a read returns
(`ReadReturns`), `AtDial` that a call in canonical mode returns one line
(`OneLine`), `ArduinoStore` that the characters come in order (`StreamSpec`).

## 3. Modules and code

### ByteStream

The promise of the receive side to the sketch. State: how many bytes the stack
has acknowledged, which of them are unread, what earlier connections left unread
(`remains`), what the last read returned. A read returns a prefix of what is
unread; everything unread may be dropped at once (`Discard`), or stay behind
(`Leave`), and a later connection may begin with it, whole and once (`Resume`).

### TcpRx

`tcp_client.c`'s receive side with both threads. A step is a stretch of code in
which the other thread can see or change no difference: the body of a critical
section, or one unprotected access. `core` is the tcpip thread's place (waiting
for the mutex with a segment, with a FIN, between linking and recording,
closing); `ard` is the arduino thread's.

| definition | code |
|---|---|
| `NotBusy` | `tcpip_tcp_busy` |
| `Connected`, `Unresolved`, `ConnectFails` | `tcp_client_connect` with `tcp_client_connected`, by outcome |
| `TakeBlock` | its `mem_malloc`: what is in `p_rx` |
| `RecvLink`, `RecvEnd`, `RecvDrop`, `RecvFin` | `tcp_client_recv` |
| `PollCloses`, `CallbackCloses` | `tcp_client_poll`, `tcp_client_connection_close` |
| `ReadCall`, `ReadWakes`, `ReadTimeout`, `ReadBody`, `ReadNull` | `tcpip_tcp_read` |
| `FreeCheck`, `FreeBody` | `tcpip_tcp_read_buffer_free`, its unlocked test and its body |
| `CloseCall` ... `CloseDone` | `$TD` and `tcpip_tcp_disconnect`; `Release` is its `mem_free` |
| `WildUsed`, `ReadNull` | a `p_rx` that is wild or NULL is followed |
| `Watchdog` | `watchdog_timer.c`, when the arduino thread waits for its own mutex |

No connect sets `p_rx`, and a struct client is freed with what it points to. So
`remains` holds the chains that freed blocks still point to, and a connection takes
one of them over, or a NULL, or other data of the heap (`TakeBlock`); `origin` says
which it was, until `FreeBody` sets `p_rx` to NULL. `Connected` and `ConnectFails`
may come over a closed connection, whose struct is then forgotten with its chain
for good. After `Unresolved` even the state is what the block held: one a freed
block has, or zero. Only `p_rx` is modelled as wild, other fields of such a struct
are not. That a peer talks before the wait in `tcp_client_connect` has seen
`ES_CONNECTED` is in `TcpClient` (`"early"`).

A pbuf is its unread payload and its `tot_len`; bytes are numbered in the order
in which they are acknowledged, so order and loss can be seen. `Link` is
`pbuf_chain` as used there; `Consume` is the arithmetic of the read, including
that the head's `tot_len` mirrors that of the pbuf that was read. `p_tx` is
only busy or not. `fault` stands for a dereferenced NULL or freed pointer; the
model stops there. The argument of `read_buffer_free` that
`rtc_time_synchronize` leaves out (`rtc.c`) is any value.

### TcpClient

The life of connections. `heap` and `es` are the blocks a struct client can be
in; a freed block keeps its content, and an allocation finds it (the heap reuses
the first fit) or zeroes. `net` is lwIP: per pcb its state, callbacks and
argument, the active and TIME-WAIT lists, and the pool as the linked list it is,
so that a second `memp_free` makes a loop of it, as in the code. `tcp_new` falls
back on killing pcbs in TIME-WAIT, LAST-ACK and then any. A callback is entered with the
argument the pcb has then (`core`) and runs when it has the mutex.

`tcp_client_connect` is `Open`, `OpenBusy`, `OpenNoMemory`, `DnsFails`,
`Connect`, `ConnectNoRoute`, `ConnOk`, `ConnFails`, `FailClose`, `FailFree`;
the reset of the board at a counter's limit is part of the step that counts.
Every raw call into lwIP is one step. `Env` names what may go wrong outside
(refused, silent, reset, ...), so that a run can say under which environment a
property holds.

### PppLink

`modem_status` and the flags around it, shared by five threads. Both the control
and the arduino thread can be in a redial (`pc`), each step of which is a point
at which another thread acts: the escape takes 2 s, the reset, `ATZ`, `CONNECT`,
raw mode, the 3 s delay, the wait for the link. `phase` is lwIP's PPP session as
the callback and `pppapi_open/close` see it; `mstate` is DATA (reads return at
once) or IDOL (reads time out, which `ppp_rx_thread` takes for a hangup).

Times are modelled only where the code depends on their order, in named guards:

- `Settled`: before `DialAtz` (about 2 s after the reset) and `DialRestart`
  (3 s after `CONNECT`) `lwip_main`, which polls every 500 ms, has reached one
  of its waits;
- `SessionUp` does not happen between `CONNECT` and the return to raw mode,
  since a negotiation takes several round trips;
- `CheckWaited` and `LinkTimeout` have no clock: they may come at any time.
  `LinkTimeout` has no guard on the status because the loop at `modem.c:1019-1025`
  treats a link seen in its last turn as a timeout.

`Inputs` is what the sketch, the operator and the network do. Without `"hasty"`
a sketch waits for a change of mode to end before its next command.

### TcpTx

The transmit path. The unit is a pbuf, numbered in the order of writing; `live`
are the allocated ones, so a number in `chain` that is not in `live` is a
dangling pointer. `Behind` is what `tcpip_tcp_write` does to the chain
(`p_tx->next = ptr`, whatever was there). `SendWrite`, `SendFree` and `SendEnds`
are a turn of the loop of `tcp_client_send`, split where the close that
`tcpip_tcp_disconnect` does after its timeout, without the mutex, can fall into
it (`ForceClose`). `Poll`, `Acked` and `Fin` are the callbacks that enter the
loop, `PollCloses` the one that closes; `PeerReset` is lwIP freeing the pcb
without telling the client, as no `tcp_err` is registered. `room` is
`tcp_sndbuf` in pbufs; `SendEnds` also stands for `ERR_MEM`. `Connected` and
`ConnectFails` may come over a closed connection, as `tcpip_tcp_busy` lets them
(`NotBusy`), and forget its struct with the chain; `BufferReleased` is
`read_buffer_free`, which makes any state `ES_CONNECTED`. A struct whose name was
not resolved has no `p_tx` that anybody wrote: no behaviour goes on from there.

### LossyStream and UartRing

`LossyStream` is what a ring promises: bytes once and in order, and one kind of
hole, all unread bytes at once when `Capacity` were unread.

`UartRing` has the DMA (`Arrive`: it writes at `head` and knows no tail) and one
reading thread in `uart_read`: `ReadCall`, the wait loop `WaitTurn` and
`TimesOut`, and `CopyByte`, each of whose turns is one `uart_getchar`.
`Pending` and `Available` are `uart_available` with and without canonical mode.
`Elapsed` is the loop's arithmetic on the tick with `TickMod` for 2^32: the
sum with `0x7fffffff` when the tick has wrapped gives a large number. A
`phantom` is the 0 that `uart_getchar` returns when it finds nothing.

### FlashStore and ArduinoStore

`FlashStore` holds the storage as operators on its contents: programming clears
bits (`And`), a word is verified after it was programmed, and `Written` is every
outcome of the loop of `flash_sector_write`, with the count that comes back. A
byte has two bits, which is enough for bits that stay set or not.

`ArduinoStore` is `arduino_api` for `$RW` and `$RR`, over the characters in the
receive ring of UART5. Time is the number of characters: `need` is how many
arrive in a wait at the line's rate, and a wait may end with fewer only when the
sketch pauses (`late`). `Dispatch` is the search for `$xx`; `PutHeader`,
`SaveByte`, `SaveWait`, `SaveWaited`, `PutWrite` are `$RW`, with `rb` the
`uint16_t received_byte`; `GetRead` is `$RR`. The sketch's side (`Text`,
`Escaped`) is external: it is what the loop expects, since `$"`, `$$` and `$xHH`
are what it undoes.

### AtDial

`modem_initialize_sequense` and the dialling after it, at boot and in a redial.
Commands are numbered; a line is its result and, for the properties only, the
command it answers. `Send` is `atcmd_send` with the second flush of
`modem_setup`, `Read` is `atcmd_read_result`, `ReadTimeout` its timeout, `Again`
the two retry loops. The modem (external) answers in order, may refuse anything,
and may be `late`, that is slower than the code waits. `Ring` is a line nobody
asked for, `Steal` a line that the ring check or `ppp_rx_thread` reads.

## 4. What the runs show

TLC, two workers. "States" are distinct states.

| run | checks | bounds | states |
|---|---|---|---|
| `rx_safety` | `TypeOK`, `StateBuffer`, `TotLenSum`, `NoListError`, `ReadHasData`, the refinement `ByteStreamSpec`, `CommandReturns` | 4 bytes; segments of one pbuf (1 or 2 bytes) or two; reads of 0, 1, 2 bytes | 355,976 |
| `client_pool` | `PoolIntact` | 3 pcbs, 2 blocks, retry limit 1; lost routes, unresolved names | 1,124,068 |
| `client_binding` | `TypeOK`, `CallbackBinding`, `NeverDangling`, `LeakCauses` | 2 pcbs, 2 blocks, retry limit 1; routes, names, refusals, silence, resets, early close | 2,565,704 |
| `client_live` | `ClientReturns` | 2 pcbs, 1 block; refusals, silence, resets, a window shut for good | 98,733 |
| `ppp_link` | `TypeOK`, `LinkMeansSession`, `SurveillanceArmed`, `LinkRecovers`, `ModeServed` | retry limit 1 (the code's); all inputs except `"hasty"` | 46,522 |
| `tx` | `TypeOK`, `InOrder`, `FaultOnlyAfterForce`, `LeakCauses`, `Drains` | 7 pbufs in writes of 1 or 2; pool of 4, send buffer of 2, retry limit 1 | 84,380 |
| `uart` | `TypeOK`, `PhantomOnlyWhenLapped`, `OneLine`, `TimeoutHonoured`, the refinement `StreamSpec`, `ReadReturns` | ring of 3, 6 bytes with any of them `\n`; requests of 1 and 4; timeouts 0 and 2; tick of 4 values | 789,649 |
| `store` | `TypeOK`, `DecodedRight`, `NoStray`, `ReadsItsSector`, `StoredReadsBack`, `WritesItsSector`, `CommandEnds` | 2 commands; sectors 0, 1, 112, 257; three messages; sectors of 2 words of 2 bytes; buffer of 4 | 341,648 |
| `at_dial` | `TypeOK`, `InStep`, `ConnectedIsSet`, `Dials` | 5 settings (the code's); 2 attempts at boot; 2 rings, 2 stolen lines | 38,966 |
| `rx_mutex`, `client_refused`, `tx_lost` | one property each that a comment or a document states and the code breaks (section 7) | | |

Why the bounds are enough. In `rx_safety` a segment can be split over reads, a
read can end inside a pbuf, at its end and at the end of a chain, a chain can
have up to four pbufs made of several segments, partly read, and connections follow
one another without a bound: one can leave a chain behind, another take it over,
link to it, read from it and leave it behind again, or up to four chains can stay
behind at a time. With 2 pcbs one connection can linger in the stack while the
next is open; with 3 there is room for two lingering ones and for reuse from the
TIME-WAIT list. Two blocks allow a stale block beside the present one. A retry
limit of 1 reaches both sides of every comparison with it; for `PppLink` it is the value of
`phs_shield.h:103`, and for any limit see section 6. The model of `PppLink` has no
other bound.
In `tx` a chain can grow to four pbufs, be cut by a write, exhaust the pool and be
sent in two parts, on several connections one after the other. In `uart` the ring
can be lapped twice, a request can be longer than the ring, and every place of a
line end and of the tail relative to the end of the buffer comes up. In `store`
the messages need each kind of escape, end inside a word, and overfill the
buffer; the waits are as long, relative to the commands, as in the code; the
sector numbers have one and three digits, are above 128 and above 255; two
commands are enough for a write onto a sector that is written already and for
remains of the first command to meet the second. In `at_dial` one late answer
and two rings can be combined with every refusal.

What the properties say:

- `StateBuffer`: outside the mutex a `RECEIVED` connection has a chain and a
  `CONNECTED` one has none, but for a `p_rx` that was in its block before it.
  `ReadHasData`: the state and `p_rx`, tested without the mutex, never send a read
  into the chain of an open connection that has none.
- `TotLenSum`, `NoListError`: after any mix of arrivals and partial reads the
  `tot_len` of the head, on which the release depends, is what is unread.
- `ByteStreamSpec`: `TcpRx` implements `ByteStream` under the mapping
  *acknowledged bytes, flattened chain, flattened chains of the freed blocks, last
  read*. The sketch may get bytes that an earlier connection left; it gets them
  in order, in front of its own, and never twice.
- `CommandReturns`, `ClientReturns`: no read, connect or disconnect hangs, not
  even when the callbacks are gone, a peer refuses, resets, falls silent or shuts
  its window: the 30 s timeout then ends the wait. `"fin"` is not in the
  environment of `client_live`: after a close by the peer the mutex may have
  leaked (`rx_mutex`), and a later disconnect then waits for ever.
- `PoolIntact`: with a peer that answers and does not close first, every pcb is
  given back exactly once. With other peers it fails, see section 7, so the
  environment of the run is part of the statement.
- `LeakCauses` (of `TcpClient`): in the whole environment a block or a pcb is lost
  only by a connect that overwrites `client_es` or `client_pcb`, after a close by
  the peer or a name that was not resolved; no error path loses one.
- `CallbackBinding`, `NeverDangling`: even after the double frees of section 7 a
  callback that runs belongs to the present connection and to an allocated
  struct, as long as no peer talks before the sketch's connect has returned.
- `LinkMeansSession`: no thread leaves `PPP_LINK` behind when its session ends.
- `SurveillanceArmed`: `ppp_linkup_retry`, which silences the surveillance, is
  only positive while a thread redials. It depends on the limit being 1: with
  2 a redial in vain leaves the count at 1 and the surveillance off.
- `LinkRecovers`: a link that is wanted and is not up comes up or the board is reset.
- `ModeServed`: a requested change of mode is marked as served.
- `InOrder`, `Drains`: what is handed to lwIP is in the order of writing and once,
  whatever links were overwritten; a chain that can be sent is sent, also while
  the connection is being closed.
- `FaultOnlyAfterForce`, `LeakCauses` (of `TcpTx`): the dangling `p_tx` of
  `connection_close` is used only after a forced close, and a pbuf is lost in three
  ways only: a write that overwrites a link and, after a write on a closed
  connection, its disconnect or a connect over it.
- `StreamSpec`: `UartRing` implements `LossyStream` under the mapping *bytes
  arrived, ring from tail to head, last byte copied*. `PhantomOnlyWhenLapped`,
  `OneLine`: the count made before the copying stays right while the DMA goes on.
- `TimeoutHonoured`, `ReadReturns`: across a wrap of the tick a read neither waits
  for ever nor gives up early; after the wrap it does give up at the next turn,
  which the property names.
- `DecodedRight`, `NoStray`, `CommandEnds`: however the characters of `$RW` are
  split by the waits, the data reach the flash as the sketch meant them and no
  rest of them is taken for a command; with pauses the command still ends, though
  `received_byte` may run below zero. `NoStray` is about messages that need no escape
  behind the end of the buffer (`Plain`), as no message that fits in a sector does: the
  loop stops when the buffer is full and would leave the `$` of such an escape.
- `StoredReadsBack`, `WritesItsSector`, `ReadsItsSector`: what an answer says of
  the storage, with the exceptions of the code spelled out: the full count when
  already the first word fails, numbers cut to eight bits, sector 0, and the third
  digit that `$RR` does not wait for.
- `InStep`, `ConnectedIsSet`: a modem in time never gets the dialogue out of step; a
  late one by one answer at most, so that at most one refused setting can pass for an
  accepted one. `Dials`: with a modem in time every dialling ends.

With `"hasty"` in `Inputs` the safety properties of `PppLink` still hold (597,152
states), but `LinkRecovers` does not: when both threads redial, the arduino
thread can return to raw mode while the control thread is in its dial loop,
whose reads then no longer wait; the escape is before the loop
(`modem.c:993`), `modem_status` is `MODEM_ATZ`, which the surveillance ignores,
and the arduino thread goes on refreshing the watchdog. The window is narrow and
no document promises anything for it, so it is noted here and is not a run.

With `"early"` in `Env` (a server that talks at once) `CallbackBinding` and
`NeverDangling` fail; with `"refuse"`, `"silent"`, `"rst"` or `"fin"` `PoolIntact` does.

`CHECK_DEADLOCK FALSE` is in every configuration: a sketch and a peer may
stop for good, `fault` ends a behaviour, and so does a connected modem.

## 5. Fairness

- Threads: FreeRTOS time-slices threads of equal priority, so a thread that can
  go on does: `WF` of each thread's steps. A mutex goes to its oldest waiter, so
  a thread that is again and again able to take it does: `SF` in `TcpRx`.
- lwIP's timers run between messages (`tcp_slowtmr` every 500 ms): `SF` of
  `Poll`/`PollCloses`, and of the answer to a SYN or its giving up.
- PPP: LCP's own timeouts and echo requests end a session that is opening,
  closing, or up without a carrier: `SF` of `GivesUp`.
- The modem eventually answers an `ATZ` and connects: `SF` of `DialAtz` and
  `DialAtd`. Without it the watchdog (arduino thread) or nothing (control
  thread) ends a redial; the code dials forever there too.
- `ModeChange`: `SF`, the flag is tested in each turn of the control thread,
  which other inputs only interrupt.
- `TcpTx`: the tcpip thread and the arduino thread go on (`WF`); polls come every
  half second and a peer that is there acknowledges, against an arduino thread
  that takes the mutex again and again (`SF`). A peer may reset or fall silent:
  `Drains` ends with the registration of the pcb.
- `UartRing`: `WF` of the reading thread. Nothing is assumed of the line.
- `ArduinoStore`: what the sketch has sent arrives (`WF` of `Arrive`) and the arduino
  thread goes on.
- `AtDial`: the dialling thread and the modem go on (`WF`), and the modem does not
  refuse one command for ever (`SF`), as for `DialAtz` above. That its answers are
  in time is the hypothesis of `Dials`, not a fairness condition.
- `TcpRx`: the watchdog counts in the interrupt of a timer, whatever the threads do:
  `WF` of `Watchdog`.
- Nothing is assumed of the peer, of `SessionUp`, of the draining of `p_tx`, of
  ring calls, the operator or the commands of a sketch.

## 6. What is proved

By TLAPS, for every value of the constants that satisfies the named assumption
of the module (`RxAssumption`, `ClientAssumption`, `PppAssumption`,
`TxAssumption`, `RingAssumption`, `DialAssumption`, `FlashAssumption` with
`StoreAssumption`, `SizeAssumption` and `TextAssumption`); a theorem that needs more
says so. Every theorem below that a run also checks is listed in `PROJECT.json`.

**`DataInduction`** holds the induction the other proofs need, in a form that has
no operator as a parameter: a set of naturals that contains 0 and with `n` also
`n + 1` is `Nat` (`SetInduction`, from `LeastElement`). Each use gives the set of
the numbers for which its statement holds. On it rest the lemmas on the iteration
of a function (`IterateExists`, `IterateUnique`; an iteration that comes back to a
place it was at stays on a cycle, `IterateRepeats`, and one that reaches 0 among `N`
values does so within `N` steps, `IterateShort`) and those that cut and join
sequences. A recursive function of the model or of a community module is a
`CHOOSE` over its equation; that a solution exists is shown by the same induction
(`FlattenEquation`, and `FoldExists` for the folds over a set of positions that
`FoldLeft` is made of), and then the equation can be used. `FlattenAppend` and
`FlattenFront` say what flattening does to a sequence that grows at the end or loses
bytes of one part behind empty ones.

**`TcpRxProofs`**: `TypeCorrect`, `StateBufferHolds`, `ReadHasDataHolds`,
`NoListErrorHolds`, `TotLenSumHolds`, `RxImplementsByteStream`. The inductive
invariant is `TypeOK`, `AllCover` and `Control`. What is said of the chain in use must
also be said of the chains of freed blocks, any of which may be the next one in use:
`Chains` is all of them, and `Moves` the few things a step other than a link or
a read does to them (leaves them, drops one, leaves one behind, takes one over, resets).

- `AllCover`: each pbuf's `tot_len` is at least what is left in it. `TypeOK` alone
  is not inductive, as a read subtracts from `tot_len`, which must not go below
  zero.
- `LockInv`: the tcpip thread holds the mutex exactly in the two stretches of a
  callback that are not one step; `BufferInv`: how state, chain and `origin` agree
  *inside* the critical section as well, where `StateBuffer` says nothing;
  the arduino thread is in a command only on an allocated struct client; and
  `ReadHasData` itself.

`NoListErrorHolds` needs `DrainInv` on top. `NoListError` speaks of the data in the
whole chain, the code decides by the `tot_len` of the first pbuf only. `Counted`
ties the two without a sum: behind the first pbuf with data every pbuf has
data and its `tot_len` is its own length plus the next one's `tot_len`; the head
mirrors the `tot_len` of that first one; and a chain without data has a head of 0. So
a read that empties the chain sees 0 and releases it, and only the release that is
already under way ever meets a drained chain. No chain of a freed block is drained.

Lemmas say what `Pbuf`, `Link` and `Consume` return; then there is one step per
action.

`TotLenSumHolds` adds the sum (`AllSummed`): the head's `tot_len` is the length of the
flattened chain. `LinkBytes` says that linking a segment appends its bytes to the
flattened chain, `ConsumeBytes` that what a read takes is a prefix of it and the rest
stays; both rest on `FlattenAppend` and `FlattenFront`. `Counted` is needed for the
second: it says that the `tot_len` the head mirrors is that of the pbuf that was read.

`RxImplementsByteStream` is the step simulation with the same two lemmas: `RecvLink`
is `Accept`, a read that finds data is `Deliver`, a release of the chain is
`Discard`, the freeing of the struct `Leave`, a connect `Discard` or `Resume`, the
watchdog `Reset`, and all other steps stutter. `SegInv`, that the segment under way is one
the stack may deliver, ties a stretch of the callback to the parameter of `Accept`.
The mapping forgets how bytes are divided into pbufs, so two chains could become one
element of `remains`, and `Resume` would take both: `Apart`, that no byte is in two
chains, excludes it.

**`TcpClientProofs`**: `ClientTypeCorrect` for every environment,
`CallbackBindingHolds`, `NeverDanglingHolds` and `LeakCausesHolds` under `Patient`: no
peer that talks before the connect has returned or keeps its window shut for good; and
`PoolIntactHolds` under `Helpful`. For the first three nothing is
assumed of the pool: it may be broken by the double frees of section 7. First come
lemmas on lwIP's operations, which say only what they do to the active list
and to the pcbs other than the one they are called for (`Others`, `Fewer`, `Becomes`,
`Closes`); for instance that a second `memp_free`, whatever it does to the pool, puts
nothing on the active list. The inductive invariant is `TypeOK`, `Owned` (a command
is under way only on an allocated block) and `Control`:

- `Binding`: whoever calls back is the pcb of the present connection, which is
  open;
- `Quiet`: nobody calls back where the arduino thread gives a pcb or a block away;
- `Opening`: a SYN is out only while the connect waits for its answer, or with the
  mutex leaked;
- `Receiving`: a pcb that passes data up has its callbacks or is about to get them;
- `Pending`: a callback that can still get the mutex is one of the present connection.

`NeverDangling` alone is far from inductive: that the struct of a waiting callback is
not freed depends on where the arduino thread can be while it waits. Most steps
before, between and after connections keep `Silent`, which implies `Control`.
`CloseTimeoutControl` has the argument that makes the forced close safe: it only
comes when poll cannot close, and then the mutex is gone for good.

The pool is the iteration of `Follow`, the step from a pcb to the next one, from the
head (`PoolIs`: the set the model computes is what that iteration visits before it
reaches 0). `PoolPut`: `memp_free` of a pcb leaves a list that ends exactly if the pcb was
not on it and the list ended before, and then adds that pcb; `PoolGet`: taking the head
keeps it. `RemoveReturns`, `CloseReturns` and `TcpNewKeeps` carry this to the operations
`tcp_client.c` calls.

`LeakCausesHolds` is an action property with the invariant `TypeOK`, `Owned`,
`Control` and `Unused`: if the pool ends and `client_pcb` is on none of lwIP's lists,
it was never connected. Only a pcb that leaves the lists without going to
the pool could be lost, and `Unused` says which one that is. `Control` is needed for one
step: a pcb that has been connected is the present one, so `RunConnected` puts no
other into a state in which it could be forgotten.

`PoolIntactHolds` is about `Helpful` environments: only lost routes and names that
are not resolved. With any other member of `Env` TLC finds the property violated (the
double frees of section 7), so the hypothesis is as weak as it can be. The invariant is
`TypeOK`, `Owned`, `Control` and `PoolInv`:

- `Listed`: `PoolIntact` itself, the active and the TIME-WAIT list are disjoint, and a pcb
  on one of them is in a state that list has;
- `InHand`: the pcb the arduino thread is about to close or free is on no list and not in
  the pool (`Loose`), so that its close is the first; while it waits for a connection, and
  between commands, the pcb is loose or lwIP serves it;
- `NoneClosing`: no close by the peer is under way, and a block that is free or about
  to be freed was left in a state from which `disconnect` closes nothing again.

**`PppLinkProofs`**: `LinkTypeCorrect`, `LinkMeansSessionHolds`,
`SurveillanceArmedHolds`. The inductive invariant is `TypeOK`, `LinkMeansSession`
and `Counted`:

    retry <= RetryLimit - 1 + Count("control") + Count("arduino")

where `Count(t)` is 1 while `t` redials. `SurveillanceArmed` is not inductive:
a thread that ends a redial in vain could leave a count behind that the other
has made. `Counted` says that redials in vain stay below the limit, because the
one that reaches it resets the board. It gives the bound on `retry` in `TypeOK`
for every limit, and for `RetryLimit = 1`, an assumption of the last theorem
only, that a positive count means a redial under way. `MoveCore`, `RedialCore`,
`CloseCore` and `SessionStep` each treat a kind of step; the actions are
instances of them.

**`TcpTxProofs`**: `TxTypeCorrect`, `InOrderHolds`, `FaultOnlyAfterForceHolds`,
`LeakCausesHolds`. The inductive invariant is `TypeOK` and

- `RegisteredOpen`: a registered pcb belongs to an open connection; so a callback
  never runs after a forced close, only its send loop may still be under way;
- `ChainThere`: between `tcp_write` and the freeing of the pbuf the chain is not
  empty, unless the struct is gone;
- `ChainLive`: on an open connection every pbuf in the chain is allocated. `Gone`
  is then impossible, which gives `FaultOnlyAfterForce`. The same holds of a closed one
  between commands, which a `read_buffer_free` may make open again; at the end of a
  disconnect that forced the close none of the chain is;
- `Ordered`: the numbers grow along what was sent and on along the chain, with the
  one pbuf that is in both between `tcp_write` and its freeing; a write extends it
  because `TypeOK` bounds all of them by `written`.

`WriteChain` and `TailAfter` say what `Behind` and the tail of the chain do to order
and membership. `LeakCauses` is an action property: for each action the set of
leaked pbufs is compared before and after, with the invariant of the state before;
`ChainLive` tells the two ways to lose a chain of a closed connection from the end of
a forced close, which has freed it.

**`UartRingProofs`**: `RingTypeCorrect`, `PhantomOnlyWhenLappedHolds`,
`OneLineHolds`, `RingImplementsStream`, `TimeoutHonouredHolds`. The inductive
invariant:

- `RingInv`: the unread bytes are the last ones that arrived, in order:
  `mem[At(tail, i - 1)] = wr - Pending + i`;
- `CountInv`: while a call copies and is not lapped, what it has still to copy is
  in the ring;
- `LineInv`: in canonical mode what is still to be copied ends at the first end of a
  line, and nothing copied so far ends one but, at the end, the last byte;
- `WaitEmpty`: nothing is copied before the wait is over; and for
  `TimeoutHonoured`, `TimeInv` (what `diff`, `start` and `now` are in a wait).

The step simulation maps `Arrive` to `Accept` or, when the ring is full, to
`Overrun`; `CopyByte` to `Deliver`; a call to `Forget`; the flush to `Discard`; the
rest stutters. It needs how `Unread` changes with head and tail, which the lemmas
about `Pending`, `At` and `Step` give.

**`AtDialProofs`**: `DialTypeCorrect`, `InStepHolds`, `ConnectedIsSetHolds`, for any
number of settings, attempts, rings and lines read by another thread. The inductive
invariant is `TypeOK`, `Phase` (the attempts left, and what may be on the way before
the first command) and, while commands are exchanged, `Dialogue`:

- `InOrder`: what the modem has still to answer ends with the command sent last and
  has no gap; the answers on the line are earlier ones, in order;
- `True`: an answer on the line is true (an `OK` means the setting is in force);
- `Settled`: at most one command (two while an answer is read) has neither been
  answered nor taken effect with a late modem, none (one) with a modem in time; if
  nothing can have been flushed or stolen, whatever is not in force is still
  waited for; and `connected` means online with nothing outstanding.

`InStep` counts the outstanding answers and `ConnectedIsSet` the hidden refusals; both
are `Settled` at their place. It needs cardinalities of sets of commands, from the
library's theorems on finite sets.

**`ArduinoStoreProofs`**: `StoreTypeCorrect`, `DecodedRightHolds`, `NoStrayHolds`,
`ReadsItsSectorHolds`, `WritesItsSectorHolds`, `StoredReadsBackHolds`, for every message
and sector number, every way the line and the waits cut the text into pieces and every
pattern of pauses. The assumptions compare the waits with the texts.
`SizeAssumption`: the buffer (1028 bytes, `arduino_api.h`) takes a sector, the first wait of
`$RW` is longer than what is in front of the data, and the wait in the loop is longer
than an escape. `TextAssumption`: the 16 bits of `received_byte` can count a command.
`NoStrayHolds` alone also assumes `Plain`.

The properties speak of the data and of what is left; the code sees neither, only a
count and the next characters. The inductive invariant is the types, with a buffer in the
loop that is not full, and `Control`. `Control` says of `Rest`, the characters that have
arrived and those still on the line together, that it is the text of the command from
some character on, and each place of the interpreter says which one:

- while the command is looked for, from some character on, perhaps with remains of earlier
  commands in front (`Shift`); they hold no `R` and so no name of a command. After
  `Dispatch` it is the character behind the name;
- `Decoding`: in the loop the data so far is a prefix of the message and the next
  character is the first one of the encoding of the byte behind it (`Pos`, with `Enc` for
  the encoded prefix). `need` tells that enough characters come before a wait ends for
  the loop never to see half an escape;
- `Settled`: when a command is answered, what is left holds no `R`, and no `$` after
  a command without a pause. After a pause (`late`) only the first is claimed.

`TextFacts` and `PutFacts` say what is at which position of a text, so that no later step
opens its definition; `TakeIs` is a turn of the loop, `HeaderIs` and `NumberIs` that
the digits give the sector. `SectorWriteIs` says which memories a write can leave. The two
action properties compare the storage before and after with the invariant of the state
before.

Only model-checked: the liveness properties (`CommandReturns`, `ClientReturns`,
`LinkRecovers`, `ModeServed`, `Drains`, `ReadReturns`, `CommandEnds`, `Dials`), which rest
on fairness and are out of the prover's reach.

## 7. Where the code breaks a promise

Each has a run whose counterexample TLC finds.

- **`rx_mutex`** `tcpip_tcp_disconnect` on a connection in `ES_CLOSING` keeps
  `semaphore_tcp` (`tcp_client.c:561-577`). The next command that takes it waits
  for its own thread, until the watchdog resets the board.
- **`client_refused`** After a refused or unanswered connect lwIP has freed the
  pcb before the error path closes it (`tcp_client.c:220`). The pool then holds
  it twice.
- **`tx_lost`** A write onto a chain of two pbufs overwrites the link between them
  (`tcp_client.c:625`); the pbufs behind the first are never sent and never freed,
  though their write answered 0.

Met while modelling, part of the models, without a run of their own:

- A segment linked between the test of `tot_len == 0` and the mutex in
  `read_buffer_free` (`tcp_client.c:718-724`) is acknowledged and freed unread.
- A read that waits when the peer closes dereferences `p_rx = NULL`
  (`tcp_client.c:650-668`; `ReadNull`).
- A server that talks at once makes the state `ES_RECEIVED` before the 10 ms poll
  sees `ES_CONNECTED`; the connect fails with 7 and frees the struct the callbacks
  use (`tcp_client.c:205-225`; `"early"`).
- `pppapi_open` is called in a phase in which lwIP refuses it, and its answer is
  ignored (`lwip_ppp.c:111`). The closing of the old session takes up to 12 s (two
  terminate requests, 6 s each), the redial asks for the new one after 5 s.
- `xm` takes the link down on purpose; the surveillance resets the board for it
  (`monitor.c:484`, `modem.c:1089`).
- `connection_close` frees `p_tx` and keeps the pointer (`tcp_client.c:468`); a send
  loop under way during the forced close uses freed memory. A write after the
  peer's close is never sent and its pbufs are lost, with the disconnect
  (`tcp_client.c:564`) or with a connect over the closed connection (150).
- `$RW`: when already the first word fails to verify, the answer is OK with the full
  length (`flash_memory.c:29-48`); a refusal by the flash leaves it unlocked (138).
  Sector 0 with data that are not five bytes writes the kilobyte below the storage
  (20-31); 257 writes sector 1 (`arduino_api.c:827`). The buffer takes one byte more
  than it has (880).
- `$RR` waits for three characters and takes five, so it can read sector 11 when 112
  was asked for (`arduino_api.c:901-918`).
- `*timeout_count++` moves the pointer (`arduino_api.c:1025`): the timeout of the
  decoding loops never comes. An escape cut by a pause takes `received_byte` below
  zero.
- A modem that answers the probe late shifts all answers by one (`modem.c:204-211`).
- `disconnect` after a server's close with unread data: `read_buffer_free` has
  overwritten the state, so `connection_close` closes a freed pcb
  (`tcp_client.c:583`). For the same reason a FIN that arrives with unread data
  can be forgotten (`tcp_client.c:727`).
- A failing name resolution leaks the pcb and the struct (`tcp_client.c:165`), the
  pcb also when a disconnect finds the state an earlier connection left in the block;
  `$TC` on a connection the peer has closed leaks the struct (150).
- `p_rx` of a fresh struct is never set (`tcp_client.c:246-256`) and never freed with
  an old one (566, 590). Data that arrive after the `read_buffer_free` of a disconnect,
  or that the one without an argument in `rtc_time_synchronize` does not release, leave
  a chain in the block; the connection that gets the block is `ES_CONNECTED` with
  `p_rx` set, and its first `$TR` reads the bytes of the other one. A block the heap
  used for something else gives a wild pointer (`TakeBlock`, `WildUsed`).
- Between `tcp_arg(NULL)` and `tcp_recv(NULL)` in the arduino thread's close a
  callback gets a NULL argument (`tcp_client.c:279`, `457`).
- `profile_update` can write back the profile that was just replaced
  (`modem.c:1109`); a request for link down during `PPP_CONNECT` is ignored
  (1127); a request made during its handler is lost (`main.c:115`).

Outside the models: `$TD` without a connection dereferences a NULL
`client_es` in `read_buffer_free`; `modem_ppp_link_reconnect` returns 3 even when
the link has come up, so the `$TC` that redialled answers NG; the hour of the RTC
is set to GMT + 9 without a carry (`rtc.c:299`), and the week day `Sun` is not in its
table; `printf_queued_push` refills a buffer the DMA may be sending
(`phs_shield_msp.c:735-749`).

## 8. What is not modelled

- The vendored code, which is nearly all of `src/` by lines: the headers of every
  STM32F4 chip under `STM32F4xx_HAL_Framework` (about nine thousand lines each), the
  HAL drivers, FreeRTOS and lwIP. Their promises are in the models where the
  application relies on them; the share of all lines that the map covers is small
  for this reason and cannot be otherwise. Of the firmware's own control flow that
  is concurrent or has failure paths, the modules cover what section 1 lists.
- The contents of data, AT texts, formatting, the monitor's line editor, GPIO
  and LED commands: no shared state.
- The printf queue: it carries the log, and the one thing a model could say of it is
  in section 7. The RTC's date arithmetic: sequential, nothing depends on it. Stop
  mode: register writes around one instruction.
- The other commands of the sketch decode their parameters by the loops that
  `ArduinoStore` models for `$RW`; light mail's text handling; the modem's identity
  and signal queries, which use the dialogue of `AtDial` for one command.
- Inside lwIP: a raw call is one step, though it is made from the wrong thread;
  splitting its list operations would make every C statement of lwIP a step.
- In `PppLink`: what the control thread does during `modem_setup`; the
  `xa` console; the 3 s of flushing before a reset.
- In `UartRing`: a second thread that reads the same ring (`AtDial` has it, at the
  grain of lines), and the compiler's reordering of the unsynchronised tail.
- FreeRTOS, the HAL and the printf library: third-party; the kernel's promises
  are the interleaving and the fairness.
