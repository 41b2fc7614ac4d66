------------------------------- MODULE AtDial -------------------------------
(***************************************************************************)
(* The AT dialogue of modem.c that ends in CONNECT: modem_setup at boot    *)
(* and the loop of modem_ppp_link_reconnect reset the modem, probe it with *)
(* "AT", flush the line, send the settings of modem_initialize_sequense    *)
(* one by one and dial.  Nothing in an answer says to which command it     *)
(* belongs: atcmd_read_result takes the next result on the line.           *)
(*                                                                         *)
(* A line of the UART is its result; `of' is the command it answers, which *)
(* the code does not see.  Commands are numbered in the order they are     *)
(* sent: Probe, the settings, Dial.                                        *)
(***************************************************************************)
EXTENDS Naturals, Sequences, FiniteSets

CONSTANTS
  Last,        \* the number of settings
  Tries,       \* the attempts of modem_setup
  MaxRings,    \* bound of the model: lines nobody asked for
  MaxSteals    \* bound of the model: lines that another thread reads

ASSUME DialAssumption == /\ Last \in Nat \ {0} /\ Tries \in Nat \ {0}
                         /\ MaxRings \in Nat /\ MaxSteals \in Nat

Probe == 0
Settings == 1..Last
Dial == Last + 1
Commands == Probe..Dial
Nobody == Dial + 1

Line == [of : Commands \cup {Nobody},
         res : {"OK", "ERROR", "CONNECT", "NO CARRIER", "RING"}]

VARIABLES
  boot,        \* in modem_setup, else in modem_ppp_link_reconnect
  late,        \* the modem may take longer than the code waits
  pc,          \* "reset", "probe", "flush", "send", "read", "connected", "gaveUp"
  k,           \* the command that is sent or answered next
  tries,       \* attempts left at boot
  line,        \* the lines in the receive ring
  todo,        \* the modem: commands it has not answered,
  set,         \*   settings in force,
  online,      \*   whether it has a connection,
  rings,       \*   lines it may still send unasked
  steals       \* lines that may still go to another reader

env == <<boot, late>>
modem == <<todo, set, online>>
vars == <<env, pc, k, tries, line, modem, rings, steals>>

Init ==
  /\ boot \in BOOLEAN /\ late \in BOOLEAN
  /\ pc = "reset" /\ k = Probe
  /\ tries = IF boot THEN Tries ELSE 0
  /\ line = <<>> /\ todo = <<>> /\ set = {} /\ online \in BOOLEAN
  /\ rings \in 0..MaxRings
  /\ steals = MaxSteals

-----------------------------------------------------------------------------
(* The modem: it answers in order.                                         *)

Says(c, result) == line' = Append(line, [of |-> c, res |-> result])

(* A setting is taken over; ATZ brings the default of the others.          *)
Accept ==
  /\ todo # <<>> /\ Head(todo) # Dial
  /\ Says(Head(todo), "OK")
  /\ set' = IF Head(todo) = Probe THEN set
            ELSE IF Head(todo) = 1 THEN {1} ELSE set \cup {Head(todo)}
  /\ todo' = Tail(todo)
  /\ UNCHANGED <<env, pc, k, tries, online, rings, steals>>

Connect ==
  /\ todo # <<>> /\ Head(todo) = Dial
  /\ Says(Dial, "CONNECT")
  /\ online' = TRUE /\ todo' = Tail(todo)
  /\ UNCHANGED <<env, pc, k, tries, set, rings, steals>>

Refuse ==
  /\ todo # <<>>
  /\ Says(Head(todo), IF Head(todo) = Dial THEN "NO CARRIER" ELSE "ERROR")
  /\ todo' = Tail(todo)
  /\ UNCHANGED <<env, pc, k, tries, set, online, rings, steals>>

(* A call from outside.                                                    *)
Ring ==
  /\ rings > 0 /\ pc \notin {"connected", "gaveUp"}
  /\ rings' = rings - 1 /\ Says(Nobody, "RING")
  /\ UNCHANGED <<env, pc, k, tries, modem, steals>>

(* The same UART is read by the control thread after a ring interrupt,     *)
(* and by ppp_rx_thread until lwip_main has stopped it.                    *)
Steal ==
  /\ steals > 0 /\ line # <<>>
  /\ steals' = steals - 1 /\ line' = Tail(line)
  /\ UNCHANGED <<env, pc, k, tries, modem, rings>>

-----------------------------------------------------------------------------
(* modem_initialize_sequense and the dialling after it.                    *)

(* How long a thread waits: for the answer, unless the modem is late.      *)
Waited == todo = <<>> \/ late

(* A second of reset, in which the modem forgets all.                      *)
Reset ==
  /\ pc = "reset"
  /\ todo' = <<>> /\ set' = {} /\ online' = FALSE
  /\ pc' = "probe"
  /\ UNCHANGED <<env, k, tries, line, rings, steals>>

SendProbe ==
  /\ pc = "probe"
  /\ todo' = Append(todo, Probe)
  /\ pc' = "flush"
  /\ UNCHANGED <<env, k, tries, line, set, online, rings, steals>>

(* Mutant of Flush: what the modem has said so far is kept.                *)
FlushNothing ==
  /\ pc = "flush" /\ Waited
  /\ k' = 1 /\ pc' = "send"
  /\ UNCHANGED <<env, tries, line, modem, rings, steals>>

(* serial_flush, 0.7 s after the probe.                                    *)
Flush ==
  /\ pc = "flush" /\ Waited
  /\ line' = <<>> /\ k' = 1 /\ pc' = "send"
  /\ UNCHANGED <<env, tries, modem, rings, steals>>

(* Mutant of Send: the line is flushed before every command.               *)
SendFlushes ==
  /\ pc = "send"
  /\ todo' = Append(todo, k)
  /\ line' = <<>>
  /\ pc' = "read"
  /\ UNCHANGED <<env, k, tries, set, online, rings, steals>>

(* atcmd_send; modem_setup flushes once more before it dials.              *)
Send ==
  /\ pc = "send"
  /\ todo' = Append(todo, k)
  /\ line' = IF boot /\ k = Dial THEN <<>> ELSE line
  /\ pc' = "read"
  /\ UNCHANGED <<env, k, tries, set, online, rings, steals>>

(* Mutant of Again: the last attempt at boot is followed by another.       *)
AgainOnce ==
  /\ UNCHANGED k
  /\ IF ~boot THEN pc' = "reset" /\ UNCHANGED tries
     ELSE /\ tries' = tries - 1
          /\ pc' = IF tries = 0 THEN "gaveUp" ELSE "reset"

(* A failed attempt: from the reset again, at boot a limited number of     *)
(* times, after which modem_setup goes on as if it had succeeded.          *)
Again ==
  /\ UNCHANGED k
  /\ IF ~boot THEN pc' = "reset" /\ UNCHANGED tries
     ELSE /\ tries' = tries - 1
          /\ pc' = IF tries = 1 THEN "gaveUp" ELSE "reset"

Expected(res) == res = IF k = Dial THEN "CONNECT" ELSE "OK"

(* atcmd_read_result: the first result on the line is the answer.          *)
Read ==
  /\ pc = "read" /\ line # <<>>
  /\ line' = Tail(line)
  /\ IF ~Expected(Head(line).res) THEN Again
     ELSE /\ UNCHANGED tries
          /\ IF k = Dial THEN pc' = "connected" /\ UNCHANGED k
             ELSE pc' = "send" /\ k' = k + 1
  /\ UNCHANGED <<env, modem, rings, steals>>

(* Mutant of ReadTimeout: only an answer that is owed is given up.         *)
ReadTimeoutOwed ==
  /\ pc = "read" /\ line = <<>> /\ Waited /\ todo # <<>>
  /\ Again
  /\ UNCHANGED <<env, line, modem, rings, steals>>

(* serial_read gives up.                                                   *)
ReadTimeout ==
  /\ pc = "read" /\ line = <<>> /\ Waited
  /\ Again
  /\ UNCHANGED <<env, line, modem, rings, steals>>

-----------------------------------------------------------------------------
Modem == Accept \/ Connect \/ Refuse
Host == Reset \/ SendProbe \/ Flush \/ Send \/ Read \/ ReadTimeout

Next == Modem \/ Ring \/ Steal \/ Host

Spec == Init /\ [][Next]_vars

(* The dialling thread goes on, the modem answers every command, and does  *)
(* not refuse one of them for ever.                                        *)
FairSpec == /\ Spec
            /\ WF_vars(Host) /\ WF_vars(Modem)
            /\ \A c \in Commands : SF_vars((Accept \/ Connect) /\ Head(todo) = c)

-----------------------------------------------------------------------------
(* Properties.                                                             *)

TypeOK ==
  /\ boot \in BOOLEAN /\ late \in BOOLEAN /\ online \in BOOLEAN
  /\ pc \in {"reset", "probe", "flush", "send", "read", "connected", "gaveUp"}
  /\ k \in Commands /\ tries \in 0..Tries
  /\ line \in Seq(Line) /\ todo \in Seq(Commands) /\ set \subseteq Settings
  /\ rings \in 0..MaxRings /\ steals \in 0..MaxSteals

(* The commands whose answer is still to come or was not read.             *)
Waiting == {c \in Commands : \/ \E i \in DOMAIN todo : todo[i] = c
                             \/ \E i \in DOMAIN line : line[i].of = c}
Behind == Cardinality(Waiting)

(* A late modem gets the dialogue out of step by one answer at most, and   *)
(* one that is in time never does, whatever calls and other readers do: no *)
(* command is sent while the answer to an earlier one is still to come.    *)
InStep == pc = "send" => Behind <= (IF late THEN 1 ELSE 0)

(* The code goes online only with a modem that has connected and has       *)
(* accepted every setting since its last reset, also when the dialogue was *)
(* out of step.  Of a modem that is late the refusal of one setting can be *)
(* hidden, never of more: by the flush before the dialling at boot or by   *)
(* another reader.                                                         *)
ConnectedIsSet ==
  pc = "connected" =>
    /\ online
    /\ Cardinality(Settings \ set)
         <= (IF late /\ (boot \/ steals < MaxSteals) THEN 1 ELSE 0)

(* With a modem that is in time every dialling ends: refusals, calls and   *)
(* lines lost to another thread only delay it.                             *)
Dials == ~late ~> pc \in {"connected", "gaveUp"}
=============================================================================
