------------------------------ MODULE PppLink ------------------------------
(***************************************************************************)
(* The supervision of the PPP link: psld.modem_status and the flags        *)
(* ppp_enable, ppp_done, ppp_restart, ppp_linkup_retry that five threads   *)
(* share without a lock.  The control thread changes the mode, the arduino *)
(* thread redials when a command needs the link and resets the board when  *)
(* the link is lost, lwip_main opens and closes sessions, ppp_rx_thread    *)
(* reads the modem and the tcpip thread reports what became of a session.  *)
(***************************************************************************)
EXTENDS Naturals

CONSTANTS
  RetryLimit,   \* PPPLINKUPRETRY_TIMEOUT
  Inputs        \* what the sketch, the operator and the network do

ASSUME PppAssumption ==
  /\ RetryLimit \in Nat \ {0}
  /\ Inputs \subseteq {"up", "down", "connect", "at", "restart",  \* commands
                       "hasty",     \* commands before a change of mode is over
                       "ring", "console"}

Threads == {"control", "arduino"}
Redialling == {"escape", "reset", "atz", "atd", "raw", "delay", "linkWait"}

VARIABLES
  status,       \* psld.modem_status
  profile,      \* the low byte of psld.profile_number: is the link wanted up or down
  loaded,       \* what profile_update has read of it
  changed,      \* psld.profile_number_changed
  retry,        \* psld.ppp_linkup_retry
  enable, done, restart,  \* psld.ppp_enable and the like
  sem,          \* lwip_main's binary semaphore, on which ppp_rx_thread waits
  phase,        \* lwIP's PPP session
  online,       \* the modem is connected and passes data
  mstate,       \* modem_private.modem_state: DATA or IDOL, with the read timeout
  pc,           \* where the control and the arduino thread are
  lwip, rx,     \* where lwip_main and ppp_rx_thread are
  direct        \* psld.direct_channel_modem

prof == <<profile, loaded, changed>>
flags == <<enable, done, restart, sem>>
modem == <<online, mstate>>
vars == <<status, prof, retry, flags, phase, modem, pc, lwip, rx, direct>>

-----------------------------------------------------------------------------
(* After modem_setup.  It reports PPP_CONNECT even if it dialled 30 times  *)
(* in vain.                                                                *)
Boot(s, p, l, c, r, e, d, re, se, ph, on, ms, pcs, lw, rxt, di) ==
  /\ s = "PPP_CONNECT" /\ p = "up" /\ l = "up" /\ c = FALSE /\ r = 0
  /\ e = FALSE /\ d = FALSE /\ re = FALSE /\ se = FALSE
  /\ ph = "dead" /\ on \in BOOLEAN /\ ms = "DATA"
  /\ pcs = [t \in Threads |-> "idle"] /\ lw = "boot" /\ rxt = "sem" /\ di = FALSE

Init == Boot(status, profile, loaded, changed, retry, enable, done, restart, sem,
             phase, online, mstate, pc, lwip, rx, direct)

(* NVIC_SystemReset.                                                       *)
Reboot == Boot(status', profile', loaded', changed', retry', enable', done',
               restart', sem', phase', online', mstate', pc', lwip', rx', direct')

Goto(t, label) == pc' = [pc EXCEPT ![t] = label]

(* The end of modem_escape: two seconds after "+++" the modem leaves data  *)
(* mode, and the serial line goes back to lines with a read timeout.       *)
Escape == mstate' = "IDOL" /\ online' = (online /\ mstate = "IDOL")

-----------------------------------------------------------------------------
(* modem_ppp_link_reconnect, in either thread.                             *)

Redial(t) ==
  /\ retry' = retry + 1 /\ Goto(t, "escape")
  /\ UNCHANGED <<status, prof, flags, phase, modem, lwip, rx, direct>>

DialEscaped(t) ==
  /\ pc[t] = "escape"
  /\ Escape /\ Goto(t, "reset")
  /\ UNCHANGED <<status, prof, retry, flags, phase, lwip, rx, direct>>

(* lwip_main polls twice a second: after a longer delay it waits for the    *)
(* outcome of a session, for the end of a link or for a restart.           *)
Settled == \/ lwip = "doneWait" /\ ~done
           \/ lwip = "linked" /\ status = "PPP_LINK"
           \/ lwip = "restartWait" /\ ~restart

(* The modem is reset; the AT dialogue starts again until it connects.     *)
DialReset(t) ==
  /\ pc[t] = "reset"
  /\ online' = FALSE /\ Goto(t, "atz")
  /\ UNCHANGED <<status, prof, retry, flags, phase, mstate, lwip, rx, direct>>

(* Almost two seconds after the reset.                                     *)
DialAtz(t) ==
  /\ pc[t] = "atz" /\ Settled
  /\ status' = "MODEM_ATZ" /\ Goto(t, "atd")
  /\ UNCHANGED <<prof, retry, flags, phase, modem, lwip, rx, direct>>

(* CONNECT takes longer than a read without a timeout waits.               *)
DialAtd(t) ==
  /\ pc[t] = "atd" /\ mstate = "IDOL"
  /\ online' = TRUE /\ Goto(t, "raw")
  /\ UNCHANGED <<status, prof, retry, flags, phase, mstate, lwip, rx, direct>>

DialFails(t) ==
  /\ pc[t] \in {"atz", "atd"}
  /\ Goto(t, "reset")
  /\ UNCHANGED <<status, prof, retry, flags, phase, modem, lwip, rx, direct>>

DialConnected(t) ==
  /\ pc[t] = "raw"
  /\ status' = "PPP_CONNECT" /\ mstate' = "DATA" /\ Goto(t, "delay")
  /\ UNCHANGED <<prof, retry, flags, phase, online, lwip, rx, direct>>

(* Three seconds after CONNECT.                                            *)
DialRestart(t) ==
  /\ pc[t] = "delay" /\ Settled
  /\ restart' = TRUE /\ Goto(t, "linkWait")
  /\ UNCHANGED <<status, prof, retry, enable, done, sem, phase, modem, lwip, rx, direct>>

(* What follows in the control thread: the request is marked as served.    *)
Served(t) == /\ Goto(t, "idle")
             /\ changed' = (changed /\ t # "control")
             /\ UNCHANGED <<profile, loaded>>

(* Mutant: the count of redials is not reset.                              *)
LinkUpKeepsRetry(t) ==
  /\ pc[t] = "linkWait" /\ status = "PPP_LINK"
  /\ Served(t)
  /\ UNCHANGED <<status, retry, flags, phase, modem, lwip, rx, direct>>

LinkUp(t) ==
  /\ pc[t] = "linkWait" /\ status = "PPP_LINK"
  /\ retry' = 0 /\ Served(t)
  /\ UNCHANGED <<status, flags, phase, modem, lwip, rx, direct>>

(* Mutant: the last redial that is allowed does not reset the board.       *)
LinkTimeoutOffByOne(t) ==
  /\ pc[t] = "linkWait"
  /\ IF retry > RetryLimit THEN Reboot
     ELSE Served(t) /\ UNCHANGED <<status, retry, flags, phase, modem, lwip, rx, direct>>

(* Thirty seconds have passed: a link that is seen on the last turn of the *)
(* loop counts as a timeout too.                                           *)
LinkTimeout(t) ==
  /\ pc[t] = "linkWait"
  /\ IF retry >= RetryLimit THEN Reboot
     ELSE Served(t) /\ UNCHANGED <<status, retry, flags, phase, modem, lwip, rx, direct>>

-----------------------------------------------------------------------------
(* The control thread.                                                     *)

ControlIdle == pc["control"] = "idle"

(* profile_update: the profile is read, and written back.                  *)
UpdateLoad ==
  /\ ControlIdle
  /\ loaded' = profile /\ Goto("control", "update")
  /\ UNCHANGED <<status, profile, changed, retry, flags, phase, modem, lwip, rx, direct>>

UpdateStore ==
  /\ pc["control"] = "update"
  /\ profile' = loaded /\ Goto("control", "idle")
  /\ UNCHANGED <<status, loaded, changed, retry, flags, phase, modem, lwip, rx, direct>>

(* A ring interrupt: modem_check_ringcall_interrupt.                       *)
Ring ==
  /\ "ring" \in Inputs /\ ControlIdle
  /\ Escape
  /\ UNCHANGED <<status, prof, retry, flags, phase, pc, lwip, rx, direct>>

(* modem_mode_change, and the flag that is cleared after it.               *)
ModeUp ==
  /\ ControlIdle /\ changed /\ profile = "up" /\ status # "PPP_LINK"
  /\ Redial("control")

ModeAsItIs ==
  /\ ControlIdle /\ changed /\ (profile = "up") = (status = "PPP_LINK")
  /\ Served("control")
  /\ UNCHANGED <<status, retry, flags, phase, modem, lwip, rx, direct>>

(* lwip_main_close: out of data mode, then wait for the link to go.        *)
Close(t, escape, closed) ==
  /\ Goto(t, IF enable THEN escape ELSE closed)
  /\ UNCHANGED <<status, prof, retry, flags, phase, modem, lwip, rx, direct>>

(* Mutant: the modem is left in data mode.                                 *)
CloseForgetsEscape(t, escape, next) ==
  /\ pc[t] = escape
  /\ enable' = FALSE /\ Goto(t, next)
  /\ UNCHANGED <<status, prof, retry, done, restart, sem, phase, modem, lwip, rx, direct>>

CloseEscaped(t, escape, next) ==
  /\ pc[t] = escape
  /\ Escape /\ enable' = FALSE /\ Goto(t, next)
  /\ UNCHANGED <<status, prof, retry, done, restart, sem, phase, lwip, rx, direct>>

ModeDown ==
  /\ ControlIdle /\ changed /\ profile = "down" /\ status = "PPP_LINK"
  /\ Close("control", "downEscape", "closed")

DownEscaped == CloseEscaped("control", "downEscape", "closeWait")

CloseWaited ==
  /\ pc["control"] = "closeWait" /\ status # "PPP_LINK"
  /\ Goto("control", "closed")
  /\ UNCHANGED <<status, prof, retry, flags, phase, modem, lwip, rx, direct>>

ModeDownDone ==
  /\ pc["control"] = "closed"
  /\ Escape /\ Served("control")
  /\ UNCHANGED <<status, retry, flags, phase, lwip, rx, direct>>

(* "xm" at the monitor.                                                    *)
Console ==
  /\ "console" \in Inputs /\ ControlIdle /\ ~direct
  /\ Close("control", "consoleEscape", "console")

ConsoleEscaped == CloseEscaped("control", "consoleEscape", "consoleWait")

ConsoleOn ==
  /\ \/ pc["control"] = "consoleWait" /\ status # "PPP_LINK"
     \/ pc["control"] = "console"
  /\ direct' = TRUE /\ Goto("control", "idle")
  /\ UNCHANGED <<status, prof, retry, flags, phase, modem, lwip, rx>>

-----------------------------------------------------------------------------
(* The arduino thread.                                                     *)

ArduinoIdle == pc["arduino"] = "idle"

(* arduino_api takes a command when one has come.                          *)
Command(c) ==
  /\ c \in Inputs /\ pc["arduino"] = "api"
  /\ "hasty" \notin Inputs => ~changed /\ pc["control"] \in {"idle", "update"}

(* modem_ppp_linkup_surveillance, before a command is taken.               *)
Lost == profile = "up" /\ status = "PPP_NO_LINK" /\ retry = 0

Surveillance == ArduinoIdle /\ Lost /\ Reboot

NothingLost ==
  /\ ArduinoIdle /\ ~Lost
  /\ Goto("arduino", "api")
  /\ UNCHANGED <<status, prof, retry, flags, phase, modem, lwip, rx, direct>>

NoCommand ==
  /\ pc["arduino"] = "api"
  /\ Goto("arduino", "idle")
  /\ UNCHANGED <<status, prof, retry, flags, phase, modem, lwip, rx, direct>>

(* The profile command answers before the mode is changed.                 *)
SetProfile(p) ==
  /\ Command(p)
  /\ profile' = p /\ Goto("arduino", "set")
  /\ UNCHANGED <<status, loaded, changed, retry, flags, phase, modem, lwip, rx, direct>>

ProfileAnswered ==
  /\ pc["arduino"] = "set"
  /\ changed' = TRUE /\ Goto("arduino", "idle")
  /\ UNCHANGED <<status, profile, loaded, retry, flags, phase, modem, lwip, rx, direct>>

(* modem_ppp_link_check before a connect: wait for a link that is coming,  *)
(* or redial.                                                              *)
CheckWaits ==
  /\ Command("connect") /\ status = "PPP_CONNECT"
  /\ Goto("arduino", "checkWait")
  /\ UNCHANGED <<status, prof, retry, flags, phase, modem, lwip, rx, direct>>

CheckWaited ==
  /\ pc["arduino"] = "checkWait"
  /\ Goto("arduino", "idle")
  /\ UNCHANGED <<status, prof, retry, flags, phase, modem, lwip, rx, direct>>

CheckRedials ==
  /\ Command("connect") /\ status \notin {"PPP_LINK", "PPP_CONNECT"}
  /\ Redial("arduino")

(* A command that talks AT with the modem, as modem_mail_write: it looks   *)
(* at the status before it escapes.                                        *)
AtCommand ==
  /\ Command("at") /\ status # "PPP_LINK"
  /\ Goto("arduino", "atEscape")
  /\ UNCHANGED <<status, prof, retry, flags, phase, modem, lwip, rx, direct>>

AtEscaped ==
  /\ pc["arduino"] = "atEscape"
  /\ Escape /\ Goto("arduino", "idle")
  /\ UNCHANGED <<status, prof, retry, flags, phase, lwip, rx, direct>>

(* The restart command closes without waiting and resets 25 s later.       *)
Restart ==
  /\ Command("restart")
  /\ Close("arduino", "restartEscape", "restart")

RestartEscaped == CloseEscaped("arduino", "restartEscape", "restart")

Restarted == pc["arduino"] = "restart" /\ Reboot

(* Nobody refreshes the watchdog while the modem does not connect.         *)
Watchdog == pc["arduino"] \in {"escape", "reset", "atz", "atd"} /\ Reboot

-----------------------------------------------------------------------------
(* lwip_main, and ppp_link_status_cb in the tcpip thread.                  *)

Report(s) == status' = s /\ done' = TRUE

LwipBoot ==
  /\ lwip = "boot" /\ status = "PPP_CONNECT"
  /\ done' = FALSE /\ enable' = TRUE /\ lwip' = "open"
  /\ UNCHANGED <<status, prof, retry, restart, sem, phase, modem, pc, rx, direct>>

(* pppapi_open refuses a session that is not dead; nobody looks.           *)
LwipOpen ==
  /\ lwip = "open"
  /\ restart' = FALSE /\ sem' = TRUE /\ lwip' = "doneWait"
  /\ phase' = IF phase = "dead" THEN "opening" ELSE phase
  /\ UNCHANGED <<status, prof, retry, enable, done, modem, pc, rx, direct>>

LwipDone ==
  /\ lwip = "doneWait" /\ done
  /\ lwip' = "linked"
  /\ UNCHANGED <<status, prof, retry, flags, phase, modem, pc, rx, direct>>

LwipDown ==
  /\ lwip = "linked" /\ status # "PPP_LINK"
  /\ enable' = FALSE /\ sem' = TRUE /\ lwip' = "close"
  /\ UNCHANGED <<status, prof, retry, done, restart, phase, modem, pc, rx, direct>>

(* ppp_close reports a dead session once more, else it starts to end it.   *)
LwipClose ==
  /\ lwip = "close"
  /\ lwip' = "restartWait"
  /\ IF phase = "dead" THEN Report("PPP_NO_LINK") /\ UNCHANGED phase
     ELSE phase' = "closing" /\ UNCHANGED <<status, done>>
  /\ UNCHANGED <<prof, retry, enable, restart, sem, modem, pc, rx, direct>>

LwipRestart ==
  /\ lwip = "restartWait" /\ restart
  /\ done' = FALSE /\ enable' = TRUE /\ lwip' = "open"
  /\ UNCHANGED <<status, prof, retry, restart, sem, phase, modem, pc, rx, direct>>

(* The negotiation with the peer takes longer than the step from CONNECT   *)
(* to raw mode.                                                            *)
SessionUp ==
  /\ phase = "opening" /\ online /\ rx = "read" /\ \A t \in Threads : pc[t] # "raw"
  /\ phase' = "up" /\ Report("PPP_LINK")
  /\ UNCHANGED <<prof, retry, enable, restart, sem, modem, pc, lwip, rx, direct>>

(* Mutant: the callback leaves modem_status alone.                         *)
SessionEndsSilently ==
  /\ phase # "dead"
  /\ phase' = "dead" /\ done' = TRUE
  /\ UNCHANGED <<status, prof, retry, enable, restart, sem, modem, pc, lwip, rx, direct>>

(* The peer refuses or ends the session, LCP gives up waiting for it, or a *)
(* close is over.                                                          *)
SessionEnds ==
  /\ phase # "dead"
  /\ phase' = "dead" /\ Report("PPP_NO_LINK")
  /\ UNCHANGED <<prof, retry, enable, restart, sem, modem, pc, lwip, rx, direct>>

-----------------------------------------------------------------------------
(* ppp_rx_thread.                                                          *)

RxWake ==
  /\ rx = "sem" /\ sem
  /\ sem' = FALSE /\ rx' = IF enable THEN "read" ELSE "sem"
  /\ UNCHANGED <<status, prof, retry, enable, done, restart, phase, modem, pc, lwip, direct>>

RxStop ==
  /\ rx = "read" /\ ~enable
  /\ rx' = "sem"
  /\ UNCHANGED <<status, prof, retry, flags, phase, modem, pc, lwip, direct>>

(* A read that times out is taken for a hangup; only DATA reads wait for   *)
(* nothing.                                                                *)
RxHangup ==
  /\ rx = "read" /\ mstate = "IDOL"
  /\ SessionEnds

-----------------------------------------------------------------------------
Dial(t) == \/ DialEscaped(t) \/ DialReset(t) \/ DialAtz(t) \/ DialAtd(t) 
           \/ DialFails(t) \/ DialConnected(t) \/ DialRestart(t) \/ LinkUp(t) \/ LinkTimeout(t)

ModeChange == ModeUp \/ ModeAsItIs \/ ModeDown

Control == \/ UpdateStore \/ DownEscaped \/ CloseWaited \/ ModeDownDone
           \/ ConsoleEscaped \/ ConsoleOn

Arduino == \/ Surveillance \/ NothingLost \/ NoCommand \/ ProfileAnswered \/ CheckWaited
           \/ AtEscaped \/ RestartEscaped \/ Restarted \/ Watchdog

Sketch == \/ CheckWaits \/ CheckRedials \/ AtCommand \/ Restart
          \/ \E p \in {"up", "down"} : SetProfile(p)

Lwip == LwipBoot \/ LwipOpen \/ LwipDone \/ LwipDown \/ LwipClose \/ LwipRestart

Rx == RxWake \/ RxStop \/ RxHangup

Next == \/ \E t \in Threads : Dial(t)
        \/ ModeChange \/ Control \/ UpdateLoad \/ Ring \/ Console
        \/ Arduino \/ Sketch
        \/ Lwip \/ SessionUp \/ SessionEnds \/ Rx

Spec == Init /\ [][Next]_vars

(* lwIP gives up a session whose peer does not answer, while it is opened, *)
(* when its echo requests are lost and while it is closed.                 *)
GivesUp == (phase # "up" \/ ~online) /\ SessionEnds

(* Every thread runs on, and the modem does not refuse for ever to answer  *)
(* and to connect; nobody need give a command or use the monitor.          *)
FairSpec ==
  /\ Spec
  /\ \A t \in Threads : /\ WF_vars(Dial(t))
                        /\ SF_vars(DialAtz(t)) /\ SF_vars(DialAtd(t))
  /\ SF_vars(ModeChange) /\ WF_vars(Control) /\ WF_vars(Arduino) /\ WF_vars(Lwip) /\ WF_vars(Rx)
  /\ SF_vars(GivesUp)

-----------------------------------------------------------------------------
(* Every flag has its type; each thread that redials counts once, on top   *)
(* of the redials in vain that have not reset the board yet.               *)
TypeOK ==
  /\ status \in {"PPP_CONNECT", "MODEM_ATZ", "PPP_LINK", "PPP_NO_LINK"}
  /\ profile \in {"up", "down"} /\ loaded \in {"up", "down"} /\ changed \in BOOLEAN
  /\ retry \in 0..(RetryLimit + 1)
  /\ enable \in BOOLEAN /\ done \in BOOLEAN /\ restart \in BOOLEAN
  /\ sem \in BOOLEAN /\ online \in BOOLEAN /\ direct \in BOOLEAN
  /\ phase \in {"dead", "opening", "up", "closing"} /\ mstate \in {"DATA", "IDOL"}
  /\ pc \in [control : Redialling \cup {"idle", "update", "downEscape", "closeWait",
                                        "closed", "consoleEscape", "consoleWait",
                                        "console"},
            arduino : Redialling \cup {"idle", "api", "set", "checkWait", "atEscape",
                                        "restartEscape", "restart"}]
  /\ lwip \in {"boot", "open", "doneWait", "linked", "close", "restartWait"}
  /\ rx \in {"sem", "read"}

(* psld.modem_status says PPP_LINK only while lwIP has a session that came *)
(* up: every way a session ends is reported by ppp_link_status_cb.         *)
LinkMeansSession == status = "PPP_LINK" => phase \in {"up", "closing"}

(* modem_ppp_linkup_surveillance is disarmed only while somebody redials.  *)
SurveillanceArmed == retry > 0 => \E t \in Threads : pc[t] \in Redialling

(* modem_mode_change comes to an end, whatever it waits for, and its       *)
(* request is marked as served, or the board is reset.                     *)
ModeServed == changed ~> ~changed

(* A link that is wanted and is lost, or does not come up, comes up or the *)
(* board is reset: modem_ppp_linkup_surveillance, the redials with their   *)
(* thirty seconds and the watchdog leave no gap between them.              *)
LinkRecovers ==
  (profile = "up" /\ status # "PPP_LINK") ~>
    (status = "PPP_LINK" \/ lwip = "boot" \/ profile = "down")
=============================================================================
