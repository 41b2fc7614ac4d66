--------------------------- MODULE PppLinkProofs ---------------------------
(***************************************************************************)
(* Proofs about the supervision of the PPP link: the types, that PPP_LINK  *)
(* stands for a session, and that the count of redials, on which the       *)
(* surveillance depends, is exact enough for the limit of the code.        *)
(***************************************************************************)
EXTENDS PppLink, Integers, TLAPS

ControlAt == Redialling \cup {"idle", "update", "downEscape", "closeWait", "closed",
                              "consoleEscape", "consoleWait", "console"}
ArduinoAt == Redialling \cup {"idle", "api", "set", "checkWait", "atEscape",
                              "restartEscape", "restart"}

Count(t) == IF pc[t] \in Redialling THEN 1 ELSE 0

(* Redials in vain stay below the limit; each one under way adds one.      *)
Counted == retry <= RetryLimit - 1 + Count("control") + Count("arduino")

(* The inductive invariant.                                                *)
IInv == TypeOK /\ Counted /\ LinkMeansSession

(* TypeOK without the bound on retry, which follows from Counted.          *)
Typed == /\ status \in {"PPP_CONNECT", "MODEM_ATZ", "PPP_LINK", "PPP_NO_LINK"}
         /\ profile \in {"up", "down"} /\ loaded \in {"up", "down"} /\ changed \in BOOLEAN
         /\ retry \in Nat
         /\ enable \in BOOLEAN /\ done \in BOOLEAN /\ restart \in BOOLEAN
         /\ sem \in BOOLEAN /\ online \in BOOLEAN /\ direct \in BOOLEAN
         /\ phase \in {"dead", "opening", "up", "closing"} /\ mstate \in {"DATA", "IDOL"}
         /\ pc \in [control : ControlAt, arduino : ArduinoAt]
         /\ lwip \in {"boot", "open", "doneWait", "linked", "close", "restartWait"}
         /\ rx \in {"sem", "read"}

Core == Typed /\ Counted /\ LinkMeansSession

-----------------------------------------------------------------------------
(* The bound on retry is all that the two ways to state it differ in.      *)
LEMMA CoreGivesIInv ==
  ASSUME Core PROVE IInv
BY PppAssumption DEF Core, IInv, Typed, TypeOK, Counted, Count, ControlAt, ArduinoAt

LEMMA CoreGivesIInvNext ==
  ASSUME Core' PROVE IInv'
BY PppAssumption DEF Core, IInv, Typed, TypeOK, Counted, Count, ControlAt, ArduinoAt

LEMMA IInvGivesCore ==
  ASSUME IInv PROVE Core
BY PppAssumption DEF Core, IInv, Typed, TypeOK, Counted, Count, ControlAt, ArduinoAt

(* The threads' places after a step of one of them.                        *)
LEMMA GotoType ==
  ASSUME pc \in [control : ControlAt, arduino : ArduinoAt],
         NEW t \in Threads, NEW l, Goto(t, l),
         t = "control" => l \in ControlAt,
         t = "arduino" => l \in ArduinoAt
  PROVE  /\ pc' \in [control : ControlAt, arduino : ArduinoAt]
         /\ pc'[t] = l
         /\ \A u \in Threads : u # t => pc'[u] = pc[u]
<1>1. CASE t = "control"
  BY <1>1 DEF Goto, Threads
<1>2. CASE t = "arduino"
  BY <1>2 DEF Goto, Threads
<1> QED
  BY <1>1, <1>2 DEF Threads

(* modem_setup and a reset of the board establish it.                      *)
LEMMA BootCore ==
  ASSUME Init PROVE Core
<1>1. pc = [t \in {"control", "arduino"} |-> "idle"]
  BY DEF Init, Boot, Threads
<1>2. pc \in [control : ControlAt, arduino : ArduinoAt] /\ pc["control"] = "idle" /\ pc["arduino"] = "idle"
  BY <1>1 DEF ControlAt, ArduinoAt
<1>3. retry = 0 /\ retry \in Nat /\ status = "PPP_CONNECT"
  BY DEF Init, Boot
<1>4. Typed
  BY <1>2, <1>3 DEF Init, Boot, Typed
<1>5. Counted
  BY <1>2, <1>3, PppAssumption DEF Counted, Count, Redialling
<1> QED
  BY <1>3, <1>4, <1>5 DEF Core, LinkMeansSession

(* A reset at any time.                                                    *)
LEMMA RebootCore ==
  ASSUME Reboot PROVE Core'
<1>1. pc' = [t \in {"control", "arduino"} |-> "idle"]
  BY DEF Reboot, Boot, Threads
<1>2. pc' \in [control : ControlAt, arduino : ArduinoAt] /\ pc'["control"] = "idle" /\ pc'["arduino"] = "idle"
  BY <1>1 DEF ControlAt, ArduinoAt
<1>3. retry' = 0 /\ retry' \in Nat /\ status' = "PPP_CONNECT"
  BY DEF Reboot, Boot
<1>4. Typed'
  BY <1>2, <1>3 DEF Reboot, Boot, Typed
<1>5. Counted'
  BY <1>2, <1>3, PppAssumption DEF Counted, Count, Redialling
<1> QED
  BY <1>3, <1>4, <1>5 DEF Core, LinkMeansSession

-----------------------------------------------------------------------------
(* A step of one thread that leaves the status, the session and the count  *)
(* alone keeps the invariant, unless it ends a redial that has reached the *)
(* limit.                                                                  *)
LEMMA MoveCore ==
  ASSUME Core, NEW t \in Threads, NEW l, Goto(t, l),
         t = "control" => l \in ControlAt,
         t = "arduino" => l \in ArduinoAt,
         pc[t] \in Redialling => l \in Redialling \/ retry < RetryLimit,
         UNCHANGED <<retry, status, phase>>,
         profile' \in {"up", "down"}, loaded' \in {"up", "down"}, changed' \in BOOLEAN,
         enable' \in BOOLEAN, done' \in BOOLEAN, restart' \in BOOLEAN, sem' \in BOOLEAN,
         online' \in BOOLEAN, direct' \in BOOLEAN, mstate' \in {"DATA", "IDOL"},
         UNCHANGED <<lwip, rx>>
  PROVE  Core'
<1>1. /\ pc' \in [control : ControlAt, arduino : ArduinoAt]
      /\ pc'[t] = l
      /\ \A u \in Threads : u # t => pc'[u] = pc[u]
  <2>1. pc \in [control : ControlAt, arduino : ArduinoAt]
    BY DEF Core, Typed
  <2> QED
    BY <2>1, GotoType
<1>2. Typed'
  BY <1>1 DEF Core, Typed
<1>3. Counted'
  <2>1. /\ retry \in Nat /\ retry' = retry /\ RetryLimit \in Nat
        /\ retry <= RetryLimit - 1 + Count("control") + Count("arduino")
    BY PppAssumption DEF Core, Typed, Counted
  <2>2. CASE t = "control"
    BY <1>1, <2>1, <2>2 DEF Counted, Count, Threads
  <2>3. CASE t = "arduino"
    BY <1>1, <2>1, <2>3 DEF Counted, Count, Threads
  <2> QED
    BY <2>2, <2>3 DEF Threads
<1>4. LinkMeansSession'
  BY DEF Core, LinkMeansSession
<1> QED
  BY <1>2, <1>3, <1>4 DEF Core

(* A step in which neither of the threads moves and the count stays.       *)
LEMMA StillCore ==
  ASSUME Core, UNCHANGED <<retry, pc>>, Typed', LinkMeansSession'
  PROVE  Core'
<1>1. Counted'
  BY DEF Core, Counted, Count
<1> QED
  BY <1>1 DEF Core

(* A step of lwip_main, of ppp_rx_thread or of lwIP leaves the threads'    *)
(* places, the modem and the count of redials alone.                       *)
LEMMA SessionStep ==
  ASSUME Core, UNCHANGED <<prof, retry, modem, pc, direct>>, LinkMeansSession',
         enable' \in BOOLEAN, done' \in BOOLEAN, restart' \in BOOLEAN, sem' \in BOOLEAN,
         lwip' \in {"boot", "open", "doneWait", "linked", "close", "restartWait"},
         rx' \in {"sem", "read"}, phase' \in {"dead", "opening", "up", "closing"},
         status' \in {"PPP_CONNECT", "MODEM_ATZ", "PPP_LINK", "PPP_NO_LINK"}
  PROVE  Core'
<1>1. Typed'
  BY DEF Core, Typed, prof, modem
<1> QED
  BY <1>1, StillCore

-----------------------------------------------------------------------------
(* A step within a redial that sets modem_status, but not to PPP_LINK.     *)
LEMMA RedialCore ==
  ASSUME Core, NEW t \in Threads, NEW l \in Redialling, Goto(t, l), pc[t] \in Redialling,
         status' \in {"MODEM_ATZ", "PPP_CONNECT"}, mstate' \in {"DATA", "IDOL"},
         UNCHANGED <<retry, prof, flags, phase, online, lwip, rx, direct>>
  PROVE  Core'
<1>1. /\ pc' \in [control : ControlAt, arduino : ArduinoAt]
      /\ pc'[t] = l
      /\ \A u \in Threads : u # t => pc'[u] = pc[u]
  <2>1. pc \in [control : ControlAt, arduino : ArduinoAt]
    BY DEF Core, Typed
  <2> QED
    BY <2>1, GotoType DEF ControlAt, ArduinoAt
<1>2. Typed'
  BY <1>1 DEF Core, Typed, prof, flags
<1>3. Counted'
  <2>1. \A u \in Threads : pc'[u] \in Redialling <=> pc[u] \in Redialling
    BY <1>1
  <2> QED
    BY <2>1 DEF Core, Counted, Count, Threads
<1>4. LinkMeansSession'
  BY DEF LinkMeansSession
<1> QED
  BY <1>2, <1>3, <1>4 DEF Core

(* The steps of a redial, one after the other.                             *)
LEMMA DialCore ==
  ASSUME Core, NEW t \in Threads, Dial(t)
  PROVE  Core'
<1> USE DEF ControlAt, ArduinoAt, Redialling
<1>t. Typed
  BY DEF Core
<1>1. CASE DialEscaped(t)
  <2>1. Goto(t, "reset") /\ Escape /\ UNCHANGED <<status, prof, retry, flags, phase, lwip, rx, direct>>
    BY <1>1 DEF DialEscaped
  <2>2. online' \in BOOLEAN /\ mstate' \in {"DATA", "IDOL"}
    BY <1>t, <2>1 DEF Typed, Escape
  <2> QED
    BY <1>t, <2>1, <2>2, MoveCore DEF Typed, prof, flags
<1>2. CASE DialReset(t)
  <2>1. /\ Goto(t, "atz") /\ online' = FALSE
        /\ UNCHANGED <<status, prof, retry, flags, phase, mstate, lwip, rx, direct>>
    BY <1>2 DEF DialReset
  <2> QED
    BY <1>t, <2>1, MoveCore, ZenonT(60) DEF Typed, prof, flags
<1>3. CASE DialAtz(t)
  <2>1. /\ pc[t] = "atz" /\ status' = "MODEM_ATZ" /\ Goto(t, "atd")
        /\ UNCHANGED <<prof, retry, flags, phase, modem, lwip, rx, direct>>
    BY <1>3 DEF DialAtz
  <2> QED
    BY <1>t, <2>1, RedialCore DEF Typed, prof, flags, modem
<1>4. CASE DialAtd(t)
  <2>1. /\ Goto(t, "raw") /\ online' = TRUE
        /\ UNCHANGED <<status, prof, retry, flags, phase, mstate, lwip, rx, direct>>
    BY <1>4 DEF DialAtd
  <2> QED
    BY <1>t, <2>1, MoveCore DEF Typed, prof, flags
<1>5. CASE DialFails(t)
  <2>1. /\ Goto(t, "reset")
        /\ UNCHANGED <<status, prof, retry, flags, phase, modem, lwip, rx, direct>>
    BY <1>5 DEF DialFails
  <2> QED
    BY <1>t, <2>1, MoveCore DEF Typed, prof, flags, modem
<1>6. CASE DialConnected(t)
  <2>1. /\ pc[t] = "raw" /\ status' = "PPP_CONNECT" /\ mstate' = "DATA" /\ Goto(t, "delay")
        /\ UNCHANGED <<prof, retry, flags, phase, online, lwip, rx, direct>>
    BY <1>6 DEF DialConnected
  <2> QED
    BY <1>t, <2>1, RedialCore DEF Typed, prof, flags
<1>7. CASE DialRestart(t)
  <2>1. /\ restart' = TRUE /\ Goto(t, "linkWait")
        /\ UNCHANGED <<status, prof, retry, enable, done, sem, phase, modem, lwip, rx, direct>>
    BY <1>7 DEF DialRestart
  <2> QED
    BY <1>t, <2>1, MoveCore DEF Typed, prof, modem
<1>8. CASE LinkUp(t)
  <2>1. /\ pc[t] = "linkWait" /\ retry' = 0 /\ Goto(t, "idle")
        /\ changed' = (changed /\ t # "control") /\ UNCHANGED <<profile, loaded>>
        /\ UNCHANGED <<status, flags, phase, modem, lwip, rx, direct>>
    BY <1>8 DEF LinkUp, Served
  <2>2. /\ pc' \in [control : ControlAt, arduino : ArduinoAt]
    BY <1>t, <2>1, GotoType DEF Typed
  <2>3. changed' \in BOOLEAN
    BY <1>t, <2>1, Zenon DEF Typed
  <2>4. Typed'
    BY <1>t, <2>1, <2>2, <2>3 DEF Typed, flags, modem
  <2>5. Counted'
    BY <2>1, PppAssumption DEF Counted, Count
  <2>6. LinkMeansSession'
    BY <2>1 DEF Core, LinkMeansSession
  <2> QED
    BY <2>4, <2>5, <2>6 DEF Core
<1>9. CASE LinkTimeout(t)
  <2>1. CASE retry >= RetryLimit
    BY <1>9, <2>1, RebootCore DEF LinkTimeout
  <2>2. CASE ~(retry >= RetryLimit)
    <3>1. /\ Goto(t, "idle")
          /\ changed' = (changed /\ t # "control") /\ UNCHANGED <<profile, loaded>>
          /\ UNCHANGED <<status, retry, flags, phase, modem, lwip, rx, direct>>
      BY <1>9, <2>2 DEF LinkTimeout, Served
    <3>2. changed' \in BOOLEAN
      BY <1>t, <3>1, Zenon DEF Typed
    <3>3. retry < RetryLimit
      BY <1>t, <2>2, PppAssumption DEF Typed
    <3> QED
      BY <1>t, <3>1, <3>2, <3>3, MoveCore DEF Typed, flags, modem
  <2> QED
    BY <2>1, <2>2
<1> QED
  BY <1>1, <1>2, <1>3, <1>4, <1>5, <1>6, <1>7, <1>8, <1>9 DEF Dial

(* The first step of a redial: it counts itself.                           *)
LEMMA RedialStarts ==
  ASSUME Core, NEW t \in Threads, Redial(t), pc[t] \notin Redialling
  PROVE  Core'
<1>1. /\ retry' = retry + 1 /\ Goto(t, "escape")
      /\ UNCHANGED <<status, prof, flags, phase, modem, lwip, rx, direct>>
  BY DEF Redial
<1>2. /\ pc' \in [control : ControlAt, arduino : ArduinoAt]
      /\ pc'[t] = "escape"
      /\ \A u \in Threads : u # t => pc'[u] = pc[u]
  <2>1. pc \in [control : ControlAt, arduino : ArduinoAt]
    BY DEF Core, Typed
  <2> QED
    BY <1>1, <2>1, GotoType DEF ControlAt, ArduinoAt, Redialling
<1>3. Typed'
  BY <1>1, <1>2 DEF Core, Typed, prof, flags, modem
<1>4. Counted'
  <2>1. "escape" \in Redialling
    BY DEF Redialling
  <2> QED
    BY <1>1, <1>2, <2>1, PppAssumption DEF Core, Typed, Counted, Count, Threads
<1>5. LinkMeansSession'
  BY <1>1 DEF Core, LinkMeansSession
<1> QED
  BY <1>3, <1>4, <1>5 DEF Core

(* lwip_main_close, whichever command it is part of.                       *)
LEMMA CloseCore ==
  ASSUME Core, NEW t \in Threads, NEW escape, NEW closed,
         \A l \in {escape, closed} : /\ t = "control" => l \in ControlAt
                                     /\ t = "arduino" => l \in ArduinoAt,
         \/ Close(t, escape, closed) /\ pc[t] \notin Redialling
         \/ CloseEscaped(t, escape, closed) /\ escape \notin Redialling
  PROVE  Core'
<1>t. Typed
  BY DEF Core
<1>1. CASE Close(t, escape, closed) /\ pc[t] \notin Redialling
  <2>1. /\ Goto(t, escape) \/ Goto(t, closed)
        /\ UNCHANGED <<status, prof, retry, flags, phase, modem, lwip, rx, direct>>
    BY <1>1 DEF Close
  <2> QED
    BY <1>t, <1>1, <2>1, MoveCore DEF Typed, prof, flags, modem
<1>2. CASE CloseEscaped(t, escape, closed) /\ escape \notin Redialling
  <2>1. /\ pc[t] = escape /\ enable' = FALSE /\ Goto(t, closed) /\ Escape
        /\ UNCHANGED <<status, prof, retry, done, restart, sem, phase, lwip, rx, direct>>
    BY <1>2 DEF CloseEscaped
  <2>2. online' \in BOOLEAN /\ mstate' \in {"DATA", "IDOL"}
    BY <1>t, <2>1 DEF Typed, Escape
  <2> QED
    BY <1>t, <1>2, <2>1, <2>2, MoveCore DEF Typed, prof
<1> QED
  BY <1>1, <1>2

-----------------------------------------------------------------------------
(* A change of mode begins.                                                *)
LEMMA ModeChangeCore ==
  ASSUME Core, ModeChange
  PROVE  Core'
<1> USE DEF ControlAt, ArduinoAt, Redialling, Threads
<1>t. Typed
  BY DEF Core
<1>1. CASE ModeUp
  BY <1>1, RedialStarts DEF ModeUp, ControlIdle
<1>2. CASE ModeAsItIs
  <2>1. /\ pc["control"] = "idle"
        /\ Goto("control", "idle") /\ changed' = (changed /\ "control" # "control")
        /\ UNCHANGED <<profile, loaded>>
        /\ UNCHANGED <<status, retry, flags, phase, modem, lwip, rx, direct>>
    BY <1>2 DEF ModeAsItIs, Served, ControlIdle
  <2>2. changed' \in BOOLEAN
    BY <2>1
  <2> QED
    BY <1>t, <2>1, <2>2, MoveCore DEF Typed, flags, modem
<1>3. CASE ModeDown
  BY <1>3, CloseCore DEF ModeDown, ControlIdle
<1> QED
  BY <1>1, <1>2, <1>3 DEF ModeChange

(* The control thread goes on.                                             *)
LEMMA ControlCore ==
  ASSUME Core, Control
  PROVE  Core'
<1> USE DEF ControlAt, ArduinoAt, Redialling, Threads
<1>t. Typed
  BY DEF Core
<1>1. CASE UpdateStore
  <2>1. /\ pc["control"] = "update" /\ profile' = loaded /\ Goto("control", "idle")
        /\ UNCHANGED <<status, loaded, changed, retry, flags, phase, modem, lwip, rx, direct>>
    BY <1>1 DEF UpdateStore
  <2> QED
    BY <1>t, <2>1, MoveCore DEF Typed, flags, modem
<1>2. CASE DownEscaped
  BY <1>2, CloseCore DEF DownEscaped
<1>3. CASE CloseWaited
  <2>1. /\ pc["control"] = "closeWait" /\ Goto("control", "closed")
        /\ UNCHANGED <<status, prof, retry, flags, phase, modem, lwip, rx, direct>>
    BY <1>3 DEF CloseWaited
  <2> QED
    BY <1>t, <2>1, MoveCore DEF Typed, prof, flags, modem
<1>4. CASE ModeDownDone
  <2>1. /\ pc["control"] = "closed"
        /\ Goto("control", "idle") /\ changed' = (changed /\ "control" # "control")
        /\ UNCHANGED <<profile, loaded>>
        /\ Escape
        /\ UNCHANGED <<status, retry, flags, phase, lwip, rx, direct>>
    BY <1>4 DEF ModeDownDone, Served, ControlIdle
  <2>2. changed' \in BOOLEAN
    BY <2>1
  <2>3. online' \in BOOLEAN /\ mstate' \in {"DATA", "IDOL"}
    BY <1>t, <2>1 DEF Typed, Escape
  <2> QED
    BY <1>t, <2>1, <2>2, <2>3, MoveCore DEF Typed, flags
<1>5. CASE ConsoleEscaped
  BY <1>5, CloseCore DEF ConsoleEscaped
<1>6. CASE ConsoleOn
  <2>1. /\ pc["control"] \in {"consoleWait", "console"}
        /\ direct' = TRUE /\ Goto("control", "idle")
        /\ UNCHANGED <<status, prof, retry, flags, phase, modem, lwip, rx>>
    BY <1>6 DEF ConsoleOn
  <2> QED
    BY <1>t, <2>1, MoveCore DEF Typed, prof, flags, modem
<1> QED
  BY <1>1, <1>2, <1>3, <1>4, <1>5, <1>6 DEF Control

(* A step of the control thread that something outside starts.             *)
LEMMA InputCore ==
  ASSUME Core, UpdateLoad \/ Ring \/ Console
  PROVE  Core'
<1> USE DEF ControlAt, ArduinoAt, Redialling, Threads
<1>t. Typed
  BY DEF Core
<1>1. CASE UpdateLoad
  <2>1. /\ pc["control"] = "idle" /\ loaded' = profile /\ Goto("control", "update")
        /\ UNCHANGED <<status, profile, changed, retry, flags, phase, modem, lwip, rx, direct>>
    BY <1>1 DEF UpdateLoad, ControlIdle
  <2> QED
    BY <1>t, <2>1, MoveCore DEF Typed, flags, modem
<1>2. CASE Ring
  <2>1. Escape /\ UNCHANGED <<status, prof, retry, flags, phase, pc, lwip, rx, direct>>
    BY <1>2 DEF Ring
  <2>2. online' \in BOOLEAN /\ mstate' \in {"DATA", "IDOL"}
    BY <1>t, <2>1 DEF Typed, Escape
  <2>3. Typed'
    BY <1>t, <2>1, <2>2 DEF Typed, prof, flags
  <2> QED
    BY <2>1, <2>3, StillCore DEF Core, LinkMeansSession
<1>3. CASE Console
  BY <1>3, CloseCore DEF Console, ControlIdle
<1> QED
  BY <1>1, <1>2, <1>3 DEF Ring

(* The arduino thread goes on.                                             *)
LEMMA ArduinoCore ==
  ASSUME Core, Arduino
  PROVE  Core'
<1> USE DEF ControlAt, ArduinoAt, Redialling, Threads
<1>t. Typed
  BY DEF Core
<1>1. CASE Surveillance
  BY <1>1, RebootCore DEF Surveillance
<1>2. CASE NothingLost
  <2>1. /\ pc["arduino"] = "idle" /\ Goto("arduino", "api")
        /\ UNCHANGED <<status, prof, retry, flags, phase, modem, lwip, rx, direct>>
    BY <1>2 DEF NothingLost, ArduinoIdle
  <2> QED
    BY <1>t, <2>1, MoveCore DEF Typed, prof, flags, modem
<1>3. CASE NoCommand
  <2>1. /\ pc["arduino"] = "api" /\ Goto("arduino", "idle")
        /\ UNCHANGED <<status, prof, retry, flags, phase, modem, lwip, rx, direct>>
    BY <1>3 DEF NoCommand
  <2> QED
    BY <1>t, <2>1, MoveCore DEF Typed, prof, flags, modem
<1>4. CASE ProfileAnswered
  <2>1. /\ pc["arduino"] = "set" /\ changed' = TRUE /\ Goto("arduino", "idle")
        /\ UNCHANGED <<status, profile, loaded, retry, flags, phase, modem, lwip, rx, direct>>
    BY <1>4 DEF ProfileAnswered
  <2> QED
    BY <1>t, <2>1, MoveCore DEF Typed, flags, modem
<1>5. CASE CheckWaited
  <2>1. /\ pc["arduino"] = "checkWait" /\ Goto("arduino", "idle")
        /\ UNCHANGED <<status, prof, retry, flags, phase, modem, lwip, rx, direct>>
    BY <1>5 DEF CheckWaited
  <2> QED
    BY <1>t, <2>1, MoveCore DEF Typed, prof, flags, modem
<1>6. CASE AtEscaped
  <2>1. /\ pc["arduino"] = "atEscape" /\ Escape /\ Goto("arduino", "idle")
        /\ UNCHANGED <<status, prof, retry, flags, phase, lwip, rx, direct>>
    BY <1>6 DEF AtEscaped
  <2>2. online' \in BOOLEAN /\ mstate' \in {"DATA", "IDOL"}
    BY <1>t, <2>1 DEF Typed, Escape
  <2> QED
    BY <1>t, <2>1, <2>2, MoveCore DEF Typed, prof, flags
<1>7. CASE RestartEscaped
  BY <1>7, CloseCore DEF RestartEscaped
<1>8. CASE Restarted
  BY <1>8, RebootCore DEF Restarted
<1>9. CASE Watchdog
  BY <1>9, RebootCore DEF Watchdog
<1> QED
  BY <1>1, <1>2, <1>3, <1>4, <1>5, <1>6, <1>7, <1>8, <1>9 DEF Arduino

(* The arduino thread takes a command.                                     *)
LEMMA SketchCore ==
  ASSUME Core, Sketch
  PROVE  Core'
<1> USE DEF ControlAt, ArduinoAt, Redialling, Threads
<1>t. Typed
  BY DEF Core
<1>1. CASE CheckWaits
  <2>1. /\ pc["arduino"] = "api" /\ Goto("arduino", "checkWait")
        /\ UNCHANGED <<status, prof, retry, flags, phase, modem, lwip, rx, direct>>
    BY <1>1 DEF CheckWaits, Command
  <2> QED
    BY <1>t, <2>1, MoveCore DEF Typed, prof, flags, modem
<1>2. CASE CheckRedials
  BY <1>2, RedialStarts DEF CheckRedials, Command
<1>3. CASE AtCommand
  <2>1. /\ pc["arduino"] = "api" /\ Goto("arduino", "atEscape")
        /\ UNCHANGED <<status, prof, retry, flags, phase, modem, lwip, rx, direct>>
    BY <1>3 DEF AtCommand, Command
  <2> QED
    BY <1>t, <2>1, MoveCore DEF Typed, prof, flags, modem
<1>4. CASE Restart
  BY <1>4, CloseCore DEF Restart, Command
<1>5. CASE \E p \in {"up", "down"} : SetProfile(p)
  <2>1. PICK p \in {"up", "down"} : SetProfile(p)
    BY <1>5
  <2>2. /\ pc["arduino"] = "api" /\ profile' = p /\ Goto("arduino", "set")
        /\ UNCHANGED <<status, loaded, changed, retry, flags, phase, modem, lwip, rx, direct>>
    BY <2>1 DEF SetProfile, Command
  <2> QED
    BY <1>t, <2>2, MoveCore DEF Typed, flags, modem
<1> QED
  BY <1>1, <1>2, <1>3, <1>4, <1>5 DEF Sketch

(* lwip_main.                                                              *)
LEMMA LwipCore ==
  ASSUME Core, Lwip
  PROVE  Core'
<1>t. Typed
  BY DEF Core
<1>1. CASE LwipBoot
  <2>1. /\ done' = FALSE /\ enable' = TRUE /\ lwip' = "open"
        /\ UNCHANGED <<status, prof, retry, restart, sem, phase, modem, pc, rx, direct>>
    BY <1>t, <1>1 DEF LwipBoot
  <2>2. /\ enable' \in BOOLEAN /\ done' \in BOOLEAN
        /\ restart' \in BOOLEAN /\ sem' \in BOOLEAN
    BY <1>t, <2>1 DEF Typed, flags
  <2>3. /\ lwip' \in {"boot", "open", "doneWait", "linked", "close", "restartWait"}
        /\ rx' \in {"sem", "read"} /\ phase' \in {"dead", "opening", "up", "closing"}
        /\ status' \in {"PPP_CONNECT", "MODEM_ATZ", "PPP_LINK", "PPP_NO_LINK"}
    BY <1>t, <2>1 DEF Typed
  <2>4. LinkMeansSession'
    BY <2>1 DEF Core, LinkMeansSession
  <2> QED
    BY <2>1, <2>2, <2>3, <2>4, SessionStep
<1>2. CASE LwipOpen
  <2>1. /\ restart' = FALSE /\ sem' = TRUE /\ lwip' = "doneWait"
        /\ phase' = IF phase = "dead" THEN "opening" ELSE phase
        /\ UNCHANGED <<status, prof, retry, enable, done, modem, pc, rx, direct>>
    BY <1>t, <1>2 DEF LwipOpen
  <2>2. /\ enable' \in BOOLEAN /\ done' \in BOOLEAN
        /\ restart' \in BOOLEAN /\ sem' \in BOOLEAN
    BY <1>t, <2>1 DEF Typed, flags
  <2>3. /\ lwip' \in {"boot", "open", "doneWait", "linked", "close", "restartWait"}
        /\ rx' \in {"sem", "read"} /\ phase' \in {"dead", "opening", "up", "closing"}
        /\ status' \in {"PPP_CONNECT", "MODEM_ATZ", "PPP_LINK", "PPP_NO_LINK"}
    BY <1>t, <2>1 DEF Typed
  <2>4. LinkMeansSession'
    BY <2>1 DEF Core, LinkMeansSession
  <2> QED
    BY <2>1, <2>2, <2>3, <2>4, SessionStep
<1>3. CASE LwipDone
  <2>1. /\ lwip' = "linked"
        /\ UNCHANGED <<status, prof, retry, flags, phase, modem, pc, rx, direct>>
    BY <1>t, <1>3 DEF LwipDone
  <2>2. /\ enable' \in BOOLEAN /\ done' \in BOOLEAN
        /\ restart' \in BOOLEAN /\ sem' \in BOOLEAN
    BY <1>t, <2>1 DEF Typed, flags
  <2>3. /\ lwip' \in {"boot", "open", "doneWait", "linked", "close", "restartWait"}
        /\ rx' \in {"sem", "read"} /\ phase' \in {"dead", "opening", "up", "closing"}
        /\ status' \in {"PPP_CONNECT", "MODEM_ATZ", "PPP_LINK", "PPP_NO_LINK"}
    BY <1>t, <2>1 DEF Typed
  <2>4. LinkMeansSession'
    BY <2>1 DEF Core, LinkMeansSession
  <2> QED
    BY <2>1, <2>2, <2>3, <2>4, SessionStep
<1>4. CASE LwipDown
  <2>1. /\ enable' = FALSE /\ sem' = TRUE /\ lwip' = "close"
        /\ UNCHANGED <<status, prof, retry, done, restart, phase, modem, pc, rx, direct>>
    BY <1>t, <1>4 DEF LwipDown
  <2>2. /\ enable' \in BOOLEAN /\ done' \in BOOLEAN
        /\ restart' \in BOOLEAN /\ sem' \in BOOLEAN
    BY <1>t, <2>1 DEF Typed, flags
  <2>3. /\ lwip' \in {"boot", "open", "doneWait", "linked", "close", "restartWait"}
        /\ rx' \in {"sem", "read"} /\ phase' \in {"dead", "opening", "up", "closing"}
        /\ status' \in {"PPP_CONNECT", "MODEM_ATZ", "PPP_LINK", "PPP_NO_LINK"}
    BY <1>t, <2>1 DEF Typed
  <2>4. LinkMeansSession'
    BY <2>1 DEF Core, LinkMeansSession
  <2> QED
    BY <2>1, <2>2, <2>3, <2>4, SessionStep
<1>5. CASE LwipClose
  <2>1. /\ lwip' = "restartWait"
        /\ \/ status' = "PPP_NO_LINK" /\ done' = TRUE /\ UNCHANGED phase
           \/ phase' = "closing" /\ UNCHANGED <<status, done>>
        /\ UNCHANGED <<prof, retry, enable, restart, sem, modem, pc, rx, direct>>
    BY <1>t, <1>5 DEF LwipClose, Report
  <2>2. /\ enable' \in BOOLEAN /\ done' \in BOOLEAN
        /\ restart' \in BOOLEAN /\ sem' \in BOOLEAN
    BY <1>t, <2>1 DEF Typed, flags
  <2>3. /\ lwip' \in {"boot", "open", "doneWait", "linked", "close", "restartWait"}
        /\ rx' \in {"sem", "read"} /\ phase' \in {"dead", "opening", "up", "closing"}
        /\ status' \in {"PPP_CONNECT", "MODEM_ATZ", "PPP_LINK", "PPP_NO_LINK"}
    BY <1>t, <2>1 DEF Typed
  <2>4. LinkMeansSession'
    BY <2>1 DEF Core, LinkMeansSession
  <2> QED
    BY <2>1, <2>2, <2>3, <2>4, SessionStep
<1>6. CASE LwipRestart
  <2>1. /\ done' = FALSE /\ enable' = TRUE /\ lwip' = "open"
        /\ UNCHANGED <<status, prof, retry, restart, sem, phase, modem, pc, rx, direct>>
    BY <1>t, <1>6 DEF LwipRestart
  <2>2. /\ enable' \in BOOLEAN /\ done' \in BOOLEAN
        /\ restart' \in BOOLEAN /\ sem' \in BOOLEAN
    BY <1>t, <2>1 DEF Typed, flags
  <2>3. /\ lwip' \in {"boot", "open", "doneWait", "linked", "close", "restartWait"}
        /\ rx' \in {"sem", "read"} /\ phase' \in {"dead", "opening", "up", "closing"}
        /\ status' \in {"PPP_CONNECT", "MODEM_ATZ", "PPP_LINK", "PPP_NO_LINK"}
    BY <1>t, <2>1 DEF Typed
  <2>4. LinkMeansSession'
    BY <2>1 DEF Core, LinkMeansSession
  <2> QED
    BY <2>1, <2>2, <2>3, <2>4, SessionStep
<1> QED
  BY <1>1, <1>2, <1>3, <1>4, <1>5, <1>6 DEF Lwip

(* What becomes of a session, and ppp_rx_thread.                           *)
LEMMA SessionCore ==
  ASSUME Core, SessionUp \/ SessionEnds \/ Rx
  PROVE  Core'
<1>t. Typed
  BY DEF Core
<1>1. CASE SessionUp
  <2>1. /\ phase' = "up" /\ status' = "PPP_LINK" /\ done' = TRUE
        /\ UNCHANGED <<prof, retry, enable, restart, sem, modem, pc, lwip, rx, direct>>
    BY <1>t, <1>1 DEF SessionUp, Report
  <2>2. /\ enable' \in BOOLEAN /\ done' \in BOOLEAN
        /\ restart' \in BOOLEAN /\ sem' \in BOOLEAN
    BY <1>t, <2>1 DEF Typed, flags
  <2>3. /\ lwip' \in {"boot", "open", "doneWait", "linked", "close", "restartWait"}
        /\ rx' \in {"sem", "read"} /\ phase' \in {"dead", "opening", "up", "closing"}
        /\ status' \in {"PPP_CONNECT", "MODEM_ATZ", "PPP_LINK", "PPP_NO_LINK"}
    BY <1>t, <2>1 DEF Typed
  <2>4. LinkMeansSession'
    BY <2>1 DEF Core, LinkMeansSession
  <2> QED
    BY <2>1, <2>2, <2>3, <2>4, SessionStep
<1>2. CASE SessionEnds
  <2>1. /\ phase' = "dead" /\ status' = "PPP_NO_LINK" /\ done' = TRUE
        /\ UNCHANGED <<prof, retry, enable, restart, sem, modem, pc, lwip, rx, direct>>
    BY <1>t, <1>2 DEF SessionEnds, Report
  <2>2. /\ enable' \in BOOLEAN /\ done' \in BOOLEAN
        /\ restart' \in BOOLEAN /\ sem' \in BOOLEAN
    BY <1>t, <2>1 DEF Typed, flags
  <2>3. /\ lwip' \in {"boot", "open", "doneWait", "linked", "close", "restartWait"}
        /\ rx' \in {"sem", "read"} /\ phase' \in {"dead", "opening", "up", "closing"}
        /\ status' \in {"PPP_CONNECT", "MODEM_ATZ", "PPP_LINK", "PPP_NO_LINK"}
    BY <1>t, <2>1 DEF Typed
  <2>4. LinkMeansSession'
    BY <2>1 DEF Core, LinkMeansSession
  <2> QED
    BY <2>1, <2>2, <2>3, <2>4, SessionStep
<1>3. CASE RxWake
  <2>1. /\ sem' = FALSE /\ rx' \in {"read", "sem"}
        /\ UNCHANGED <<status, prof, retry, enable, done, restart, phase, modem, pc, lwip, direct>>
    BY <1>t, <1>3 DEF RxWake
  <2>2. /\ enable' \in BOOLEAN /\ done' \in BOOLEAN
        /\ restart' \in BOOLEAN /\ sem' \in BOOLEAN
    BY <1>t, <2>1 DEF Typed, flags
  <2>3. /\ lwip' \in {"boot", "open", "doneWait", "linked", "close", "restartWait"}
        /\ rx' \in {"sem", "read"} /\ phase' \in {"dead", "opening", "up", "closing"}
        /\ status' \in {"PPP_CONNECT", "MODEM_ATZ", "PPP_LINK", "PPP_NO_LINK"}
    BY <1>t, <2>1 DEF Typed
  <2>4. LinkMeansSession'
    BY <2>1 DEF Core, LinkMeansSession
  <2> QED
    BY <2>1, <2>2, <2>3, <2>4, SessionStep
<1>4. CASE RxStop
  <2>1. /\ rx' = "sem"
        /\ UNCHANGED <<status, prof, retry, flags, phase, modem, pc, lwip, direct>>
    BY <1>t, <1>4 DEF RxStop
  <2>2. /\ enable' \in BOOLEAN /\ done' \in BOOLEAN
        /\ restart' \in BOOLEAN /\ sem' \in BOOLEAN
    BY <1>t, <2>1 DEF Typed, flags
  <2>3. /\ lwip' \in {"boot", "open", "doneWait", "linked", "close", "restartWait"}
        /\ rx' \in {"sem", "read"} /\ phase' \in {"dead", "opening", "up", "closing"}
        /\ status' \in {"PPP_CONNECT", "MODEM_ATZ", "PPP_LINK", "PPP_NO_LINK"}
    BY <1>t, <2>1 DEF Typed
  <2>4. LinkMeansSession'
    BY <2>1 DEF Core, LinkMeansSession
  <2> QED
    BY <2>1, <2>2, <2>3, <2>4, SessionStep
<1> QED
  BY <1>1, <1>2, <1>3, <1>4 DEF Rx, RxHangup

-----------------------------------------------------------------------------
(* After modem_setup the invariant holds.                                  *)
THEOREM LinkInitial == Init => IInv
<1>1. ASSUME Init PROVE IInv
  BY <1>1, BootCore, CoreGivesIInv
<1> QED
  BY <1>1

(* Every step of the five threads, of lwIP and of the modem keeps it.      *)
THEOREM LinkInductive == IInv /\ [Next]_vars => IInv'
<1> SUFFICES ASSUME IInv, [Next]_vars
             PROVE  Core'
  BY CoreGivesIInvNext
<1>c. Core
  BY IInvGivesCore
<1>1. CASE Next
  <2>1. CASE \E t \in Threads : Dial(t)
    BY <1>c, <2>1, DialCore
  <2>2. CASE ModeChange \/ Control \/ UpdateLoad \/ Ring \/ Console
    BY <1>c, <2>2, ModeChangeCore, ControlCore, InputCore
  <2>3. CASE Arduino \/ Sketch
    BY <1>c, <2>3, ArduinoCore, SketchCore
  <2>4. CASE Lwip \/ SessionUp \/ SessionEnds \/ Rx
    BY <1>c, <2>4, LwipCore, SessionCore
  <2> QED
    BY <1>1, <2>1, <2>2, <2>3, <2>4 DEF Next
<1>2. CASE UNCHANGED vars
  BY <1>c, <1>2 DEF vars, prof, flags, modem, Core, Typed, Counted, Count, LinkMeansSession
<1> QED
  BY <1>1, <1>2

(* So it always holds, for every retry limit and every set of inputs.      *)
THEOREM LinkInvariant == Spec => []IInv
  BY LinkInitial, LinkInductive, PTL DEF Spec

(* The types, and with them the bound on ppp_linkup_retry that keeps       *)
(* modem_ppp_link_reconnect from counting on: for every limit, at most one *)
(* redial more than the limit is ever counted.                             *)
THEOREM LinkTypeCorrect == Spec => []TypeOK
<1>1. IInv => TypeOK
  BY DEF IInv
<1> QED
  BY <1>1, LinkInvariant, PTL

(* modem_status is PPP_LINK only while lwIP has a session that came up,    *)
(* whatever the commands, ring calls and lost sessions.                    *)
THEOREM LinkMeansSessionHolds == Spec => []LinkMeansSession
<1>1. IInv => LinkMeansSession
  BY DEF IInv
<1> QED
  BY <1>1, LinkInvariant, PTL

(* With the limit of the code, one, the surveillance is disarmed only by a *)
(* redial that is under way: a redial that ends in vain resets the board.  *)
THEOREM SurveillanceArmedHolds ==
  ASSUME RetryLimit = 1
  PROVE  Spec => []SurveillanceArmed
<1>1. IInv => SurveillanceArmed
  <2>1. ASSUME IInv, retry > 0, \A t \in Threads : pc[t] \notin Redialling
        PROVE  FALSE
    BY <2>1 DEF IInv, TypeOK, Counted, Count, Threads
  <2> QED
    BY <2>1 DEF SurveillanceArmed
<1> QED
  BY <1>1, LinkInvariant, PTL
=============================================================================
