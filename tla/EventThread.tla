---------------------------- MODULE EventThread ----------------------------
(***************************************************************************)
(* How autonomous operation of the firmware is paused and resumed.  The    *)
(* event thread looks at WaitRequest once a minute and suspends itself     *)
(* when a pause is asked for; the one-second interrupt of the clock counts *)
(* the pause down, ends it and resumes the thread.  Pauses are asked for   *)
(* by the command thread (EWAIT) and by the HTTP thread; a change of the   *)
(* registrations asks for an AT start, at once or, in a pause, through     *)
(* mate_at_start when the pause ends; the auto thread makes it.            *)
(*                                                                         *)
(* A step is one access to shared state.  The interrupt is not             *)
(* interrupted, so that it is one step.                                    *)
(***************************************************************************)
EXTENDS Integers

CONSTANTS Seconds,     \* the lengths of a pause that are asked for
          Budget       \* how often the outside acts: commands, USB, network

ASSUME SecondsAssumption == Seconds \subseteq Nat
ASSUME BudgetAssumption == Budget \in Nat

VARIABLES
  waitRequest,         \* WAIT_REQUEST as "request", WAIT_CANCEL as "cancel"
  mateTimeFlag, mateTime, mateCommand, mateAtStart,
  syncTime,            \* 1 waits for the end of a minute, 2 counts minutes
  cycle,               \* event_flags_cycle
  wmd,                 \* g_wmd_event_flags; MEASURE for what a minute asks
  usb,                 \* isUSBState() is USB_CONNECT
  unitState,
  reboot,              \* FLG_REBOOT_EXEC
  params,              \* CheckEventParam() of the settings as they are
  event, auto, cmd, http, net, port,       \* where each thread is
  took,                \* actual_events of the event thread
  autoTook,            \* actual_events of the auto thread
  cmdSec, httpSec,     \* the length each requester is about to write
  budget,              \* history: what is left of Budget
  want,                \* history: an AT start is due
  slips                \* history: the windows of time an event fell into, see Slips

pause == <<waitRequest, mateTimeFlag, mateTime, mateCommand, syncTime>>
flags == <<cycle, wmd>>
state == <<usb, unitState, reboot, params>>
threads == <<event, auto, cmd, http, net, port>>
taken == <<took, autoTook, cmdSec, httpSec>>
history == <<budget, want, slips>>
vars == <<pause, mateAtStart, flags, state, threads, taken, history>>

\* "sleep": the thread was resumed just before it went to sleep, or fell asleep
\* over a state that was about to become OK.  An AT start was lost: "start",
\* cleared together with what the command had put off; "network", with the
\* flags the network thread clears; "busy", dropped by the auto thread.
Slips == {"sleep", "start", "network", "busy"}
LostStart == Slips \ {"sleep"}

EventAt == {"off", "start", "outer", "waitUsb", "create", "invalid", "arm", "loop",
            "connected", "ready", "unit", "unit2", "catchUp", "clear", "set",
            "measure", "exit", "suspended"}

TypeOK ==
    /\ waitRequest \in {"request", "cancel"}
    /\ mateTimeFlag \in BOOLEAN /\ mateTime \in Seconds \cup {0}
    /\ mateCommand \in Nat /\ mateAtStart \in BOOLEAN
    /\ syncTime \in 0 .. 2
    /\ cycle \subseteq {"READY", "CONNECT_USB", "DISCONNECT_USB"}
    /\ wmd \subseteq {"INITIAL", "MEASURE"}
    /\ usb \in BOOLEAN /\ reboot \in BOOLEAN /\ params \in BOOLEAN
    /\ unitState \in {"INIT", "OK", "ERROR", "COMMAND"}
    /\ event \in EventAt
    /\ auto \in {"off", "wait", "first", "second"}
    /\ cmd \in {"idle", "request", "flag", "time", "set", "clear", "mark"}
    /\ http \in {"idle", "request", "flag", "time"}
    /\ net \in {"idle", "cycle", "wmd", "resume", "ok"}
    /\ port \in {"idle", "up1", "up2", "down1", "down2"}
    /\ took \subseteq {"READY", "CONNECT_USB"}
    /\ autoTook \subseteq {"INITIAL", "MEASURE"}
    /\ cmdSec \in Seconds \cup {0} /\ httpSec \in Seconds \cup {0}
    /\ budget \in 0 .. Budget /\ want \in BOOLEAN
    /\ slips \subseteq Slips

\* A unit after a reset: system_thread has set everything up, the network
\* thread is about to clear the flags and to start the event thread.
Init ==
    /\ waitRequest = "cancel" /\ mateTimeFlag = FALSE /\ mateTime = 0
    /\ mateCommand = 0 /\ mateAtStart = FALSE /\ syncTime = 0
    /\ cycle = {} /\ wmd = {}
    /\ unitState = "INIT" /\ reboot = FALSE
    /\ event = "off" /\ auto = "off" /\ cmd = "idle" /\ http = "idle"
    /\ net = "cycle" /\ port = "idle"
    /\ took = {} /\ autoTook = {} /\ cmdSec = 0 /\ httpSec = 0
    /\ want = FALSE /\ slips = {}
    /\ usb \in BOOLEAN /\ params \in BOOLEAN /\ budget = Budget

Spend == budget > 0 /\ budget' = budget - 1

-----------------------------------------------------------------------------
(* The event thread.                                                       *)

Goto(place) == event' = place

\* tx_thread_resume(&event_thread) does nothing unless the thread sleeps: one
\* that is about to sleep misses it, and sleeps until the next.
Wake ==
    /\ event' = CASE event = "off" -> "start"
                  [] event = "suspended" -> "outer"
                  [] OTHER -> event
    /\ slips' = CASE event = "exit" -> slips \cup {"sleep"}
                  [] event = "suspended" -> slips \ {"sleep"}
                  [] OTHER -> slips

\* When the unit starts, an AT start is due.
EventStart ==
    /\ event = "start" /\ Goto("outer")
    /\ want' = TRUE
    /\ IF waitRequest = "cancel"
       THEN wmd' = wmd \cup {"INITIAL"} /\ mateAtStart' = FALSE
       ELSE mateAtStart' = TRUE /\ UNCHANGED wmd
    /\ UNCHANGED <<pause, cycle, state, auto, cmd, http, net, port, taken, budget, slips>>

LookForUsb ==
    /\ event = "outer"
    /\ Goto(IF usb THEN "waitUsb" ELSE "create")
    /\ UNCHANGED <<pause, mateAtStart, flags, state, auto, cmd, http, net, port, taken, history>>

WaitForUsbOut ==
    /\ event = "waitUsb" /\ "DISCONNECT_USB" \in cycle
    /\ cycle' = cycle \ {"DISCONNECT_USB"}
    /\ Goto("create")
    /\ UNCHANGED <<pause, mateAtStart, wmd, state, auto, cmd, http, net, port, taken, history>>

\* RESTART: the settings are read and checked.
EVT_Create ==
    /\ event = "create"
    /\ IF params
       THEN /\ unitState' = IF unitState = "ERROR" THEN "OK" ELSE unitState
            /\ Goto("arm")
       ELSE unitState' = "ERROR" /\ Goto("invalid")
    /\ UNCHANGED <<pause, mateAtStart, flags, usb, reboot, params, auto, cmd, http, net, port, taken, history>>

\* Every ten seconds: whether the settings have become good.
CheckAgain ==
    /\ event = "invalid"
    /\ \/ params /\ unitState' = "OK" /\ Goto("create")
       \/ ~params /\ usb /\ Goto("outer") /\ UNCHANGED unitState
    /\ UNCHANGED <<pause, mateAtStart, flags, usb, reboot, params, auto, cmd, http, net, port, taken, history>>

\* The timer of one minute is started, old flags are dropped.
Arm ==
    /\ event = "arm" /\ Goto("loop")
    /\ syncTime' = 1
    /\ cycle' = cycle \ {"READY", "CONNECT_USB"}
    /\ auto' = IF auto = "off" THEN "wait" ELSE auto
    /\ UNCHANGED <<waitRequest, mateTimeFlag, mateTime, mateCommand, mateAtStart, wmd, state,
                   cmd, http, net, port, taken, history>>

TakeFlags ==
    /\ event = "loop" /\ cycle \cap {"READY", "CONNECT_USB"} # {}
    /\ took' = cycle \cap {"READY", "CONNECT_USB"}
    /\ cycle' = cycle \ took'
    /\ Goto(IF "CONNECT_USB" \in took' THEN "connected" ELSE "ready")
    /\ UNCHANGED <<pause, mateAtStart, wmd, state, auto, cmd, http, net, port,
                   autoTook, cmdSec, httpSec, history>>

UsbConnected ==
    /\ event = "connected"
    /\ Goto(IF usb THEN "outer" ELSE "loop")
    /\ UNCHANGED <<pause, mateAtStart, flags, state, auto, cmd, http, net, port, taken, history>>

LookForPause ==
    /\ event = "ready"
    /\ Goto(IF waitRequest = "request" THEN "exit" ELSE "unit")
    /\ UNCHANGED <<pause, mateAtStart, flags, state, auto, cmd, http, net, port, taken, history>>

\* UnitState is read twice, here and in LookForError.
LookForReboot ==
    /\ event = "unit"
    /\ IF unitState = "COMMAND"
       THEN reboot' = TRUE /\ Goto("exit")
       ELSE Goto("unit2") /\ UNCHANGED reboot
    /\ UNCHANGED <<pause, mateAtStart, flags, usb, unitState, params, auto, cmd, http, net, port, taken, history>>

\* A state other than OK ends in a sleep; it may be one that the network
\* thread, which resumes first and sets the state after, is about to change.
LookForError ==
    /\ event = "unit2"
    /\ Goto(IF unitState = "OK" THEN "catchUp" ELSE "exit")
    /\ slips' = IF unitState # "OK" /\ net = "ok" THEN slips \cup {"sleep"} ELSE slips
    /\ UNCHANGED <<pause, mateAtStart, flags, state, auto, cmd, http, net, port, taken, budget, want>>

\* An AT start that was put off and that the end of a pause did not find.
LookForStart ==
    /\ event = "catchUp"
    /\ Goto(IF waitRequest = "cancel" /\ mateAtStart THEN "clear" ELSE "measure")
    /\ UNCHANGED <<pause, mateAtStart, flags, state, auto, cmd, http, net, port, taken, history>>

ClearStart ==
    /\ event = "clear" /\ Goto("set")
    /\ mateAtStart' = FALSE
    /\ UNCHANGED <<pause, flags, state, auto, cmd, http, net, port, taken, history>>

SetStart ==
    /\ event = "set" /\ Goto("measure")
    /\ wmd' = wmd \cup {"INITIAL"}
    /\ UNCHANGED <<pause, mateAtStart, cycle, state, auto, cmd, http, net, port, taken, history>>

\* What is scheduled for this minute, if anything is.
Schedule ==
    /\ event = "measure" /\ Goto("loop")
    /\ wmd' \in {wmd, wmd \cup {"MEASURE"}}
    /\ UNCHANGED <<pause, mateAtStart, cycle, state, auto, cmd, http, net, port, taken, history>>

\* EXIT: from here only others can wake the thread.
Suspend ==
    /\ event = "exit" /\ Goto("suspended")
    /\ UNCHANGED <<pause, mateAtStart, flags, state, auto, cmd, http, net, port, taken, history>>

EventStep ==
    \/ EventStart \/ LookForUsb \/ WaitForUsbOut \/ EVT_Create \/ CheckAgain \/ Arm
    \/ TakeFlags \/ UsbConnected \/ LookForPause \/ LookForReboot \/ LookForError
    \/ LookForStart \/ ClearStart \/ SetStart \/ Schedule \/ Suspend

-----------------------------------------------------------------------------
(* The interrupt of the clock, once a second.                              *)

\* Fault: the count is decremented without asking whether it is 0.
CountDownUnguarded ==
    LET left == IF mateTimeFlag THEN mateTime + 1 ELSE mateCommand
    IN  /\ mateTimeFlag' = FALSE
        /\ mateCommand' = left - 1
        /\ IF left = 1
           THEN /\ waitRequest' = "cancel" /\ mateAtStart' = FALSE
                /\ wmd' = IF mateAtStart THEN wmd \cup {"INITIAL"} ELSE wmd
                /\ Wake
           ELSE UNCHANGED <<waitRequest, mateAtStart, wmd, event, slips>>
        /\ UNCHANGED <<mateTime, state, auto, cmd, http, net, port, taken, budget, want>>

\* Fault: a new length is not taken over, the old count goes on.
CountDownOldLength ==
    /\ mateTimeFlag' = FALSE
    /\ mateCommand' = IF mateCommand > 0 THEN mateCommand - 1 ELSE 0
    /\ IF mateCommand = 1
       THEN /\ waitRequest' = "cancel" /\ mateAtStart' = FALSE
            /\ wmd' = IF mateAtStart THEN wmd \cup {"INITIAL"} ELSE wmd
            /\ Wake
       ELSE UNCHANGED <<waitRequest, mateAtStart, wmd, event, slips>>
    /\ UNCHANGED <<mateTime, state, auto, cmd, http, net, port, taken, budget, want>>

\* Fault: the end of the pause leaves the thread asleep.
CountDownNoResume ==
    LET left == IF mateTimeFlag THEN mateTime + 1 ELSE mateCommand
    IN  /\ mateTimeFlag' = FALSE
        /\ mateCommand' = IF left > 0 THEN left - 1 ELSE 0
        /\ IF left = 1
           THEN /\ waitRequest' = "cancel" /\ mateAtStart' = FALSE
                /\ wmd' = IF mateAtStart THEN wmd \cup {"INITIAL"} ELSE wmd
           ELSE UNCHANGED <<waitRequest, mateAtStart, wmd>>
        /\ UNCHANGED <<mateTime, state, event, slips, auto, cmd, http, net, port, taken, budget, want>>

\* Fault: the count stops at 1, and the pause has no end.
CountDownSticks ==
    LET left == IF mateTimeFlag THEN mateTime + 1 ELSE mateCommand
    IN  /\ mateTimeFlag' = FALSE
        /\ mateCommand' = IF left > 1 THEN left - 1 ELSE left
        /\ UNCHANGED <<waitRequest, mateAtStart, wmd, event, slips, mateTime, state, auto, cmd, http,
                       net, port, taken, budget, want>>

\* The timers: a pause that was just asked for is taken over, a running one
\* is counted down; its end resumes the event thread if that one sleeps.
CountDown ==
    LET left == IF mateTimeFlag THEN mateTime + 1 ELSE mateCommand
    IN  /\ mateTimeFlag' = FALSE
        /\ mateCommand' = IF left > 0 THEN left - 1 ELSE 0
        /\ IF left = 1
           THEN /\ waitRequest' = "cancel"
                /\ mateAtStart' = FALSE
                /\ wmd' = IF mateAtStart THEN wmd \cup {"INITIAL"} ELSE wmd
                /\ Wake
           ELSE UNCHANGED <<waitRequest, mateAtStart, wmd, event, slips>>
        /\ UNCHANGED <<mateTime, state, auto, cmd, http, net, port, taken, budget, want>>

\* A second like others.
Second == CountDown /\ UNCHANGED <<syncTime, cycle>>

\* The last second of a minute starts the timer of one minute.  The network
\* thread needs less than a second from resuming the event thread to its
\* next wait, the event thread more than that to get here.
LastSecond ==
    /\ syncTime = 1 /\ net # "ok"
    /\ syncTime' = 2
    /\ CountDown /\ UNCHANGED cycle

\* Every sixtieth second from then on.
Minute ==
    /\ syncTime = 2
    /\ cycle' = cycle \cup {"READY"}
    /\ CountDown /\ UNCHANGED syncTime

time_update_callback == Second \/ LastSecond \/ Minute

-----------------------------------------------------------------------------
(* The auto thread.                                                        *)

\* AUTO_control for INITIAL: with USB connected the start is put off.
AtStart ==
    IF usb THEN mateAtStart' = TRUE /\ UNCHANGED <<want, slips>>
           ELSE want' = FALSE /\ slips' = slips \ LostStart /\ UNCHANGED mateAtStart

AutoTake ==
    /\ auto = "wait" /\ wmd # {}
    /\ autoTook' = wmd /\ wmd' = {}
    /\ auto' = IF "INITIAL" \in wmd THEN "first" ELSE "second"
    /\ UNCHANGED <<pause, mateAtStart, cycle, state, event, cmd, http, net, port,
                   took, cmdSec, httpSec, history>>

\* Fault: INITIAL is taken out of the events before the radio was asked for.
AutoFirstDrops ==
    /\ auto = "first"
    /\ autoTook' = autoTook \ {"INITIAL"}
    /\ AtStart \/ UNCHANGED <<mateAtStart, want, slips>>
    /\ auto' = IF autoTook' = {} THEN "wait" ELSE "second"
    /\ UNCHANGED <<pause, flags, state, event, cmd, http, net, port,
                   took, cmdSec, httpSec, budget>>

\* The first try for INITIAL; if the radio is busy, it stays among the rest.
AutoFirst ==
    /\ auto = "first"
    /\ \/ AtStart /\ autoTook' = autoTook \ {"INITIAL"}
       \/ UNCHANGED <<mateAtStart, want, slips, autoTook>>
    /\ auto' = IF autoTook' = {} THEN "wait" ELSE "second"
    /\ UNCHANGED <<pause, flags, state, event, cmd, http, net, port,
                   took, cmdSec, httpSec, budget>>

\* The rest is made, or dropped with a line in the log when the network is
\* being set up or the radio is busy.
AutoSecond ==
    /\ auto = "second" /\ auto' = "wait"
    /\ autoTook' = {}
    /\ IF "INITIAL" \in autoTook
       THEN AtStart \/ (slips' = slips \cup {"busy"} /\ UNCHANGED <<mateAtStart, want>>)
       ELSE UNCHANGED <<mateAtStart, want, slips>>
    /\ UNCHANGED <<pause, flags, state, event, cmd, http, net, port,
                   took, cmdSec, httpSec, budget>>

AutoStep == AutoTake \/ AutoFirst \/ AutoSecond

-----------------------------------------------------------------------------
(* Commands, in cmd_thread.                                                *)

\* EWAIT: three assignments.
CFWait(sec) ==
    /\ cmd = "idle" /\ Spend
    /\ cmd' = "flag" /\ cmdSec' = sec
    /\ waitRequest' = "request"
    /\ UNCHANGED <<mateTimeFlag, mateTime, mateCommand, syncTime, mateAtStart, flags, state,
                   event, auto, http, net, port, took, autoTook, httpSec, want, slips>>

CmdSetFlag ==
    /\ cmd = "flag" /\ cmd' = "time"
    /\ mateTimeFlag' = TRUE
    /\ UNCHANGED <<waitRequest, mateTime, mateCommand, syncTime, mateAtStart, flags, state,
                   event, auto, http, net, port, taken, history>>

CmdSetTime ==
    /\ cmd = "time" /\ cmd' = "idle"
    /\ mateTime' = cmdSec /\ cmdSec' = 0
    /\ UNCHANGED <<waitRequest, mateTimeFlag, mateCommand, syncTime, mateAtStart, flags, state,
                   event, auto, http, net, port, took, autoTook, httpSec, history>>

\* The registrations were changed: an AT start, at once or after the pause.
RegistChanged ==
    /\ cmd = "idle" /\ Spend
    /\ want' = TRUE
    /\ cmd' = IF waitRequest # "request" THEN "set" ELSE "mark"
    /\ UNCHANGED <<pause, mateAtStart, flags, state, event, auto, http, net, port, taken, slips>>

CmdSetInitial ==
    /\ cmd = "set" /\ cmd' = "clear"
    /\ wmd' = wmd \cup {"INITIAL"}
    /\ UNCHANGED <<pause, mateAtStart, cycle, state, event, auto, http, net, port, taken, history>>

\* The request may have been taken, and put off with mate_at_start, by now.
CmdClearStart ==
    /\ cmd = "clear" /\ cmd' = "idle"
    /\ mateAtStart' = FALSE
    /\ slips' = IF mateAtStart THEN slips \cup {"start"} ELSE slips
    /\ UNCHANGED <<pause, flags, state, event, auto, http, net, port, taken, budget, want>>

CmdMarkStart ==
    /\ cmd = "mark" /\ cmd' = "idle"
    /\ mateAtStart' = TRUE
    /\ UNCHANGED <<pause, flags, state, event, auto, http, net, port, taken, history>>

\* A change of the network settings: the unit has to be started again.
NetworkChanged ==
    /\ cmd = "idle" /\ Spend
    /\ unitState' = "COMMAND"
    /\ UNCHANGED <<pause, mateAtStart, flags, usb, reboot, params, threads, taken, want, slips>>

\* A change of what CheckEventParam looks at.
ParamsChanged ==
    /\ cmd = "idle" /\ Spend
    /\ params' = ~params
    /\ UNCHANGED <<pause, mateAtStart, flags, usb, unitState, reboot, threads, taken, want, slips>>

CmdStep == CmdSetFlag \/ CmdSetTime \/ CmdSetInitial \/ CmdClearStart \/ CmdMarkStart

-----------------------------------------------------------------------------
(* The HTTP thread pauses for requests that came with an answer.           *)

HttpAsks(sec) ==
    /\ http = "idle" /\ Spend
    /\ http' = "request" /\ httpSec' = sec
    /\ UNCHANGED <<pause, mateAtStart, flags, state, event, auto, cmd, net, port,
                   took, autoTook, cmdSec, want, slips>>

HttpSetRequest ==
    /\ http = "request" /\ http' = "flag"
    /\ waitRequest' = "request"
    /\ UNCHANGED <<mateTimeFlag, mateTime, mateCommand, syncTime, mateAtStart, flags, state,
                   event, auto, cmd, net, port, taken, history>>

HttpSetFlag ==
    /\ http = "flag" /\ http' = "time"
    /\ mateTimeFlag' = TRUE
    /\ UNCHANGED <<waitRequest, mateTime, mateCommand, syncTime, mateAtStart, flags, state,
                   event, auto, cmd, net, port, taken, history>>

HttpSetTime ==
    /\ http = "time" /\ http' = "idle"
    /\ mateTime' = httpSec /\ httpSec' = 0
    /\ UNCHANGED <<waitRequest, mateTimeFlag, mateCommand, syncTime, mateAtStart, flags, state,
                   event, auto, cmd, net, port, took, autoTook, cmdSec, history>>

HttpStep == HttpSetRequest \/ HttpSetFlag \/ HttpSetTime

-----------------------------------------------------------------------------
(* The network thread, when the network is up again.                       *)

NetRestart ==
    /\ net = "idle" /\ Spend
    /\ net' = "cycle"
    /\ UNCHANGED <<pause, mateAtStart, flags, state, event, auto, cmd, http, port, taken, want, slips>>

NetClearCycle ==
    /\ net = "cycle" /\ net' = "wmd"
    /\ cycle' = {}
    /\ UNCHANGED <<pause, mateAtStart, wmd, state, event, auto, cmd, http, port, taken, history>>

NetClearWmd ==
    /\ net = "wmd" /\ net' = "resume"
    /\ wmd' = {}
    /\ slips' = IF "INITIAL" \in wmd THEN slips \cup {"network"} ELSE slips
    /\ UNCHANGED <<pause, mateAtStart, cycle, state, event, auto, cmd, http, port, taken, budget, want>>

NetResume ==
    /\ net = "resume" /\ net' = "ok"
    /\ Wake
    /\ UNCHANGED <<pause, mateAtStart, flags, state, auto, cmd, http, port, taken, budget, want>>

\* "OK for the present", whatever the state was.
NetOk ==
    /\ net = "ok" /\ net' = "idle"
    /\ unitState' = "OK"
    /\ UNCHANGED <<pause, mateAtStart, flags, usb, reboot, params, event, auto, cmd, http, port, taken, history>>

NetStep == NetClearCycle \/ NetClearWmd \/ NetResume \/ NetOk

-----------------------------------------------------------------------------
(* The USB port.                                                           *)

UsbIn ==
    /\ port = "idle" /\ ~usb /\ Spend
    /\ usb' = TRUE /\ port' = "up1"
    /\ UNCHANGED <<pause, mateAtStart, flags, unitState, reboot, params, event, auto, cmd, http, net,
                   taken, want, slips>>

UsbOut ==
    /\ port = "idle" /\ usb /\ Spend
    /\ usb' = FALSE /\ port' = "down1"
    /\ UNCHANGED <<pause, mateAtStart, flags, unitState, reboot, params, event, auto, cmd, http, net,
                   taken, want, slips>>

PortClear ==
    /\ \/ port = "up1" /\ port' = "up2" /\ cycle' = cycle \ {"DISCONNECT_USB"}
       \/ port = "down1" /\ port' = "down2" /\ cycle' = cycle \ {"CONNECT_USB"}
    /\ UNCHANGED <<pause, mateAtStart, wmd, state, event, auto, cmd, http, net, taken, history>>

PortSet ==
    /\ port' = "idle"
    /\ \/ port = "up2" /\ cycle' = cycle \cup {"CONNECT_USB"}
       \/ port = "down2" /\ cycle' = cycle \cup {"DISCONNECT_USB"}
    /\ UNCHANGED <<pause, mateAtStart, wmd, state, event, auto, cmd, http, net, taken, history>>

PortStep == PortClear \/ PortSet

-----------------------------------------------------------------------------
\* system_thread gets FLG_REBOOT_EXEC.
SystemReset ==
    /\ reboot
    /\ waitRequest' = "cancel" /\ mateTimeFlag' = FALSE /\ mateTime' = 0
    /\ mateCommand' = 0 /\ mateAtStart' = FALSE /\ syncTime' = 0
    /\ cycle' = {} /\ wmd' = {}
    /\ unitState' = "INIT" /\ reboot' = FALSE
    /\ event' = "off" /\ auto' = "off" /\ cmd' = "idle" /\ http' = "idle"
    /\ net' = "cycle" /\ port' = "idle"
    /\ took' = {} /\ autoTook' = {} /\ cmdSec' = 0 /\ httpSec' = 0
    /\ want' = FALSE /\ slips' = {}
    /\ UNCHANGED <<usb, params, budget>>

Outside ==
    \/ \E sec \in Seconds : CFWait(sec) \/ HttpAsks(sec)
    \/ RegistChanged \/ NetworkChanged \/ ParamsChanged
    \/ NetRestart \/ UsbIn \/ UsbOut

Next == \/ EventStep \/ time_update_callback \/ AutoStep \/ CmdStep \/ HttpStep
        \/ NetStep \/ PortStep \/ SystemReset \/ Outside

Spec == Init /\ [][Next]_vars

\* Every thread that can go on does, and the clock does not stop; what the
\* outside asks for is not assumed.
Fairness ==
    /\ WF_vars(EventStep) /\ WF_vars(AutoStep) /\ WF_vars(CmdStep) /\ WF_vars(HttpStep)
    /\ WF_vars(NetStep) /\ WF_vars(PortStep) /\ WF_vars(SystemReset)
    /\ WF_vars(Second) /\ WF_vars(LastSecond) /\ WF_vars(Minute)

FairSpec == Spec /\ Fairness

-----------------------------------------------------------------------------
(* Properties                                                              *)

\* A pause that is asked for has an end on its way: its length is with the
\* interrupt, or its requester is about to hand it over.  (Three assignments
\* by each requester, cmd_thread_entry.c 7714-7716 and tls_client.c 4356-4360,
\* with the interrupt of system_time.c 180-213 between any two of them.)
PauseHasEnd ==
    waitRequest = "request" =>
        mateTimeFlag \/ mateCommand > 0 \/ cmd = "flag" \/ http = "flag"

\* The event thread sleeps only for a pause, for a reboot, or for a network
\* that is not up, unless it fell asleep in one of the two windows that
\* "sleep" stands for.
SleepHasReason ==
    event = "suspended" /\ "sleep" \notin slips =>
        waitRequest = "request" \/ reboot \/ unitState \in {"COMMAND", "INIT"}

\* An AT start that is due, because the unit started or the registrations
\* changed, is requested, put off or being made, whoever hands it on: but for
\* the windows in LostStart it is never forgotten.
StartKept ==
    want /\ slips \cap LostStart = {} =>
        \/ "INITIAL" \in wmd \/ mateAtStart
        \/ auto \in {"first", "second"} /\ "INITIAL" \in autoTook
        \/ event = "set" \/ cmd \in {"set", "mark"}

\* A sleeping event thread of a unit that is in order is resumed, unless it
\* fell asleep in a window of "sleep".
PauseEnds ==
    (event = "suspended" /\ unitState = "OK" /\ "sleep" \notin slips) ~> event # "suspended"

\* A thread that goes to sleep for a pause is resumed when the pause ends, as
\* event_thread_entry.c says without exception: at 244 that the count-down of
\* WaitRequest resumes it, at 432 that time_update_callback does.  When the
\* interrupt ends the pause between the two it finds nothing to resume.
EveryPauseEnds ==
    (event = "exit" /\ waitRequest = "request" /\ unitState = "OK")
        ~> event \notin {"exit", "suspended"}
=============================================================================
