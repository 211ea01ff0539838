------------------------- MODULE EventThreadProofs -------------------------
(***************************************************************************)
(* Theorems about pausing and resuming autonomous operation, for pauses of *)
(* any length and any number of requests.                                  *)
(***************************************************************************)
EXTENDS EventThread, TLAPS

\* What is true of a thread that sleeps, or is about to, outside the windows.
\* While the network thread is between resuming it and setting the state to OK,
\* only a pause or a reboot is a reason that lasts.
Asleep ==
    event \in {"exit", "suspended"} /\ "sleep" \notin slips =>
        /\ waitRequest = "request" \/ reboot \/ unitState \in {"COMMAND", "INIT"}
        /\ net = "ok" => waitRequest = "request" \/ reboot

\* The thread leaves the places where settings are missing only with a state
\* other than ERROR.
NoError ==
    event \notin {"off", "start", "outer", "waitUsb", "create", "invalid"} => unitState # "ERROR"

\* The first try for INITIAL is made only when it is among the events.
FirstHasInitial == auto = "first" => "INITIAL" \in autoTook

\* TypeOK in parts: numbers, truth values, the rest.
Numbers ==
    /\ mateTime \in Seconds \cup {0} /\ mateCommand \in Nat
    /\ cmdSec \in Seconds \cup {0} /\ httpSec \in Seconds \cup {0}
    /\ syncTime \in 0 .. 2 /\ budget \in 0 .. Budget
Truths ==
    /\ mateTimeFlag \in BOOLEAN /\ mateAtStart \in BOOLEAN /\ want \in BOOLEAN
    /\ usb \in BOOLEAN /\ reboot \in BOOLEAN /\ params \in BOOLEAN
Places ==
    /\ waitRequest \in {"request", "cancel"}
    /\ cycle \subseteq {"READY", "CONNECT_USB", "DISCONNECT_USB"}
    /\ wmd \subseteq {"INITIAL", "MEASURE"}
    /\ unitState \in {"INIT", "OK", "ERROR", "COMMAND"}
    /\ event \in EventAt
    /\ auto \in {"off", "wait", "first", "second"}
    /\ cmd \in {"idle", "request", "flag", "time", "set", "clear", "mark"}
    /\ http \in {"idle", "request", "flag", "time"}
    /\ net \in {"idle", "cycle", "wmd", "resume", "ok"}
    /\ port \in {"idle", "up1", "up2", "down1", "down2"}
    /\ took \subseteq {"READY", "CONNECT_USB"}
    /\ autoTook \subseteq {"INITIAL", "MEASURE"}
    /\ slips \subseteq Slips

LEMMA TypeParts == TypeOK <=> Numbers /\ Truths /\ Places
BY DEF TypeOK, Numbers, Truths, Places

IInv == Numbers /\ Truths /\ Places /\ PauseHasEnd /\ Asleep /\ NoError /\ FirstHasInitial /\ StartKept

LEMMA InitIInv == Init => IInv
<1> SUFFICES ASSUME Init PROVE IInv
  OBVIOUS
<1> USE SecondsAssumption, BudgetAssumption DEF Init, EventAt, Slips, LostStart
<1>1. Numbers /\ Truths /\ Places
  <2>1. Numbers BY DEF Numbers
  <2>2. Truths BY DEF Truths
  <2>3. Places BY DEF Places
  <2> QED BY <2>1, <2>2, <2>3
<1>2. PauseHasEnd /\ Asleep /\ NoError /\ FirstHasInitial /\ StartKept
  BY DEF PauseHasEnd, Asleep, NoError, FirstHasInitial, StartKept
<1> QED BY <1>1, <1>2 DEF IInv

-----------------------------------------------------------------------------
(* Each action keeps the invariant.                                        *)

LEMMA EventIInv == IInv /\ EventStep => IInv'
<1> SUFFICES ASSUME IInv, EventStep PROVE IInv'
  OBVIOUS
<1>a. Numbers /\ Truths /\ Places /\ PauseHasEnd /\ Asleep /\ NoError /\ FirstHasInitial /\ StartKept
  BY DEF IInv
<1> USE <1>a, SecondsAssumption, BudgetAssumption
       DEF pause, flags, state, threads, taken, history, Slips, LostStart, EventAt
<1>1. CASE EventStart
  <2> USE <1>1 DEF EventStart, Goto
  <2>1. Numbers' BY DEF Numbers
  <2>2. Truths' BY DEF Truths
  <2>3. Places'
    <3>1. wmd' \subseteq {"INITIAL", "MEASURE"} BY DEF Places
    <3>2. auto' = auto BY DEF Places
    <3> QED BY <3>1, <3>2 DEF Places
  <2>4. PauseHasEnd' BY DEF PauseHasEnd, Numbers, Truths, Places
  <2>5. Asleep' BY DEF Asleep, Numbers, Truths, Places, NoError
  <2>6. NoError' /\ FirstHasInitial' BY DEF NoError, FirstHasInitial, Numbers, Truths, Places
  <2>7. StartKept' BY DEF StartKept, Numbers, Truths, Places
  <2> QED BY <2>1, <2>2, <2>3, <2>4, <2>5, <2>6, <2>7 DEF IInv
<1>2. CASE LookForUsb
  <2> USE <1>2 DEF LookForUsb, Goto
  <2>1. Numbers' BY DEF Numbers
  <2>2. Truths' BY DEF Truths
  <2>3. Places' BY DEF Places
  <2>4. PauseHasEnd' BY DEF PauseHasEnd, Numbers, Truths, Places
  <2>5. Asleep' BY DEF Asleep, Numbers, Truths, Places, NoError
  <2>6. NoError' /\ FirstHasInitial' BY DEF NoError, FirstHasInitial, Numbers, Truths, Places
  <2>7. StartKept' BY DEF StartKept, Numbers, Truths, Places
  <2> QED BY <2>1, <2>2, <2>3, <2>4, <2>5, <2>6, <2>7 DEF IInv
<1>3. CASE WaitForUsbOut
  <2> USE <1>3 DEF WaitForUsbOut, Goto
  <2>1. Numbers' BY DEF Numbers
  <2>2. Truths' BY DEF Truths
  <2>3. Places' BY DEF Places
  <2>4. PauseHasEnd' BY DEF PauseHasEnd, Numbers, Truths, Places
  <2>5. Asleep' BY DEF Asleep, Numbers, Truths, Places, NoError
  <2>6. NoError' /\ FirstHasInitial' BY DEF NoError, FirstHasInitial, Numbers, Truths, Places
  <2>7. StartKept' BY DEF StartKept, Numbers, Truths, Places
  <2> QED BY <2>1, <2>2, <2>3, <2>4, <2>5, <2>6, <2>7 DEF IInv
<1>4. CASE EVT_Create
  <2> USE <1>4 DEF EVT_Create, Goto
  <2>1. Numbers' BY DEF Numbers
  <2>2. Truths' BY DEF Truths
  <2>3. Places' BY DEF Places
  <2>4. PauseHasEnd' BY DEF PauseHasEnd, Numbers, Truths, Places
  <2>5. Asleep' BY DEF Asleep, Numbers, Truths, Places, NoError
  <2>6. NoError' /\ FirstHasInitial' BY DEF NoError, FirstHasInitial, Numbers, Truths, Places
  <2>7. StartKept' BY DEF StartKept, Numbers, Truths, Places
  <2> QED BY <2>1, <2>2, <2>3, <2>4, <2>5, <2>6, <2>7 DEF IInv
<1>5. CASE CheckAgain
  <2> USE <1>5 DEF CheckAgain, Goto
  <2>1. Numbers' BY DEF Numbers
  <2>2. Truths' BY DEF Truths
  <2>3. Places' BY DEF Places
  <2>4. PauseHasEnd' BY DEF PauseHasEnd, Numbers, Truths, Places
  <2>5. Asleep' BY DEF Asleep, Numbers, Truths, Places, NoError
  <2>6. NoError' /\ FirstHasInitial' BY DEF NoError, FirstHasInitial, Numbers, Truths, Places
  <2>7. StartKept' BY DEF StartKept, Numbers, Truths, Places
  <2> QED BY <2>1, <2>2, <2>3, <2>4, <2>5, <2>6, <2>7 DEF IInv
<1>6. CASE Arm
  <2> USE <1>6 DEF Arm, Goto
  <2>1. Numbers' BY DEF Numbers
  <2>2. Truths' BY DEF Truths
  <2>3. Places' BY DEF Places
  <2>4. PauseHasEnd' BY DEF PauseHasEnd, Numbers, Truths, Places
  <2>5. Asleep' BY DEF Asleep, Numbers, Truths, Places, NoError
  <2>6. NoError' /\ FirstHasInitial' BY DEF NoError, FirstHasInitial, Numbers, Truths, Places
  <2>7. StartKept' BY DEF StartKept, Numbers, Truths, Places
  <2> QED BY <2>1, <2>2, <2>3, <2>4, <2>5, <2>6, <2>7 DEF IInv
<1>7. CASE TakeFlags
  <2> USE <1>7 DEF TakeFlags, Goto
  <2>1. Numbers' BY DEF Numbers
  <2>2. Truths' BY DEF Truths
  <2>3. Places' BY DEF Places
  <2>4. PauseHasEnd' BY DEF PauseHasEnd, Numbers, Truths, Places
  <2>5. Asleep' BY DEF Asleep, Numbers, Truths, Places, NoError
  <2>6. NoError' /\ FirstHasInitial' BY DEF NoError, FirstHasInitial, Numbers, Truths, Places
  <2>7. StartKept' BY DEF StartKept, Numbers, Truths, Places
  <2> QED BY <2>1, <2>2, <2>3, <2>4, <2>5, <2>6, <2>7 DEF IInv
<1>8. CASE UsbConnected
  <2> USE <1>8 DEF UsbConnected, Goto
  <2>1. Numbers' BY DEF Numbers
  <2>2. Truths' BY DEF Truths
  <2>3. Places' BY DEF Places
  <2>4. PauseHasEnd' BY DEF PauseHasEnd, Numbers, Truths, Places
  <2>5. Asleep' BY DEF Asleep, Numbers, Truths, Places, NoError
  <2>6. NoError' /\ FirstHasInitial' BY DEF NoError, FirstHasInitial, Numbers, Truths, Places
  <2>7. StartKept' BY DEF StartKept, Numbers, Truths, Places
  <2> QED BY <2>1, <2>2, <2>3, <2>4, <2>5, <2>6, <2>7 DEF IInv
<1>9. CASE LookForPause
  <2> USE <1>9 DEF LookForPause, Goto
  <2>1. Numbers' BY DEF Numbers
  <2>2. Truths' BY DEF Truths
  <2>3. Places' BY DEF Places
  <2>4. PauseHasEnd' BY DEF PauseHasEnd, Numbers, Truths, Places
  <2>5. Asleep' BY DEF Asleep, Numbers, Truths, Places, NoError
  <2>6. NoError' /\ FirstHasInitial' BY DEF NoError, FirstHasInitial, Numbers, Truths, Places
  <2>7. StartKept' BY DEF StartKept, Numbers, Truths, Places
  <2> QED BY <2>1, <2>2, <2>3, <2>4, <2>5, <2>6, <2>7 DEF IInv
<1>10. CASE LookForReboot
  <2> USE <1>10 DEF LookForReboot, Goto
  <2>1. Numbers' BY DEF Numbers
  <2>2. Truths' BY DEF Truths
  <2>3. Places' BY DEF Places
  <2>4. PauseHasEnd' BY DEF PauseHasEnd, Numbers, Truths, Places
  <2>5. Asleep' BY DEF Asleep, Numbers, Truths, Places, NoError
  <2>6. NoError' /\ FirstHasInitial' BY DEF NoError, FirstHasInitial, Numbers, Truths, Places
  <2>7. StartKept' BY DEF StartKept, Numbers, Truths, Places
  <2> QED BY <2>1, <2>2, <2>3, <2>4, <2>5, <2>6, <2>7 DEF IInv
<1>11. CASE LookForError
  <2> USE <1>11 DEF LookForError, Goto
  <2>1. Numbers' BY DEF Numbers
  <2>2. Truths' BY DEF Truths
  <2>3. Places' BY DEF Places
  <2>4. PauseHasEnd' BY DEF PauseHasEnd, Numbers, Truths, Places
  <2>5. Asleep' BY DEF Asleep, Numbers, Truths, Places, NoError
  <2>6. NoError' /\ FirstHasInitial' BY DEF NoError, FirstHasInitial, Numbers, Truths, Places
  <2>7. StartKept' BY DEF StartKept, Numbers, Truths, Places
  <2> QED BY <2>1, <2>2, <2>3, <2>4, <2>5, <2>6, <2>7 DEF IInv
<1>12. CASE LookForStart
  <2> USE <1>12 DEF LookForStart, Goto
  <2>1. Numbers' BY DEF Numbers
  <2>2. Truths' BY DEF Truths
  <2>3. Places' BY DEF Places
  <2>4. PauseHasEnd' BY DEF PauseHasEnd, Numbers, Truths, Places
  <2>5. Asleep' BY DEF Asleep, Numbers, Truths, Places, NoError
  <2>6. NoError' /\ FirstHasInitial' BY DEF NoError, FirstHasInitial, Numbers, Truths, Places
  <2>7. StartKept' BY DEF StartKept, Numbers, Truths, Places
  <2> QED BY <2>1, <2>2, <2>3, <2>4, <2>5, <2>6, <2>7 DEF IInv
<1>13. CASE ClearStart
  <2> USE <1>13 DEF ClearStart, Goto
  <2>1. Numbers' BY DEF Numbers
  <2>2. Truths' BY DEF Truths
  <2>3. Places' BY DEF Places
  <2>4. PauseHasEnd' BY DEF PauseHasEnd, Numbers, Truths, Places
  <2>5. Asleep' BY DEF Asleep, Numbers, Truths, Places, NoError
  <2>6. NoError' /\ FirstHasInitial' BY DEF NoError, FirstHasInitial, Numbers, Truths, Places
  <2>7. StartKept' BY DEF StartKept, Numbers, Truths, Places
  <2> QED BY <2>1, <2>2, <2>3, <2>4, <2>5, <2>6, <2>7 DEF IInv
<1>14. CASE SetStart
  <2> USE <1>14 DEF SetStart, Goto
  <2>1. Numbers' BY DEF Numbers
  <2>2. Truths' BY DEF Truths
  <2>3. Places' BY DEF Places
  <2>4. PauseHasEnd' BY DEF PauseHasEnd, Numbers, Truths, Places
  <2>5. Asleep' BY DEF Asleep, Numbers, Truths, Places, NoError
  <2>6. NoError' /\ FirstHasInitial' BY DEF NoError, FirstHasInitial, Numbers, Truths, Places
  <2>7. StartKept' BY DEF StartKept, Numbers, Truths, Places
  <2> QED BY <2>1, <2>2, <2>3, <2>4, <2>5, <2>6, <2>7 DEF IInv
<1>15. CASE Schedule
  <2> USE <1>15 DEF Schedule, Goto
  <2>1. Numbers' BY DEF Numbers
  <2>2. Truths' BY DEF Truths
  <2>3. Places' BY DEF Places
  <2>4. PauseHasEnd' BY DEF PauseHasEnd, Numbers, Truths, Places
  <2>5. Asleep' BY DEF Asleep, Numbers, Truths, Places, NoError
  <2>6. NoError' /\ FirstHasInitial' BY DEF NoError, FirstHasInitial, Numbers, Truths, Places
  <2>7. StartKept' BY DEF StartKept, Numbers, Truths, Places
  <2> QED BY <2>1, <2>2, <2>3, <2>4, <2>5, <2>6, <2>7 DEF IInv
<1>16. CASE Suspend
  <2> USE <1>16 DEF Suspend, Goto
  <2>1. Numbers' BY DEF Numbers
  <2>2. Truths' BY DEF Truths
  <2>3. Places' BY DEF Places
  <2>4. PauseHasEnd' BY DEF PauseHasEnd, Numbers, Truths, Places
  <2>5. Asleep' BY DEF Asleep, Numbers, Truths, Places, NoError
  <2>6. NoError' /\ FirstHasInitial' BY DEF NoError, FirstHasInitial, Numbers, Truths, Places
  <2>7. StartKept' BY DEF StartKept, Numbers, Truths, Places
  <2> QED BY <2>1, <2>2, <2>3, <2>4, <2>5, <2>6, <2>7 DEF IInv
<1> QED BY <1>1, <1>2, <1>3, <1>4, <1>5, <1>6, <1>7, <1>8, <1>9, <1>10, <1>11, <1>12, <1>13, <1>14, <1>15, <1>16 DEF EventStep

LEMMA ClockIInv == IInv /\ time_update_callback => IInv'
<1> SUFFICES ASSUME IInv, time_update_callback PROVE IInv'
  OBVIOUS
<1>a. Numbers /\ Truths /\ Places /\ PauseHasEnd /\ Asleep /\ NoError /\ FirstHasInitial /\ StartKept
  BY DEF IInv
<1> USE <1>a, SecondsAssumption, BudgetAssumption
       DEF pause, flags, state, threads, taken, history, Slips, LostStart, EventAt
<1>1. CASE Second
  <2> USE <1>1 DEF Second, CountDown, Wake
  <2>1. Numbers' BY DEF Numbers
  <2>2. Truths' BY DEF Truths
  <2>3. Places' BY DEF Places
  <2>4. PauseHasEnd' BY DEF PauseHasEnd, Numbers, Truths, Places
  <2>5. Asleep' BY DEF Asleep, Numbers, Truths, Places, NoError
  <2>6. NoError' /\ FirstHasInitial' BY DEF NoError, FirstHasInitial, Numbers, Truths, Places
  <2>7. StartKept' BY DEF StartKept, Numbers, Truths, Places
  <2> QED BY <2>1, <2>2, <2>3, <2>4, <2>5, <2>6, <2>7 DEF IInv
<1>2. CASE LastSecond
  <2> USE <1>2 DEF LastSecond, CountDown, Wake
  <2>1. Numbers' BY DEF Numbers
  <2>2. Truths' BY DEF Truths
  <2>3. Places' BY DEF Places
  <2>4. PauseHasEnd' BY DEF PauseHasEnd, Numbers, Truths, Places
  <2>5. Asleep' BY DEF Asleep, Numbers, Truths, Places, NoError
  <2>6. NoError' /\ FirstHasInitial' BY DEF NoError, FirstHasInitial, Numbers, Truths, Places
  <2>7. StartKept' BY DEF StartKept, Numbers, Truths, Places
  <2> QED BY <2>1, <2>2, <2>3, <2>4, <2>5, <2>6, <2>7 DEF IInv
<1>3. CASE Minute
  <2> USE <1>3 DEF Minute, CountDown, Wake
  <2>1. Numbers' BY DEF Numbers
  <2>2. Truths' BY DEF Truths
  <2>3. Places' BY DEF Places
  <2>4. PauseHasEnd' BY DEF PauseHasEnd, Numbers, Truths, Places
  <2>5. Asleep' BY DEF Asleep, Numbers, Truths, Places, NoError
  <2>6. NoError' /\ FirstHasInitial' BY DEF NoError, FirstHasInitial, Numbers, Truths, Places
  <2>7. StartKept' BY DEF StartKept, Numbers, Truths, Places
  <2> QED BY <2>1, <2>2, <2>3, <2>4, <2>5, <2>6, <2>7 DEF IInv
<1> QED BY <1>1, <1>2, <1>3 DEF time_update_callback

LEMMA AutoIInv == IInv /\ AutoStep => IInv'
<1> SUFFICES ASSUME IInv, AutoStep PROVE IInv'
  OBVIOUS
<1>a. Numbers /\ Truths /\ Places /\ PauseHasEnd /\ Asleep /\ NoError /\ FirstHasInitial /\ StartKept
  BY DEF IInv
<1> USE <1>a, SecondsAssumption, BudgetAssumption
       DEF pause, flags, state, threads, taken, history, Slips, LostStart, EventAt
<1>1. CASE AutoTake
  <2> USE <1>1 DEF AutoTake
  <2>1. Numbers' BY DEF Numbers
  <2>2. Truths' BY DEF Truths
  <2>3. Places' BY DEF Places
  <2>4. PauseHasEnd' BY DEF PauseHasEnd, Numbers, Truths, Places
  <2>5. Asleep' BY DEF Asleep, Numbers, Truths, Places, NoError
  <2>6. NoError' /\ FirstHasInitial' BY DEF NoError, FirstHasInitial, Numbers, Truths, Places
  <2>7. StartKept' BY DEF StartKept, Numbers, Truths, Places
  <2> QED BY <2>1, <2>2, <2>3, <2>4, <2>5, <2>6, <2>7 DEF IInv
<1>2. CASE AutoFirst
  <2> USE <1>2 DEF AutoFirst, AtStart
  <2>1. Numbers' BY DEF Numbers
  <2>2. Truths' BY DEF Truths
  <2>3. Places'
    <3>1. slips' \subseteq Slips BY DEF Places
    <3>2. autoTook' \subseteq {"INITIAL", "MEASURE"} BY DEF Places
    <3> QED BY <3>1, <3>2 DEF Places
  <2>4. PauseHasEnd' BY DEF PauseHasEnd, Numbers, Truths, Places
  <2>5. Asleep' BY DEF Asleep, Numbers, Truths, Places, NoError
  <2>6. NoError' /\ FirstHasInitial' BY DEF NoError, FirstHasInitial, Numbers, Truths, Places
  <2>7. StartKept' BY DEF StartKept, Numbers, Truths, Places
  <2> QED BY <2>1, <2>2, <2>3, <2>4, <2>5, <2>6, <2>7 DEF IInv
<1>3. CASE AutoSecond
  <2> USE <1>3 DEF AutoSecond, AtStart
  <2>1. Numbers' BY DEF Numbers
  <2>2. Truths' BY DEF Truths
  <2>3. Places'
    <3>1. slips' \subseteq Slips BY DEF Places
    <3>2. autoTook' = {} BY DEF Places
    <3> QED BY <3>1, <3>2 DEF Places
  <2>4. PauseHasEnd' BY DEF PauseHasEnd, Numbers, Truths, Places
  <2>5. Asleep' BY DEF Asleep, Numbers, Truths, Places, NoError
  <2>6. NoError' /\ FirstHasInitial' BY DEF NoError, FirstHasInitial, Numbers, Truths, Places
  <2>7. StartKept' BY DEF StartKept, Numbers, Truths, Places
  <2> QED BY <2>1, <2>2, <2>3, <2>4, <2>5, <2>6, <2>7 DEF IInv
<1> QED BY <1>1, <1>2, <1>3 DEF AutoStep

LEMMA CmdIInv == IInv /\ CmdStep => IInv'
<1> SUFFICES ASSUME IInv, CmdStep PROVE IInv'
  OBVIOUS
<1>a. Numbers /\ Truths /\ Places /\ PauseHasEnd /\ Asleep /\ NoError /\ FirstHasInitial /\ StartKept
  BY DEF IInv
<1> USE <1>a, SecondsAssumption, BudgetAssumption
       DEF pause, flags, state, threads, taken, history, Slips, LostStart, EventAt
<1>1. CASE CmdSetFlag
  <2> USE <1>1 DEF CmdSetFlag
  <2>1. Numbers' BY DEF Numbers
  <2>2. Truths' BY DEF Truths
  <2>3. Places' BY DEF Places
  <2>4. PauseHasEnd' BY DEF PauseHasEnd, Numbers, Truths, Places
  <2>5. Asleep' BY DEF Asleep, Numbers, Truths, Places, NoError
  <2>6. NoError' /\ FirstHasInitial' BY DEF NoError, FirstHasInitial, Numbers, Truths, Places
  <2>7. StartKept' BY DEF StartKept, Numbers, Truths, Places
  <2> QED BY <2>1, <2>2, <2>3, <2>4, <2>5, <2>6, <2>7 DEF IInv
<1>2. CASE CmdSetTime
  <2> USE <1>2 DEF CmdSetTime
  <2>1. Numbers' BY DEF Numbers
  <2>2. Truths' BY DEF Truths
  <2>3. Places' BY DEF Places
  <2>4. PauseHasEnd' BY DEF PauseHasEnd, Numbers, Truths, Places
  <2>5. Asleep' BY DEF Asleep, Numbers, Truths, Places, NoError
  <2>6. NoError' /\ FirstHasInitial' BY DEF NoError, FirstHasInitial, Numbers, Truths, Places
  <2>7. StartKept' BY DEF StartKept, Numbers, Truths, Places
  <2> QED BY <2>1, <2>2, <2>3, <2>4, <2>5, <2>6, <2>7 DEF IInv
<1>3. CASE CmdSetInitial
  <2> USE <1>3 DEF CmdSetInitial
  <2>1. Numbers' BY DEF Numbers
  <2>2. Truths' BY DEF Truths
  <2>3. Places' BY DEF Places
  <2>4. PauseHasEnd' BY DEF PauseHasEnd, Numbers, Truths, Places
  <2>5. Asleep' BY DEF Asleep, Numbers, Truths, Places, NoError
  <2>6. NoError' /\ FirstHasInitial' BY DEF NoError, FirstHasInitial, Numbers, Truths, Places
  <2>7. StartKept' BY DEF StartKept, Numbers, Truths, Places
  <2> QED BY <2>1, <2>2, <2>3, <2>4, <2>5, <2>6, <2>7 DEF IInv
<1>4. CASE CmdClearStart
  <2> USE <1>4 DEF CmdClearStart
  <2>1. Numbers' BY DEF Numbers
  <2>2. Truths' BY DEF Truths
  <2>3. Places' BY DEF Places
  <2>4. PauseHasEnd' BY DEF PauseHasEnd, Numbers, Truths, Places
  <2>5. Asleep' BY DEF Asleep, Numbers, Truths, Places, NoError
  <2>6. NoError' /\ FirstHasInitial' BY DEF NoError, FirstHasInitial, Numbers, Truths, Places
  <2>7. StartKept' BY DEF StartKept, Numbers, Truths, Places
  <2> QED BY <2>1, <2>2, <2>3, <2>4, <2>5, <2>6, <2>7 DEF IInv
<1>5. CASE CmdMarkStart
  <2> USE <1>5 DEF CmdMarkStart
  <2>1. Numbers' BY DEF Numbers
  <2>2. Truths' BY DEF Truths
  <2>3. Places' BY DEF Places
  <2>4. PauseHasEnd' BY DEF PauseHasEnd, Numbers, Truths, Places
  <2>5. Asleep' BY DEF Asleep, Numbers, Truths, Places, NoError
  <2>6. NoError' /\ FirstHasInitial' BY DEF NoError, FirstHasInitial, Numbers, Truths, Places
  <2>7. StartKept' BY DEF StartKept, Numbers, Truths, Places
  <2> QED BY <2>1, <2>2, <2>3, <2>4, <2>5, <2>6, <2>7 DEF IInv
<1> QED BY <1>1, <1>2, <1>3, <1>4, <1>5 DEF CmdStep

LEMMA HttpIInv == IInv /\ HttpStep => IInv'
<1> SUFFICES ASSUME IInv, HttpStep PROVE IInv'
  OBVIOUS
<1>a. Numbers /\ Truths /\ Places /\ PauseHasEnd /\ Asleep /\ NoError /\ FirstHasInitial /\ StartKept
  BY DEF IInv
<1> USE <1>a, SecondsAssumption, BudgetAssumption
       DEF pause, flags, state, threads, taken, history, Slips, LostStart, EventAt
<1>1. CASE HttpSetRequest
  <2> USE <1>1 DEF HttpSetRequest
  <2>1. Numbers' BY DEF Numbers
  <2>2. Truths' BY DEF Truths
  <2>3. Places' BY DEF Places
  <2>4. PauseHasEnd' BY DEF PauseHasEnd, Numbers, Truths, Places
  <2>5. Asleep' BY DEF Asleep, Numbers, Truths, Places, NoError
  <2>6. NoError' /\ FirstHasInitial' BY DEF NoError, FirstHasInitial, Numbers, Truths, Places
  <2>7. StartKept' BY DEF StartKept, Numbers, Truths, Places
  <2> QED BY <2>1, <2>2, <2>3, <2>4, <2>5, <2>6, <2>7 DEF IInv
<1>2. CASE HttpSetFlag
  <2> USE <1>2 DEF HttpSetFlag
  <2>1. Numbers' BY DEF Numbers
  <2>2. Truths' BY DEF Truths
  <2>3. Places' BY DEF Places
  <2>4. PauseHasEnd' BY DEF PauseHasEnd, Numbers, Truths, Places
  <2>5. Asleep' BY DEF Asleep, Numbers, Truths, Places, NoError
  <2>6. NoError' /\ FirstHasInitial' BY DEF NoError, FirstHasInitial, Numbers, Truths, Places
  <2>7. StartKept' BY DEF StartKept, Numbers, Truths, Places
  <2> QED BY <2>1, <2>2, <2>3, <2>4, <2>5, <2>6, <2>7 DEF IInv
<1>3. CASE HttpSetTime
  <2> USE <1>3 DEF HttpSetTime
  <2>1. Numbers' BY DEF Numbers
  <2>2. Truths' BY DEF Truths
  <2>3. Places' BY DEF Places
  <2>4. PauseHasEnd' BY DEF PauseHasEnd, Numbers, Truths, Places
  <2>5. Asleep' BY DEF Asleep, Numbers, Truths, Places, NoError
  <2>6. NoError' /\ FirstHasInitial' BY DEF NoError, FirstHasInitial, Numbers, Truths, Places
  <2>7. StartKept' BY DEF StartKept, Numbers, Truths, Places
  <2> QED BY <2>1, <2>2, <2>3, <2>4, <2>5, <2>6, <2>7 DEF IInv
<1> QED BY <1>1, <1>2, <1>3 DEF HttpStep

LEMMA NetIInv == IInv /\ NetStep => IInv'
<1> SUFFICES ASSUME IInv, NetStep PROVE IInv'
  OBVIOUS
<1>a. Numbers /\ Truths /\ Places /\ PauseHasEnd /\ Asleep /\ NoError /\ FirstHasInitial /\ StartKept
  BY DEF IInv
<1> USE <1>a, SecondsAssumption, BudgetAssumption
       DEF pause, flags, state, threads, taken, history, Slips, LostStart, EventAt
<1>1. CASE NetClearCycle
  <2> USE <1>1 DEF NetClearCycle
  <2>1. Numbers' BY DEF Numbers
  <2>2. Truths' BY DEF Truths
  <2>3. Places' BY DEF Places
  <2>4. PauseHasEnd' BY DEF PauseHasEnd, Numbers, Truths, Places
  <2>5. Asleep' BY DEF Asleep, Numbers, Truths, Places, NoError
  <2>6. NoError' /\ FirstHasInitial' BY DEF NoError, FirstHasInitial, Numbers, Truths, Places
  <2>7. StartKept' BY DEF StartKept, Numbers, Truths, Places
  <2> QED BY <2>1, <2>2, <2>3, <2>4, <2>5, <2>6, <2>7 DEF IInv
<1>2. CASE NetClearWmd
  <2> USE <1>2 DEF NetClearWmd
  <2>1. Numbers' BY DEF Numbers
  <2>2. Truths' BY DEF Truths
  <2>3. Places' BY DEF Places
  <2>4. PauseHasEnd' BY DEF PauseHasEnd, Numbers, Truths, Places
  <2>5. Asleep' BY DEF Asleep, Numbers, Truths, Places, NoError
  <2>6. NoError' /\ FirstHasInitial' BY DEF NoError, FirstHasInitial, Numbers, Truths, Places
  <2>7. StartKept' BY DEF StartKept, Numbers, Truths, Places
  <2> QED BY <2>1, <2>2, <2>3, <2>4, <2>5, <2>6, <2>7 DEF IInv
<1>3. CASE NetResume
  <2> USE <1>3 DEF NetResume, Wake
  <2>1. Numbers' BY DEF Numbers
  <2>2. Truths' BY DEF Truths
  <2>3. Places' BY DEF Places
  <2>4. PauseHasEnd' BY DEF PauseHasEnd, Numbers, Truths, Places
  <2>5. Asleep' BY DEF Asleep, Numbers, Truths, Places, NoError
  <2>6. NoError' /\ FirstHasInitial' BY DEF NoError, FirstHasInitial, Numbers, Truths, Places
  <2>7. StartKept' BY DEF StartKept, Numbers, Truths, Places
  <2> QED BY <2>1, <2>2, <2>3, <2>4, <2>5, <2>6, <2>7 DEF IInv
<1>4. CASE NetOk
  <2> USE <1>4 DEF NetOk
  <2>1. Numbers' BY DEF Numbers
  <2>2. Truths' BY DEF Truths
  <2>3. Places' BY DEF Places
  <2>4. PauseHasEnd' BY DEF PauseHasEnd, Numbers, Truths, Places
  <2>5. Asleep' BY DEF Asleep, Numbers, Truths, Places, NoError
  <2>6. NoError' /\ FirstHasInitial' BY DEF NoError, FirstHasInitial, Numbers, Truths, Places
  <2>7. StartKept' BY DEF StartKept, Numbers, Truths, Places
  <2> QED BY <2>1, <2>2, <2>3, <2>4, <2>5, <2>6, <2>7 DEF IInv
<1> QED BY <1>1, <1>2, <1>3, <1>4 DEF NetStep

LEMMA PortIInv == IInv /\ PortStep => IInv'
<1> SUFFICES ASSUME IInv, PortStep PROVE IInv'
  OBVIOUS
<1>a. Numbers /\ Truths /\ Places /\ PauseHasEnd /\ Asleep /\ NoError /\ FirstHasInitial /\ StartKept
  BY DEF IInv
<1> USE <1>a, SecondsAssumption, BudgetAssumption
       DEF pause, flags, state, threads, taken, history, Slips, LostStart, EventAt
<1>1. CASE PortClear
  <2> USE <1>1 DEF PortClear
  <2>1. Numbers' BY DEF Numbers
  <2>2. Truths' BY DEF Truths
  <2>3. Places'
    <3>1. cycle' \subseteq {"READY", "CONNECT_USB", "DISCONNECT_USB"} BY DEF Places
    <3>2. port' \in {"up2", "down2"} BY DEF Places
    <3> QED BY <3>1, <3>2 DEF Places
  <2>4. PauseHasEnd' BY DEF PauseHasEnd, Numbers, Truths, Places
  <2>5. Asleep' BY DEF Asleep, Numbers, Truths, Places, NoError
  <2>6. NoError' /\ FirstHasInitial' BY DEF NoError, FirstHasInitial, Numbers, Truths, Places
  <2>7. StartKept' BY DEF StartKept, Numbers, Truths, Places
  <2> QED BY <2>1, <2>2, <2>3, <2>4, <2>5, <2>6, <2>7 DEF IInv
<1>2. CASE PortSet
  <2> USE <1>2 DEF PortSet
  <2>1. Numbers' BY DEF Numbers
  <2>2. Truths' BY DEF Truths
  <2>3. Places'
    <3>1. cycle' \subseteq {"READY", "CONNECT_USB", "DISCONNECT_USB"} BY DEF Places
    <3>2. port' = "idle" BY DEF Places
    <3> QED BY <3>1, <3>2 DEF Places
  <2>4. PauseHasEnd' BY DEF PauseHasEnd, Numbers, Truths, Places
  <2>5. Asleep' BY DEF Asleep, Numbers, Truths, Places, NoError
  <2>6. NoError' /\ FirstHasInitial' BY DEF NoError, FirstHasInitial, Numbers, Truths, Places
  <2>7. StartKept' BY DEF StartKept, Numbers, Truths, Places
  <2> QED BY <2>1, <2>2, <2>3, <2>4, <2>5, <2>6, <2>7 DEF IInv
<1> QED BY <1>1, <1>2 DEF PortStep

LEMMA OutsideIInv == IInv /\ Outside => IInv'
<1> SUFFICES ASSUME IInv, Outside PROVE IInv'
  OBVIOUS
<1>a. Numbers /\ Truths /\ Places /\ PauseHasEnd /\ Asleep /\ NoError /\ FirstHasInitial /\ StartKept
  BY DEF IInv
<1> USE <1>a, SecondsAssumption, BudgetAssumption
       DEF pause, flags, state, threads, taken, history, Slips, LostStart, EventAt
<1>1. ASSUME NEW sec \in Seconds, CFWait(sec) PROVE IInv'
  <2> USE <1>1 DEF CFWait, Spend
  <2>1. Numbers' BY DEF Numbers
  <2>2. Truths' BY DEF Truths
  <2>3. Places' BY DEF Places
  <2>4. PauseHasEnd' BY DEF PauseHasEnd, Numbers, Truths, Places
  <2>5. Asleep' BY DEF Asleep, Numbers, Truths, Places, NoError
  <2>6. NoError' /\ FirstHasInitial' BY DEF NoError, FirstHasInitial, Numbers, Truths, Places
  <2>7. StartKept' BY DEF StartKept, Numbers, Truths, Places
  <2> QED BY <2>1, <2>2, <2>3, <2>4, <2>5, <2>6, <2>7 DEF IInv
<1>2. ASSUME NEW sec \in Seconds, HttpAsks(sec) PROVE IInv'
  <2> USE <1>2 DEF HttpAsks, Spend
  <2>1. Numbers' BY DEF Numbers
  <2>2. Truths' BY DEF Truths
  <2>3. Places' BY DEF Places
  <2>4. PauseHasEnd' BY DEF PauseHasEnd, Numbers, Truths, Places
  <2>5. Asleep' BY DEF Asleep, Numbers, Truths, Places, NoError
  <2>6. NoError' /\ FirstHasInitial' BY DEF NoError, FirstHasInitial, Numbers, Truths, Places
  <2>7. StartKept' BY DEF StartKept, Numbers, Truths, Places
  <2> QED BY <2>1, <2>2, <2>3, <2>4, <2>5, <2>6, <2>7 DEF IInv
<1>3. CASE RegistChanged
  <2> USE <1>3 DEF RegistChanged, Spend
  <2>1. Numbers' BY DEF Numbers
  <2>2. Truths' BY DEF Truths
  <2>3. Places' BY DEF Places
  <2>4. PauseHasEnd' BY DEF PauseHasEnd, Numbers, Truths, Places
  <2>5. Asleep' BY DEF Asleep, Numbers, Truths, Places, NoError
  <2>6. NoError' /\ FirstHasInitial' BY DEF NoError, FirstHasInitial, Numbers, Truths, Places
  <2>7. StartKept' BY DEF StartKept, Numbers, Truths, Places
  <2> QED BY <2>1, <2>2, <2>3, <2>4, <2>5, <2>6, <2>7 DEF IInv
<1>4. CASE NetworkChanged
  <2> USE <1>4 DEF NetworkChanged, Spend
  <2>1. Numbers' BY DEF Numbers
  <2>2. Truths' BY DEF Truths
  <2>3. Places' BY DEF Places
  <2>4. PauseHasEnd' BY DEF PauseHasEnd, Numbers, Truths, Places
  <2>5. Asleep' BY DEF Asleep, Numbers, Truths, Places, NoError
  <2>6. NoError' /\ FirstHasInitial' BY DEF NoError, FirstHasInitial, Numbers, Truths, Places
  <2>7. StartKept' BY DEF StartKept, Numbers, Truths, Places
  <2> QED BY <2>1, <2>2, <2>3, <2>4, <2>5, <2>6, <2>7 DEF IInv
<1>5. CASE ParamsChanged
  <2> USE <1>5 DEF ParamsChanged, Spend
  <2>1. Numbers' BY DEF Numbers
  <2>2. Truths' BY DEF Truths
  <2>3. Places' BY DEF Places
  <2>4. PauseHasEnd' BY DEF PauseHasEnd, Numbers, Truths, Places
  <2>5. Asleep' BY DEF Asleep, Numbers, Truths, Places, NoError
  <2>6. NoError' /\ FirstHasInitial' BY DEF NoError, FirstHasInitial, Numbers, Truths, Places
  <2>7. StartKept' BY DEF StartKept, Numbers, Truths, Places
  <2> QED BY <2>1, <2>2, <2>3, <2>4, <2>5, <2>6, <2>7 DEF IInv
<1>6. CASE NetRestart
  <2> USE <1>6 DEF NetRestart, Spend
  <2>1. Numbers' BY DEF Numbers
  <2>2. Truths' BY DEF Truths
  <2>3. Places' BY DEF Places
  <2>4. PauseHasEnd' BY DEF PauseHasEnd, Numbers, Truths, Places
  <2>5. Asleep' BY DEF Asleep, Numbers, Truths, Places, NoError
  <2>6. NoError' /\ FirstHasInitial' BY DEF NoError, FirstHasInitial, Numbers, Truths, Places
  <2>7. StartKept' BY DEF StartKept, Numbers, Truths, Places
  <2> QED BY <2>1, <2>2, <2>3, <2>4, <2>5, <2>6, <2>7 DEF IInv
<1>7. CASE UsbIn
  <2> USE <1>7 DEF UsbIn, Spend
  <2>1. Numbers' BY DEF Numbers
  <2>2. Truths' BY DEF Truths
  <2>3. Places' BY DEF Places
  <2>4. PauseHasEnd' BY DEF PauseHasEnd, Numbers, Truths, Places
  <2>5. Asleep' BY DEF Asleep, Numbers, Truths, Places, NoError
  <2>6. NoError' /\ FirstHasInitial' BY DEF NoError, FirstHasInitial, Numbers, Truths, Places
  <2>7. StartKept' BY DEF StartKept, Numbers, Truths, Places
  <2> QED BY <2>1, <2>2, <2>3, <2>4, <2>5, <2>6, <2>7 DEF IInv
<1>8. CASE UsbOut
  <2> USE <1>8 DEF UsbOut, Spend
  <2>1. Numbers' BY DEF Numbers
  <2>2. Truths' BY DEF Truths
  <2>3. Places' BY DEF Places
  <2>4. PauseHasEnd' BY DEF PauseHasEnd, Numbers, Truths, Places
  <2>5. Asleep' BY DEF Asleep, Numbers, Truths, Places, NoError
  <2>6. NoError' /\ FirstHasInitial' BY DEF NoError, FirstHasInitial, Numbers, Truths, Places
  <2>7. StartKept' BY DEF StartKept, Numbers, Truths, Places
  <2> QED BY <2>1, <2>2, <2>3, <2>4, <2>5, <2>6, <2>7 DEF IInv
<1> QED BY <1>1, <1>2, <1>3, <1>4, <1>5, <1>6, <1>7, <1>8 DEF Outside

LEMMA ResetIInv == IInv /\ SystemReset => IInv'
<1> SUFFICES ASSUME IInv, SystemReset PROVE IInv'
  OBVIOUS
<1> USE SecondsAssumption, BudgetAssumption DEF SystemReset, EventAt, Slips, LostStart
<1>a. Numbers /\ Truths
  BY DEF IInv
<1>1. Numbers' BY <1>a DEF Numbers
<1>2. Truths' BY <1>a DEF Truths
<1>3. Places' BY DEF Places
<1>4. PauseHasEnd' /\ Asleep' /\ NoError' /\ FirstHasInitial' /\ StartKept'
  BY DEF PauseHasEnd, Asleep, NoError, FirstHasInitial, StartKept
<1> QED BY <1>1, <1>2, <1>3, <1>4 DEF IInv

LEMMA StepIInv == IInv /\ [Next]_vars => IInv'
<1> SUFFICES ASSUME IInv, [Next]_vars PROVE IInv'
  OBVIOUS
<1>1. CASE Next
  BY <1>1, EventIInv, ClockIInv, AutoIInv, CmdIInv, HttpIInv, NetIInv, PortIInv, ResetIInv,
     OutsideIInv DEF Next
<1>2. CASE UNCHANGED vars
  BY <1>2 DEF vars, pause, flags, state, threads, taken, history, IInv, Numbers, Truths, Places, PauseHasEnd,
              Asleep, NoError, FirstHasInitial, StartKept
<1> QED BY <1>1, <1>2

LEMMA SpecIInv == Spec => []IInv
BY InitIInv, StepIInv, PTL DEF Spec

-----------------------------------------------------------------------------
(* The theorems.                                                           *)

\* The flags, the counters and every thread's place are well typed.
THEOREM EventTypeCorrect == Spec => []TypeOK
<1>1. IInv => TypeOK BY TypeParts DEF IInv
<1> QED BY <1>1, SpecIInv, PTL

\* Whoever asks for a pause, and whenever the interrupt falls between its
\* assignments, the pause has an end on its way.
THEOREM EveryPauseHasEnd == Spec => []PauseHasEnd
<1>1. IInv => PauseHasEnd BY DEF IInv
<1> QED BY <1>1, SpecIInv, PTL

\* Outside the two windows the event thread sleeps for a reason.
THEOREM EverySleepHasReason == Spec => []SleepHasReason
<1>1. IInv => SleepHasReason BY DEF IInv, Asleep, SleepHasReason
<1> QED BY <1>1, SpecIInv, PTL

\* Outside the windows in LostStart an AT start that is due is not forgotten.
THEOREM EveryStartIsKept == Spec => []StartKept
<1>1. IInv => StartKept BY DEF IInv
<1> QED BY <1>1, SpecIInv, PTL
=============================================================================
