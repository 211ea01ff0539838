-------------------------- MODULE CmdServerProofs --------------------------
(***************************************************************************)
(* Theorems about the command interface with one connected client, for     *)
(* every set of requests and every queue size, until a wait returns        *)
(* without its bit: POSIX lets the wait of tdx_flags_get, which is in no   *)
(* loop, return unasked.  With two clients the run cmd_mixup shows answers *)
(* that are another's.                                                     *)
(***************************************************************************)
EXTENDS CmdManyProofs

\* The one client.
CONSTANT me
ASSUME OneClient == Client = {me}

-----------------------------------------------------------------------------
(* The inductive invariant, by where the client is.  A thread that was     *)
(* woken unasked and has not run yet is out of "waiting" and harmless.     *)

\* cmd_thread is before its wait, or in it, woken or not.
Parked == cmdAt \in {"get", "blocked"}

\* Outside DoCmd nothing is posted, and the request is copied step by step.
Preparing ==
    /\ at[me] \in {"read", "header", "data", "stage", "send", "exec"}
    /\ flags = {} /\ Parked /\ runs[me] = 0
    /\ queue = IF at[me] = "exec" THEN <<me>> ELSE << >>
    /\ at[me] \in {"send", "exec"} => staged = me
    /\ IF at[me] = "read" THEN asked[me] = Nothing ELSE asked[me] \in Request
    /\ at[me] \in {"header", "data"} => tcp_rxb = asked[me]
    /\ at[me] \in {"data", "stage", "send", "exec"} => rxHeader = asked[me]
    /\ at[me] \in {"stage", "send", "exec"} => rxData = asked[me]

\* Inside DoCmd, before the response: posted, then taken, then run.
Requested ==
    /\ at[me] \in {"get", "blocked"}
    /\ asked[me] \in Request /\ rxHeader = asked[me] /\ rxData = asked[me]
    /\ \/ /\ flags = {"EXEC"} /\ queue = <<me>> /\ runs[me] = 0
          /\ Parked /\ Cmd \notin waiting
       \/ /\ flags = {} /\ queue = <<me>> /\ runs[me] = 0
          /\ cmdAt = "receive"
       \/ /\ flags = {} /\ queue = << >> /\ runs[me] = 0
          /\ cmdAt = "analyze" /\ cmd_msg = me
       \/ /\ flags = {} /\ queue = << >> /\ runs[me] = 1
          /\ cmdAt \in {"publish", "copy"} /\ cmd_msg = me
          /\ StsArea = asked[me]
          /\ cmdAt = "copy" => t_len[me] = asked[me]
       \/ /\ flags = {} /\ queue = << >> /\ runs[me] = 1
          /\ cmdAt = "done" /\ cmd_msg = me
          /\ txbuf = asked[me] /\ t_len[me] = asked[me]

\* The response is there and the client has still to take it.
Answered ==
    /\ at[me] \in {"get", "blocked", "write"} /\ me \notin waiting
    /\ flags = IF at[me] = "write" THEN {} ELSE {"END"}
    /\ queue = << >> /\ Parked /\ runs[me] = 1
    /\ asked[me] \in Request
    /\ txbuf = asked[me] /\ t_len[me] = asked[me]

IInv == /\ TypeOK /\ Sleepers
        /\ early \/ Preparing \/ Requested \/ Answered

LEMMA Names == /\ me \in Client /\ \A c \in Client : c = me
               /\ me # Cmd /\ Nothing \notin Request /\ Torn \notin Request
               /\ Size \in Nat /\ Size > 0
BY OneClient, ClientAssumption, RequestAssumption, SizePositive

LEMMA InitIInv == Init => IInv
<1> SUFFICES ASSUME Init PROVE IInv
  OBVIOUS
<1> USE Names DEF Init, cmd_thread_init
<1>1. TypeOK BY InitMInv DEF MInv
<1>2. Preparing BY DEF Preparing, Parked
<1> QED BY <1>1, <1>2 DEF IInv, Sleepers

\* Where each step leads, one step per action.
LEMMA StepPhase ==
    ASSUME TypeOK, Sleepers, ~early, Preparing \/ Requested \/ Answered, Next
    PROVE  early' \/ Preparing' \/ Requested' \/ Answered'
<1> USE Names DEF evt, rx, tx, cmd, hist, Goto, CmdGoto
<1> DEFINE Goal == early' \/ Preparing' \/ Requested' \/ Answered'
<1>0. /\ at \in [Client -> ClientAt]
      /\ asked \in [Client -> Request \cup {Nothing}]
      /\ runs \in [Client -> 0 .. 2] /\ t_len \in [Client -> Frame]
      /\ waiting \subseteq {me, Cmd}
      /\ me \in waiting => at[me] = "blocked"
      /\ Cmd \in waiting => cmdAt = "blocked"
  BY DEF TypeOK, Sleepers, InWait
<1>1. ASSUME NEW r \in Request, Read(me, r) PROVE Goal
  <2>1. Preparing BY <1>1 DEF Read, Requested, Answered
  <2> QED BY <1>0, <1>1, <2>1 DEF Read, Preparing, Parked
<1>2. CASE CopyHeader(me)
  <2>1. Preparing BY <1>2 DEF CopyHeader, Requested, Answered
  <2> QED BY <1>0, <1>2, <2>1 DEF CopyHeader, Preparing, Parked
<1>3. CASE CopyData(me)
  <2>1. Preparing BY <1>3 DEF CopyData, Requested, Answered
  <2> QED BY <1>0, <1>3, <2>1 DEF CopyData, Preparing, Parked
<1>4. CASE Stage(me)
  <2>1. Preparing BY <1>4 DEF Stage, Requested, Answered
  <2> QED BY <1>0, <1>4, <2>1 DEF Stage, Preparing, Parked
<1>5. CASE Send(me)
  <2>1. Preparing /\ queue = << >> /\ staged = me
    BY <1>5 DEF Send, Preparing, Requested, Answered
  <2>2. queue' = <<me>> BY <1>5, <2>1 DEF Send
  <2> QED BY <1>0, <1>5, <2>1, <2>2 DEF Send, Preparing, Parked
<1>6. CASE SetExec(me)
  <2>1. at[me] = "exec" /\ Preparing BY <1>6 DEF SetExec, Requested, Answered
  <2>2. waiting \subseteq {Cmd} BY <1>0, <2>1
  <2>3. flags' = {"EXEC"} /\ waiting' = {}
    BY <1>6, <2>2 DEF SetExec, tdx_flags_set, Signal
  <2>4. /\ queue' = <<me>> /\ runs'[me] = 0 /\ Parked'
        /\ asked'[me] \in Request /\ rxHeader' = asked'[me]
        /\ rxData' = asked'[me]
    BY <1>6, <2>1 DEF SetExec, Preparing, Parked
  <2>5. at'[me] = "get" BY <1>0, <1>6 DEF SetExec
  <2> QED BY <2>3, <2>4, <2>5 DEF Requested
<1>7. CASE GetEnd(me)
  <2>1. at[me] = "get" BY <1>7 DEF GetEnd
  <2>2. CASE Answered
    <3>1. Take("END") /\ at' = [at EXCEPT ![me] = "write"]
      BY <1>7, <2>1, <2>2 DEF GetEnd, Answered, Take, Wait
    <3> QED BY <1>0, <1>7, <2>1, <2>2, <3>1 DEF GetEnd, Take, Answered, Parked
  <2>3. CASE Requested
    <3>1. Wait(me, "END") /\ at' = [at EXCEPT ![me] = "blocked"]
      BY <1>7, <2>1, <2>3 DEF GetEnd, Requested, Take, Wait
    <3> QED BY <1>0, <1>7, <2>3, <3>1 DEF GetEnd, Wait, Requested, Parked
  <2> QED BY <2>1, <2>2, <2>3 DEF Preparing
<1>8. CASE WokenEnd(me)
  <2>1. CASE Miss("END") /\ early' = TRUE BY <2>1
  <2>2. CASE Take("END")
    <3>1. at[me] = "blocked" /\ Answered
      BY <1>8, <2>2 DEF WokenEnd, Take, Preparing, Requested
    <3> QED BY <1>0, <1>8, <2>2, <3>1 DEF WokenEnd, Take, Answered, Parked
  <2> QED BY <1>8, <2>1, <2>2 DEF WokenEnd
<1>9. CASE Write(me)
  <2>1. Answered /\ at[me] = "write" BY <1>9 DEF Write, Preparing, Requested
  <2> QED BY <1>0, <1>9, <2>1 DEF Write, Answered, Preparing, Parked
<1>10. CASE CmdGetExec
  <2>1. cmdAt = "get" BY <1>10 DEF CmdGetExec
  <2>2. CASE Take("EXEC") /\ cmdAt' = "receive"
    <3>1. Requested BY <2>1, <2>2 DEF Take, Preparing, Answered
    <3> QED BY <1>10, <2>1, <2>2, <3>1 DEF CmdGetExec, Take, Requested
  <2>3. CASE Wait(Cmd, "EXEC") /\ cmdAt' = "blocked"
    <3>1. Preparing \/ Answered BY <2>1, <2>3 DEF Wait, Requested
    <3>2. Preparing => Preparing'
      BY <1>10, <2>3 DEF CmdGetExec, Wait, Preparing, Parked
    <3>3. Answered => Answered'
      BY <1>10, <2>3 DEF CmdGetExec, Wait, Answered, Parked
    <3> QED BY <3>1, <3>2, <3>3
  <2> QED BY <1>10, <2>2, <2>3 DEF CmdGetExec
<1>11. CASE CmdWokenExec
  <2>1. CASE Take("EXEC") /\ actual_events' = {"EXEC"}
    <3>1. Requested /\ cmdAt = "blocked"
      BY <1>11, <2>1 DEF CmdWokenExec, Take, Preparing, Answered
    <3> QED BY <1>11, <2>1, <3>1 DEF CmdWokenExec, Take, Requested, Parked
  <2>2. CASE Miss("EXEC") /\ early' = (early \/ actual_events # {}) /\ UNCHANGED actual_events
    <3>1. CASE actual_events = {}
      <4>1. Preparing \/ Answered
        BY <1>11, <2>2 DEF CmdWokenExec, Miss, Requested
      <4>2. Preparing => Preparing'
        BY <1>11, <2>2, <3>1 DEF CmdWokenExec, Miss, Preparing, Parked
      <4>3. Answered => Answered'
        BY <1>11, <2>2, <3>1 DEF CmdWokenExec, Miss, Answered, Parked
      <4> QED BY <4>1, <4>2, <4>3
    <3> QED BY <2>2, <3>1
  <2> QED BY <1>11, <2>1, <2>2 DEF CmdWokenExec
<1>12. CASE CmdReceive
  <2>1. cmdAt = "receive" /\ Requested /\ queue = <<me>>
    BY <1>12 DEF CmdReceive, Preparing, Answered, Parked, Requested
  <2>2. cmd_msg' = me /\ queue' = << >> BY <1>12, <2>1 DEF CmdReceive
  <2> QED BY <1>12, <2>1, <2>2 DEF CmdReceive, Requested, Parked
<1>13. CASE CmdAnalyze
  <2>1. /\ cmdAt = "analyze" /\ Requested /\ cmd_msg = me /\ runs[me] = 0
        /\ rxHeader = asked[me] /\ rxData = asked[me] /\ asked[me] \in Request
    BY <1>13 DEF CmdAnalyze, Preparing, Answered, Parked, Requested
  <2>2. StsArea' = asked[me] /\ runs' = [c \in Client |-> 1]
    BY <1>13, <2>1 DEF CmdAnalyze
  <2> QED BY <1>13, <2>1, <2>2 DEF CmdAnalyze, Requested, Parked
<1>14. CASE CmdSize
  <2>1. cmdAt = "publish" /\ Requested /\ cmd_msg = me /\ StsArea = asked[me]
    BY <1>14 DEF CmdSize, Preparing, Answered, Parked, Requested
  <2>2. t_len' = [c \in Client |-> asked[me]] BY <1>14, <2>1 DEF CmdSize
  <2> QED BY <1>14, <2>1, <2>2 DEF CmdSize, Requested, Parked
<1>15. CASE CmdCopy
  <2>1. /\ cmdAt = "copy" /\ Requested /\ cmd_msg = me
        /\ StsArea = asked[me] /\ t_len[me] = asked[me]
    BY <1>15 DEF CmdCopy, Preparing, Answered, Parked, Requested
  <2> QED BY <1>15, <2>1 DEF CmdCopy, Requested, Parked
<1>16. CASE CmdSetEnd
  <2>1. cmdAt = "done" /\ Requested
    BY <1>16 DEF CmdSetEnd, Preparing, Answered, Parked
  <2>2. waiting \subseteq {me} BY <1>0, <2>1
  <2>3. flags' = {"END"} /\ waiting' = {}
    BY <1>16, <2>2 DEF CmdSetEnd, tdx_flags_set, Signal
  <2> QED BY <1>16, <2>1, <2>3 DEF CmdSetEnd, Requested, Answered, Parked
<1>17. ASSUME NEW w \in Client \cup {Cmd}, SpuriousWakeup(w) PROVE Goal
  <2>1. Preparing => Preparing'
    BY <1>17 DEF SpuriousWakeup, Preparing, Parked
  <2>2. Requested => Requested'
    BY <1>17 DEF SpuriousWakeup, Requested, Parked
  <2>3. Answered => Answered'
    BY <1>17 DEF SpuriousWakeup, Answered, Parked
  <2> QED BY <2>1, <2>2, <2>3
<1> QED
  BY <1>1, <1>2, <1>3, <1>4, <1>5, <1>6, <1>7, <1>8, <1>9, <1>10, <1>11,
     <1>12, <1>13, <1>14, <1>15, <1>16, <1>17
  DEF Next, ClientStep, CmdStep

LEMMA StepIInv == SInv /\ SInv' /\ IInv /\ [Next]_vars => IInv'
<1> SUFFICES ASSUME SInv, SInv', IInv, [Next]_vars PROVE IInv'
  OBVIOUS
<1>1. TypeOK' /\ Sleepers' BY DEF SInv
<1>2. CASE Next
  <2>1. early' \/ Preparing' \/ Requested' \/ Answered'
    BY <1>2, StepPhase, EarlyStays DEF IInv
  <2> QED BY <1>1, <2>1 DEF IInv
<1>3. CASE UNCHANGED vars
  BY <1>1, <1>3 DEF vars, IInv, Preparing, Requested, Answered, Parked
<1> QED BY <1>2, <1>3

LEMMA SpecIInv == Spec => []IInv
BY InitIInv, StepIInv, SpecSInv, PTL DEF Spec

\* With one client and until a wait returns early: while a command runs, its
\* client is inside DoCmd, and the static buffers have one user at a time
\* (comp_cmd.c 270-402, 688-692).
THEOREM OneClientBuffersOwned == Spec => []BuffersOwned
<1>1. IInv => BuffersOwned
  BY Names DEF IInv, Preparing, Requested, Answered, Parked, BuffersOwned
<1> QED BY <1>1, SpecIInv, PTL

\* With one client, and until a wait returns early (tdx.c 101), every request is
\* executed once and answered with its own response: flags, queue and shared
\* buffers implement the service.
THEOREM OneClientService == Spec => ImplementsService
<1>1. Init => Service!Init BY DEF Init, Service!Init
<1>2. IInv /\ IInv' /\ [Next]_vars => [Service!Next]_hist
  <2> SUFFICES ASSUME IInv, IInv', [Next]_vars PROVE [Service!Next]_hist
    OBVIOUS
  <2> USE Names DEF hist, Goto, CmdGoto
  <2>0. TypeOK BY DEF IInv
  <2>1. CASE early' BY <2>1 DEF Service!Next
  <2>2. CASE ~early' /\ ~UNCHANGED hist
    <3>0. Next BY <2>2 DEF vars
    <3>1. ~early /\ (Preparing \/ Requested \/ Answered)
      BY <2>2, EarlyStays DEF IInv
    <3>2. UNCHANGED early
      <4>1. TypeOK' BY DEF IInv
      <4> QED BY <2>0, <2>2, <3>1, <4>1 DEF TypeOK
    <3>3. ASSUME NEW r \in Request, Read(me, r) PROVE Service!Serve
      <4>1. asked[me] = Nothing
        BY <3>1, <3>3 DEF Read, Preparing, Requested, Answered
      <4> QED BY <3>3, <4>1 DEF Read, Service!Ask, Service!Serve
    <3>4. ASSUME CmdAnalyze PROVE Service!Serve
      <4>1. cmd_msg = me /\ runs[me] = 0 /\ asked[me] \in Request
        BY <3>1, <3>4 DEF CmdAnalyze, Preparing, Requested, Answered, Parked
      <4>2. runs' = [runs EXCEPT ![me] = 1]
        <5>1. runs' = [c \in Client |-> 1] BY <3>4, <4>1 DEF CmdAnalyze
        <5>2. runs \in [Client -> 0 .. 2] BY <2>0 DEF TypeOK
        <5>3. [runs EXCEPT ![me] = 1] \in [Client -> 0 .. 2] BY <5>2
        <5>4. \A c \in Client : [runs EXCEPT ![me] = 1][c] = 1 BY <5>2
        <5> QED BY <5>1, <5>3, <5>4
      <4>3. Service!Execute(me) BY <3>4, <4>1, <4>2 DEF CmdAnalyze, Service!Execute
      <4> QED BY <4>3 DEF Service!Serve
    <3>5. ASSUME Write(me) PROVE Service!Serve
      <4>1. runs[me] = 1 /\ txbuf = asked[me] /\ t_len[me] = asked[me]
        BY <3>1, <3>5 DEF Write, Preparing, Requested, Answered
      <4>2. Service!Answer(me) BY <3>5, <4>1 DEF Write, Service!Answer
      <4> QED BY <4>2 DEF Service!Serve
    <3>6. Service!Serve
      BY <2>2, <3>0, <3>2, <3>3, <3>4, <3>5
      DEF Next, ClientStep, CmdStep, CopyHeader, CopyData, Stage, Send, SetExec,
          GetEnd, WokenEnd, CmdGetExec, CmdWokenExec, CmdReceive, CmdSize,
          CmdCopy, CmdSetEnd, SpuriousWakeup
    <3> QED BY <3>1, <3>2, <3>6 DEF Service!Next
  <2> QED BY <2>1, <2>2
<1> QED BY <1>1, <1>2, SpecIInv, PTL DEF Spec, Service!Spec, ImplementsService, hist
=============================================================================
