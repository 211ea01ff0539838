--------------------------- MODULE CmdManyProofs ---------------------------
(***************************************************************************)
(* Theorems about the command interface with any number of clients, any    *)
(* queue and a condition variable that may wake anybody unasked: what      *)
(* holds even where requests are lost and answers mixed up.                *)
(***************************************************************************)
EXTENDS CmdServer, SequenceTheorems, TLAPS

-----------------------------------------------------------------------------
(* The inductive invariant.  A message that has once been posted is in the *)
(* queue until cmd_thread has it, and from then on its static cmd_msg is   *)
(* never again what nobody sent.                                           *)

\* cmd_thread has, or can fetch, a message that a client posted.
Known == queue # << >> \/ cmd_msg # Nothing

\* DoCmd's cmd_msg is filled in before it is posted.
Staged == \A c \in Client : at[c] = "send" => staged # Nothing

\* Every stage of a request for execution comes after a post: the client about
\* to set the bit, the bit, and the bit in cmd_thread's local copy, where it
\* stays for good.
Posted == /\ \A c \in Client : at[c] = "exec" => Known
          /\ "EXEC" \in flags => Known
          /\ actual_events # {} => Known
          /\ cmdAt = "receive" => actual_events # {}

MInv == TypeOK /\ Staged /\ Posted /\ NeverUnsent

LEMMA Distinct == /\ Cmd \notin Client /\ Nothing \notin Client
                  /\ Nothing \notin Request /\ Torn \notin Request
                  /\ Size \in Nat /\ Size > 0
BY ClientAssumption, RequestAssumption, SizePositive

LEMMA InitMInv == Init => MInv
<1> SUFFICES ASSUME Init PROVE MInv
  OBVIOUS
<1>1. TypeOK
  <2>1. queue \in Seq(Client) /\ Len(queue) <= Size
    BY Distinct, EmptySeq DEF Init, cmd_thread_init
  <2>2. early \in BOOLEAN BY DEF Init
  <2> QED BY <2>1, <2>2 DEF Init, cmd_thread_init, TypeOK, ClientAt, CmdAt, Frame
<1> QED
  BY <1>1 DEF MInv, Init, cmd_thread_init, Staged, Posted, NeverUnsent

-----------------------------------------------------------------------------
(* Types.                                                                  *)

\* Setting a bit and waking a waiter (tdx.c 73-82).
LEMMA SetTypes ==
    ASSUME TypeOK, NEW bit \in {"EXEC", "END"}, tdx_flags_set(bit)
    PROVE  flags' = {bit} /\ waiting' \subseteq Client \cup {Cmd}
<1>1. waiting' = {} \/ \E w \in waiting : waiting' = waiting \ {w}
  BY DEF tdx_flags_set, Signal
<1> QED BY <1>1 DEF tdx_flags_set, TypeOK

\* Posting without waiting: the queue stays within its size and is never empty
\* afterwards, because it is only refused when it is full.
LEMMA SendTypes ==
    ASSUME TypeOK, Staged, NEW c \in Client, Send(c)
    PROVE  /\ queue' \in Seq(Client) /\ Len(queue') <= Size
           /\ queue' # << >>
<1> USE Distinct
<1>1. staged \in Client BY DEF Send, Goto, Staged, TypeOK
<1>2. queue \in Seq(Client) /\ Len(queue) <= Size /\ Len(queue) \in Nat
  BY DEF TypeOK
<1>3. CASE Len(queue) < Size
  <2>1. queue' = Append(queue, staged) BY <1>3 DEF Send
  <2>2. queue' \in Seq(Client) /\ Len(queue') = Len(queue) + 1
    BY <1>1, <1>2, <2>1, AppendProperties
  <2> QED BY <1>2, <1>3, <2>2
<1>4. CASE ~ (Len(queue) < Size)
  BY <1>2, <1>4 DEF Send
<1> QED BY <1>3, <1>4

\* Receiving without waiting: what comes out of the queue is a client's.
LEMMA ReceiveTypes ==
    ASSUME TypeOK, CmdReceive
    PROVE  /\ queue' \in Seq(Client) /\ Len(queue') <= Size
           /\ cmd_msg' \in Client \cup {Nothing}
           /\ Known => cmd_msg' # Nothing
<1> USE Distinct
<1>1. queue \in Seq(Client) /\ Len(queue) <= Size /\ Len(queue) \in Nat
  BY DEF TypeOK
<1>2. CASE queue = << >>
  BY <1>1, <1>2 DEF CmdReceive, TypeOK, Known
<1>3. CASE queue # << >>
  <2>1. cmd_msg' = Head(queue) /\ queue' = Tail(queue)
    BY <1>3 DEF CmdReceive
  <2>2. Head(queue) \in Client /\ Tail(queue) \in Seq(Client)
        /\ Len(Tail(queue)) = Len(queue) - 1
    BY <1>1, <1>3, HeadTailProperties
  <2> QED BY <1>1, <2>1, <2>2
<1> QED BY <1>2, <1>3

\* No step of a client takes anything out of its type.
LEMMA ClientTypes ==
    ASSUME TypeOK, Staged, NEW c \in Client,
           ClientStep(c) \/ \E r \in Request : Read(c, r)
    PROVE  TypeOK'
<1> USE Distinct DEF Goto, evt, rx, tx, cmd, hist, ClientAt, CmdAt, Frame
<1>1. ASSUME NEW r \in Request, Read(c, r) PROVE TypeOK'
  BY <1>1 DEF Read, TypeOK
<1>2. CASE CopyHeader(c) BY <1>2 DEF CopyHeader, TypeOK
<1>3. CASE CopyData(c) BY <1>3 DEF CopyData, TypeOK
<1>4. CASE Stage(c) BY <1>4 DEF Stage, TypeOK
<1>5. CASE Send(c)
  BY <1>5, SendTypes DEF Send, TypeOK
<1>6. CASE SetExec(c)
  <2>1. flags' = {"EXEC"} /\ waiting' \subseteq Client \cup {Cmd}
    BY <1>6, SetTypes DEF SetExec
  <2> QED BY <1>6, <2>1 DEF SetExec, TypeOK
<1>7. CASE GetEnd(c)
  BY <1>7 DEF GetEnd, Take, Wait, TypeOK
<1>8. CASE WokenEnd(c)
  BY <1>8 DEF WokenEnd, Take, Miss, TypeOK
<1>9. CASE Write(c)
  <2>1. answer' \in [Client -> Frame] BY <1>9 DEF Write, TypeOK
  <2>2. asked' \in [Client -> Request \cup {Nothing}] BY <1>9 DEF Write, TypeOK
  <2>3. runs' \in [Client -> 0 .. 2] BY <1>9 DEF Write, TypeOK
  <2> QED BY <1>9, <2>1, <2>2, <2>3 DEF Write, TypeOK
<1> QED
  BY <1>1, <1>2, <1>3, <1>4, <1>5, <1>6, <1>7, <1>8, <1>9 DEF ClientStep

\* Nor does a step of cmd_thread.
LEMMA CmdTypes == ASSUME TypeOK, CmdStep PROVE TypeOK'
<1> USE Distinct DEF CmdGoto, evt, rx, tx, cmd, hist, ClientAt, CmdAt, Frame
<1>1. CASE CmdGetExec BY <1>1 DEF CmdGetExec, Take, Wait, TypeOK
<1>2. CASE CmdWokenExec BY <1>2 DEF CmdWokenExec, Take, Miss, TypeOK
<1>3. CASE CmdReceive
  BY <1>3, ReceiveTypes DEF CmdReceive, TypeOK
<1>4. CASE CmdAnalyze
  <2>1. StsArea' \in Frame BY <1>4 DEF CmdAnalyze, TypeOK
  <2>2. runs' \in [Client -> 0 .. 2]
    <3>1. \A c \in Client : runs[c] \in 0 .. 2 BY DEF TypeOK
    <3>2. \A n \in 0 .. 2 : n < 2 => n + 1 \in 0 .. 2 OBVIOUS
    <3> QED BY <1>4, <3>1, <3>2 DEF CmdAnalyze
  <2> QED BY <1>4, <2>1, <2>2 DEF CmdAnalyze, TypeOK
<1>5. CASE CmdSize
  <2>1. t_len' \in [Client -> Frame] BY <1>5 DEF CmdSize, TypeOK
  <2> QED BY <1>5, <2>1 DEF CmdSize, TypeOK
<1>6. CASE CmdCopy BY <1>6 DEF CmdCopy, TypeOK
<1>7. CASE CmdSetEnd
  <2>1. flags' = {"END"} /\ waiting' \subseteq Client \cup {Cmd}
    BY <1>7, SetTypes DEF CmdSetEnd
  <2> QED BY <1>7, <2>1 DEF CmdSetEnd, TypeOK
<1> QED BY <1>1, <1>2, <1>3, <1>4, <1>5, <1>6, <1>7 DEF CmdStep

-----------------------------------------------------------------------------
(* What was posted is not forgotten.                                       *)

\* A client only adds to what cmd_thread can know.
LEMMA ClientPosts ==
    ASSUME MInv, NEW c \in Client,
           ClientStep(c) \/ \E r \in Request : Read(c, r)
    PROVE  /\ Known => Known'
           /\ Staged' /\ Posted' /\ NeverUnsent'
<1> USE Distinct DEF MInv, Goto, evt, rx, tx, cmd, hist
<1>0. at \in [Client -> ClientAt] BY DEF TypeOK
<1>1. ASSUME NEW r \in Request, Read(c, r)
      PROVE (Known => Known') /\ Staged' /\ Posted' /\ NeverUnsent'
  BY <1>0, <1>1 DEF Read, Known, Staged, Posted, NeverUnsent
<1>2. CASE CopyHeader(c)
  BY <1>0, <1>2 DEF CopyHeader, Known, Staged, Posted, NeverUnsent
<1>3. CASE CopyData(c)
  BY <1>0, <1>3 DEF CopyData, Known, Staged, Posted, NeverUnsent
<1>4. CASE Stage(c)
  BY <1>0, <1>4 DEF Stage, Known, Staged, Posted, NeverUnsent
<1>5. CASE Send(c)
  <2>1. Known' BY <1>5, SendTypes DEF Known
  <2> QED BY <1>0, <1>5, <2>1 DEF Send, Staged, Posted, NeverUnsent
<1>6. CASE SetExec(c)
  <2>1. Known /\ Known' BY <1>6 DEF SetExec, Known, Posted
  <2> QED BY <1>0, <1>6, <2>1 DEF SetExec, Staged, Posted, NeverUnsent
<1>7. CASE GetEnd(c)
  BY <1>0, <1>7 DEF GetEnd, Take, Wait, Known, Staged, Posted, NeverUnsent
<1>8. CASE WokenEnd(c)
  BY <1>0, <1>8 DEF WokenEnd, Take, Miss, Known, Staged, Posted, NeverUnsent
<1>9. CASE Write(c)
  BY <1>0, <1>9 DEF Write, Known, Staged, Posted, NeverUnsent
<1> QED
  BY <1>1, <1>2, <1>3, <1>4, <1>5, <1>6, <1>7, <1>8, <1>9 DEF ClientStep

\* cmd_thread goes on from its wait only with the bit, and takes a message out
\* of the queue only into cmd_msg.
LEMMA CmdKnows ==
    ASSUME MInv, CmdStep
    PROVE  /\ Known => Known'
           /\ Staged' /\ Posted' /\ NeverUnsent'
<1> USE Distinct DEF MInv, CmdGoto, evt, rx, tx, cmd, hist
<1>1. CASE CmdGetExec
  BY <1>1 DEF CmdGetExec, Take, Wait, Known, Staged, Posted, NeverUnsent
<1>2. CASE CmdWokenExec
  BY <1>2 DEF CmdWokenExec, Take, Miss, Known, Staged, Posted, NeverUnsent
<1>3. CASE CmdReceive
  <2>1. Known BY <1>3 DEF CmdReceive, Posted
  <2>2. Known' /\ cmd_msg' # Nothing BY <1>3, <2>1, ReceiveTypes DEF Known
  <2> QED BY <1>3, <2>2 DEF CmdReceive, Staged, Posted, NeverUnsent
<1>4. CASE CmdAnalyze
  BY <1>4 DEF CmdAnalyze, Known, Staged, Posted, NeverUnsent
<1>5. CASE CmdSize
  BY <1>5 DEF CmdSize, Known, Staged, Posted, NeverUnsent
<1>6. CASE CmdCopy
  BY <1>6 DEF CmdCopy, Known, Staged, Posted, NeverUnsent
<1>7. CASE CmdSetEnd
  BY <1>7 DEF CmdSetEnd, tdx_flags_set, Known, Staged, Posted, NeverUnsent
<1> QED BY <1>1, <1>2, <1>3, <1>4, <1>5, <1>6, <1>7 DEF CmdStep

LEMMA StepMInv == MInv /\ [Next]_vars => MInv'
<1> SUFFICES ASSUME MInv, [Next]_vars PROVE MInv'
  OBVIOUS
<1>1. ASSUME NEW c \in Client, ClientStep(c) \/ \E r \in Request : Read(c, r)
      PROVE  MInv'
  BY <1>1, ClientTypes, ClientPosts DEF MInv
<1>2. CASE CmdStep
  BY <1>2, CmdTypes, CmdKnows DEF MInv
<1>3. ASSUME NEW w \in Client \cup {Cmd}, SpuriousWakeup(w) PROVE MInv'
  BY <1>3 DEF SpuriousWakeup, MInv, rx, tx, cmd, hist,
              TypeOK, Known, Staged, Posted, NeverUnsent
<1>4. CASE UNCHANGED vars
  BY <1>4 DEF vars, MInv, TypeOK, Known, Staged, Posted, NeverUnsent
<1> QED BY <1>1, <1>2, <1>3, <1>4 DEF Next

LEMMA SpecMInv == Spec => []MInv
BY InitMInv, StepMInv, PTL DEF Spec

\* However many clients share the static buffers, the flags and the queue, and
\* whoever is woken unasked, each keeps its type: the queue never exceeds its
\* slots and holds clients' messages only.
THEOREM ServerTypeCorrect == Spec => []TypeOK
<1>1. MInv => TypeOK BY DEF MInv
<1> QED BY <1>1, SpecMInv, PTL

\* Whatever is lost or mixed up between clients, cmd_thread never runs the
\* zeroed cmd_msg it starts with: every way to tdx_queue_receive (comp_cmd.c
\* 269-290) follows a post, refused or not.
THEOREM CommandsWereSent == Spec => []NeverUnsent
<1>1. MInv => NeverUnsent BY DEF MInv
<1> QED BY <1>1, SpecMInv, PTL
-----------------------------------------------------------------------------
(* Signals.  One signal per bit is enough for somebody to look at it, as   *)
(* long as no wait returns early.                                          *)

\* Who sleeps is in the wait of tdx_flags_get.
Sleepers == \A w \in waiting : InWait(w)

\* A set replaces the bits, so there is one at most; and a response, or the
\* work on it, means that cmd_thread has had an EXEC.
OneBit == /\ flags \in {{}, {"EXEC"}, {"END"}}
          /\ cmdAt \notin {"get", "blocked"} \/ "END" \in flags
                => actual_events # {}

SInv == TypeOK /\ Sleepers /\ OneBit /\ NoSleeperMissesBit

\* A wait that returned early is remembered.
LEMMA EarlyStays == early /\ [Next]_vars => early'
<1> SUFFICES ASSUME early, [Next]_vars PROVE early'
  OBVIOUS
<1> QED
  BY DEF Next, ClientStep, CmdStep, Read, CopyHeader, CopyData, Stage, Send,
         SetExec, GetEnd, WokenEnd, Write, CmdGetExec, CmdWokenExec, CmdReceive,
         CmdAnalyze, CmdSize, CmdCopy, CmdSetEnd, SpuriousWakeup, hist, vars

\* Steps that set no bit, take none and neither enter nor leave a wait.
LEMMA QuietStep ==
    ASSUME SInv, UNCHANGED <<flags, waiting, actual_events, early>>,
           \A v \in Client \cup {Cmd} : InWait(v) => InWait(v)',
           cmdAt' \notin {"get", "blocked"} => cmdAt \notin {"get", "blocked"}
    PROVE  Sleepers' /\ OneBit' /\ NoSleeperMissesBit'
<1>1. waiting \subseteq Client \cup {Cmd} BY DEF SInv, TypeOK
<1>2. Sleepers' BY <1>1 DEF SInv, Sleepers
<1>3. OneBit' BY DEF SInv, OneBit
<1>4. NoSleeperMissesBit'
  BY <1>1 DEF SInv, NoSleeperMissesBit, Awaited
<1> QED BY <1>2, <1>3, <1>4

\* The thread that a set wakes is the one that has yet to look: the setter is
\* in no wait itself.
LEMMA SetStep ==
    ASSUME SInv, NEW bit \in {"EXEC", "END"}, tdx_flags_set(bit),
           \A w \in waiting : InWait(w)',
           UNCHANGED <<actual_events, early>>,
           actual_events # {} \/ (bit = "EXEC" /\ cmdAt' \in {"get", "blocked"})
    PROVE  Sleepers' /\ OneBit' /\ NoSleeperMissesBit'
<1>1. waiting \subseteq Client \cup {Cmd} BY DEF SInv, TypeOK
<1>2. flags' = {bit} BY DEF tdx_flags_set
<1>3. OneBit' BY <1>2 DEF OneBit
<1>4. CASE waiting' = {} BY <1>3, <1>4 DEF Sleepers, NoSleeperMissesBit
<1>5. CASE waiting # {}
  <2>1. PICK w \in waiting : waiting' = waiting \ {w}
    BY <1>5 DEF tdx_flags_set, Signal
  <2>2. w \in (Client \cup {Cmd}) \ waiting' /\ InWait(w)' BY <1>1, <2>1
  <2>3. NoSleeperMissesBit' BY <2>2 DEF NoSleeperMissesBit
  <2>4. Sleepers' BY <2>1 DEF Sleepers
  <2> QED BY <1>3, <2>3, <2>4
<1> QED BY <1>4, <1>5 DEF tdx_flags_set, Signal

LEMMA ClientSleeps ==
    ASSUME SInv, NEW c \in Client,
           ClientStep(c) \/ \E r \in Request : Read(c, r)
    PROVE  Sleepers' /\ OneBit' /\ NoSleeperMissesBit'
<1> USE Distinct DEF Goto, evt, rx, tx, cmd, hist, InWait
<1>0. at \in [Client -> ClientAt] /\ waiting \subseteq Client \cup {Cmd}
  BY DEF SInv, TypeOK
<1>1. ASSUME NEW r \in Request, Read(c, r)
      PROVE  Sleepers' /\ OneBit' /\ NoSleeperMissesBit'
  BY <1>0, <1>1, QuietStep DEF Read
<1>2. CASE CopyHeader(c) BY <1>0, <1>2, QuietStep DEF CopyHeader
<1>3. CASE CopyData(c) BY <1>0, <1>3, QuietStep DEF CopyData
<1>4. CASE Stage(c) BY <1>0, <1>4, QuietStep DEF Stage
<1>5. CASE Send(c) BY <1>0, <1>5, QuietStep DEF Send
<1>6. CASE Write(c) BY <1>0, <1>6, QuietStep DEF Write
<1>7. CASE SetExec(c)
  <2>1. c \notin waiting BY <1>7 DEF SetExec, SInv, Sleepers
  <2>2. \A w \in waiting : InWait(w)'
    BY <1>0, <1>7, <2>1 DEF SetExec, SInv, Sleepers
  <2>3. tdx_flags_set("EXEC") /\ UNCHANGED <<actual_events, early>>
    BY <1>7 DEF SetExec
  <2>4. actual_events # {} \/ cmdAt' \in {"get", "blocked"}
    BY <1>7 DEF SetExec, SInv, OneBit
  <2> HIDE DEF InWait
  <2> QED BY <2>2, <2>3, <2>4, SetStep
<1>8. CASE GetEnd(c)
  <2>1. UNCHANGED <<actual_events, early, cmdAt>> /\ c \notin waiting
        /\ at[c] = "get"
    BY <1>8 DEF GetEnd, SInv, Sleepers
  <2>2. CASE Take("END") /\ at' = [at EXCEPT ![c] = "write"]
    <3>1. flags' = {} /\ UNCHANGED waiting BY <2>2 DEF Take, SInv, OneBit
    <3>2. Sleepers' BY <1>0, <2>1, <2>2, <3>1 DEF SInv, Sleepers
    <3>3. OneBit' BY <2>1, <3>1 DEF SInv, OneBit
    <3> QED BY <3>1, <3>2, <3>3 DEF NoSleeperMissesBit
  <2>3. CASE Wait(c, "END") /\ at' = [at EXCEPT ![c] = "blocked"]
    <3>1. /\ waiting' = waiting \cup {c} /\ UNCHANGED flags
          /\ "END" \notin flags
      BY <2>3 DEF Wait
    <3>2. \A v \in Client \cup {Cmd} : InWait(v) => InWait(v)' /\ v # c
      BY <1>0, <2>1, <2>3
    <3>3. Sleepers'
      <4>1. InWait(c)' BY <1>0, <2>3
      <4> QED BY <1>0, <3>1, <3>2, <4>1 DEF SInv, Sleepers
    <3>4. OneBit' BY <2>1, <3>1 DEF SInv, OneBit
    <3>5. NoSleeperMissesBit'
      <4> SUFFICES ASSUME NEW w \in waiting', Awaited(w) \in flags', ~early'
                   PROVE  \E v \in (Client \cup {Cmd}) \ waiting' : InWait(v)'
        BY DEF NoSleeperMissesBit, Awaited
      <4>1. w # c BY <3>1 DEF Awaited
      <4>2. PICK v \in (Client \cup {Cmd}) \ waiting : InWait(v)
        BY <2>1, <3>1, <4>1 DEF SInv, NoSleeperMissesBit, Awaited
      <4> QED BY <3>1, <3>2, <4>2
    <3> QED BY <3>3, <3>4, <3>5
  <2> QED BY <1>8, <2>2, <2>3 DEF GetEnd
<1>9. CASE WokenEnd(c)
  <2>1. UNCHANGED <<actual_events, cmdAt, waiting>> /\ c \notin waiting
        /\ at' = [at EXCEPT ![c] = "write"]
    BY <1>9 DEF WokenEnd, Take, Miss
  <2>2. Sleepers' BY <1>0, <2>1 DEF SInv, Sleepers
  <2>3. CASE Take("END")
    <3>1. flags' = {} BY <2>3 DEF Take, SInv, OneBit
    <3> QED BY <2>1, <2>2, <3>1 DEF SInv, OneBit, NoSleeperMissesBit
  <2>4. CASE Miss("END") /\ early' = TRUE
    BY <2>1, <2>2, <2>4 DEF Miss, SInv, OneBit, NoSleeperMissesBit
  <2> QED BY <1>9, <2>3, <2>4 DEF WokenEnd
<1> QED
  BY <1>1, <1>2, <1>3, <1>4, <1>5, <1>6, <1>7, <1>8, <1>9 DEF ClientStep

LEMMA CmdSleeps ==
    ASSUME MInv, SInv, CmdStep
    PROVE  Sleepers' /\ OneBit' /\ NoSleeperMissesBit'
<1> USE Distinct DEF CmdGoto, evt, rx, tx, cmd, hist, InWait
<1>0. waiting \subseteq Client \cup {Cmd} BY DEF SInv, TypeOK
<1>1. CASE CmdReceive BY <1>1, QuietStep DEF CmdReceive
<1>2. CASE CmdAnalyze BY <1>2, QuietStep DEF CmdAnalyze
<1>3. CASE CmdSize BY <1>3, QuietStep DEF CmdSize
<1>4. CASE CmdCopy BY <1>4, QuietStep DEF CmdCopy
<1>5. CASE CmdSetEnd
  <2>1. Cmd \notin waiting BY <1>5 DEF CmdSetEnd, SInv, Sleepers
  <2>2. \A w \in waiting : InWait(w)'
    BY <1>0, <1>5, <2>1 DEF CmdSetEnd, SInv, Sleepers
  <2>3. actual_events # {} BY <1>5 DEF CmdSetEnd, SInv, OneBit
  <2>4. tdx_flags_set("END") /\ UNCHANGED <<actual_events, early>>
    BY <1>5 DEF CmdSetEnd
  <2> HIDE DEF InWait
  <2> QED BY <2>2, <2>3, <2>4, SetStep
<1>6. CASE CmdGetExec
  <2>1. cmdAt = "get" /\ UNCHANGED <<at, early>> /\ Cmd \notin waiting
    BY <1>6 DEF CmdGetExec, SInv, Sleepers
  <2>2. CASE Take("EXEC") /\ cmdAt' = "receive" /\ actual_events' = {"EXEC"}
    <3>1. flags' = {} /\ UNCHANGED waiting BY <2>2 DEF Take, SInv, OneBit
    <3>2. Sleepers' BY <2>1, <3>1 DEF SInv, Sleepers
    <3> QED BY <2>2, <3>1, <3>2 DEF OneBit, NoSleeperMissesBit
  <2>3. CASE Wait(Cmd, "EXEC") /\ cmdAt' = "blocked" /\ UNCHANGED actual_events
    <3>1. /\ waiting' = waiting \cup {Cmd} /\ UNCHANGED flags
          /\ "EXEC" \notin flags
      BY <2>3 DEF Wait
    <3>2. \A v \in Client \cup {Cmd} : InWait(v) => InWait(v)' /\ v # Cmd
      BY <2>1, <2>3
    <3>3. Sleepers' BY <1>0, <2>3, <3>1, <3>2 DEF SInv, Sleepers
    <3>4. OneBit' BY <2>3, <3>1 DEF SInv, OneBit
    <3>5. NoSleeperMissesBit'
      <4> SUFFICES ASSUME NEW w \in waiting', Awaited(w) \in flags', ~early'
                   PROVE  \E v \in (Client \cup {Cmd}) \ waiting' : InWait(v)'
        BY DEF NoSleeperMissesBit, Awaited
      <4>1. w # Cmd BY <3>1 DEF Awaited
      <4>2. PICK v \in (Client \cup {Cmd}) \ waiting : InWait(v)
        BY <2>1, <3>1, <4>1 DEF SInv, NoSleeperMissesBit, Awaited
      <4> QED BY <3>1, <3>2, <4>2
    <3> QED BY <3>3, <3>4, <3>5
  <2> QED BY <1>6, <2>2, <2>3 DEF CmdGetExec
<1>7. CASE CmdWokenExec
  <2>1. Cmd \notin waiting /\ UNCHANGED <<at, waiting>>
    BY <1>7 DEF CmdWokenExec, Take, Miss
  <2>2. Sleepers' BY <1>0, <2>1 DEF SInv, Sleepers
  <2>3. CASE Take("EXEC") /\ actual_events' = {"EXEC"}
    <3>1. flags' = {} BY <2>3 DEF Take, SInv, OneBit
    <3> QED BY <2>2, <2>3, <3>1 DEF OneBit, NoSleeperMissesBit
  <2>4. CASE Miss("EXEC") /\ UNCHANGED actual_events
             /\ early' = (early \/ actual_events # {})
    <3>1. UNCHANGED flags /\ "EXEC" \notin flags BY <2>4 DEF Miss
    <3>2. CASE actual_events = {}
      <4>1. flags' = {} /\ cmdAt' = "get"
        BY <1>7, <2>4, <3>1, <3>2 DEF CmdWokenExec, SInv, OneBit
      <4> QED BY <2>2, <4>1 DEF OneBit, NoSleeperMissesBit
    <3>3. CASE actual_events # {}
      BY <2>2, <2>4, <3>1, <3>3 DEF SInv, OneBit, NoSleeperMissesBit
    <3> QED BY <3>2, <3>3
  <2> QED BY <1>7, <2>3, <2>4 DEF CmdWokenExec
<1> QED BY <1>1, <1>2, <1>3, <1>4, <1>5, <1>6, <1>7 DEF CmdStep

LEMMA InitSInv == Init => SInv
<1> SUFFICES ASSUME Init PROVE SInv
  OBVIOUS
<1>1. TypeOK BY InitMInv DEF MInv
<1> QED
  BY <1>1 DEF Init, cmd_thread_init, SInv, Sleepers, OneBit, NoSleeperMissesBit

LEMMA StepSInv == MInv /\ SInv /\ [Next]_vars => SInv'
<1> SUFFICES ASSUME MInv, SInv, [Next]_vars PROVE SInv'
  OBVIOUS
<1>0. TypeOK' BY StepMInv DEF MInv
<1>1. ASSUME NEW c \in Client, ClientStep(c) \/ \E r \in Request : Read(c, r)
      PROVE  SInv'
  BY <1>0, <1>1, ClientSleeps DEF SInv
<1>2. CASE CmdStep BY <1>0, <1>2, CmdSleeps DEF SInv
<1>3. ASSUME NEW w \in Client \cup {Cmd}, SpuriousWakeup(w) PROVE SInv'
  <2>1. /\ waiting' = waiting \ {w} /\ w \in waiting
        /\ UNCHANGED <<flags, at, cmdAt, actual_events, early>>
    BY <1>3 DEF SpuriousWakeup, cmd, hist
  <2>2. \A v : InWait(v)' = InWait(v) BY <2>1 DEF InWait
  <2>3. NoSleeperMissesBit'
    <3>1. InWait(w) BY <2>1 DEF SInv, Sleepers
    <3> QED BY <2>1, <2>2, <3>1 DEF NoSleeperMissesBit
  <2>4. Sleepers' BY <2>1, <2>2 DEF SInv, Sleepers
  <2>5. OneBit' BY <2>1 DEF SInv, OneBit
  <2> QED BY <1>0, <2>3, <2>4, <2>5 DEF SInv
<1>4. CASE UNCHANGED vars
  BY <1>0, <1>4 DEF vars, SInv, Sleepers, OneBit, NoSleeperMissesBit, InWait, Awaited
<1> QED BY <1>1, <1>2, <1>3, <1>4 DEF Next

LEMMA SpecSInv == Spec => []SInv
BY InitSInv, StepSInv, SpecMInv, PTL DEF Spec

\* However many clients there are and whoever is woken unasked: until a wait
\* returns early, a thread that sleeps for a bit that is set is not left alone
\* with it (tdx.c 73-115); the signal has gone to another that has yet to look.
THEOREM BitsAreSeen == Spec => []NoSleeperMissesBit
<1>1. SInv => NoSleeperMissesBit BY DEF SInv
<1> QED BY <1>1, SpecSInv, PTL

-----------------------------------------------------------------------------
(* The queue.  CmdServer has it as a sequence with two operations; this is *)
(* what TdxQueueProofs shows of the ring that tdx.c makes of it.           *)

\* cmd_thread is the one that receives, into its static cmd_msg.
Fifo == INSTANCE BoundedFifo WITH
            Thread <- {Cmd}, Msg <- Client, NoMsg <- Nothing,
            q <- queue, got <- [t \in {Cmd} |-> cmd_msg]

\* DoCmd and cmd_thread use cmd_queue as no more than a bounded first-in
\* first-out buffer (comp_cmd.c 274, 688), any number of clients and refused
\* posts included: what TdxQueue implements is all they rely on.
THEOREM QueueIsFifo == Spec => Fifo!Spec
<1> USE DEF Fifo!Put, Fifo!Take
<1>1. Init => Fifo!Init BY DEF Init, cmd_thread_init, Fifo!Init
<1>2. MInv /\ [Next]_vars => [Fifo!Next]_<<queue, [t \in {Cmd} |-> cmd_msg]>>
  <2> SUFFICES ASSUME MInv, [Next]_vars
               PROVE  Fifo!Next \/ UNCHANGED <<queue, cmd_msg>>
    OBVIOUS
  <2>1. ASSUME NEW c \in Client, Send(c)
        PROVE  Fifo!Next \/ UNCHANGED <<queue, cmd_msg>>
    <3>1. staged \in Client BY <2>1 DEF MInv, TypeOK, Staged, Send, Goto
    <3>2. cmd_msg' = cmd_msg BY <2>1 DEF Send, cmd
    <3>3. CASE Len(queue) < Size
      <4>1. Fifo!Put(staged) BY <2>1, <3>2, <3>3 DEF Send
      <4> QED BY <3>1, <4>1 DEF Fifo!Next
    <3>4. CASE ~(Len(queue) < Size) BY <2>1, <3>2, <3>4 DEF Send
    <3> QED BY <3>3, <3>4
  <2>2. CASE CmdReceive
    <3>1. CASE queue = << >> BY <2>2, <3>1 DEF CmdReceive
    <3>2. CASE queue # << >>
      <4>1. cmd_msg' = Head(queue) /\ queue' = Tail(queue) BY <2>2, <3>2 DEF CmdReceive
      <4>2. Fifo!Take(Cmd) BY <3>2, <4>1
      <4> QED BY <4>2 DEF Fifo!Next
    <3> QED BY <3>1, <3>2
  <2>3. ASSUME NEW c \in Client, ~Send(c), ClientStep(c) \/ \E r \in Request : Read(c, r)
        PROVE  UNCHANGED <<queue, cmd_msg>>
    BY <2>3 DEF ClientStep, Read, CopyHeader, CopyData, Stage, SetExec, GetEnd, WokenEnd, Write, cmd
  <2>4. CASE CmdStep /\ ~CmdReceive
    BY <2>4 DEF CmdStep, CmdGetExec, CmdWokenExec, CmdAnalyze, CmdSize, CmdCopy, CmdSetEnd, cmd
  <2>5. ASSUME NEW w \in Client \cup {Cmd}, SpuriousWakeup(w)
        PROVE  UNCHANGED <<queue, cmd_msg>>
    BY <2>5 DEF SpuriousWakeup, cmd
  <2>6. CASE UNCHANGED vars BY <2>6 DEF vars
  <2> QED BY <2>1, <2>2, <2>3, <2>4, <2>5, <2>6 DEF Next
<1> QED BY <1>1, <1>2, SpecMInv, PTL DEF Spec, Fifo!Spec
=============================================================================
