----------------------------- MODULE CmdServer -----------------------------
(***************************************************************************)
(* The command interface of the Linux port: one tcp_thread per client      *)
(* (comp/comp_tcp_thread.c) hands a T2 frame to the one cmd_thread         *)
(* (comp/comp_cmd.c) and waits for the response.  They share               *)
(*   - the event flags g_command_event_flags (comp/tdx.c), with one bit    *)
(*     for "execute" and one for "done";                                   *)
(*   - the message queue cmd_queue (TdxQueue, used without waiting);       *)
(*   - the buffers tcp_rxb, SCOM.rxbuf and SCOM.txbuf, and DoCmd's         *)
(*     cmd_msg: all static, so there is one of each for all clients.       *)
(* Nothing but the flags' and the queue's own mutexes excludes anybody: a  *)
(* step is one access to shared state.  A login has succeeded before, and  *)
(* frames arrive whole: both are the business of TcpSession.               *)
(***************************************************************************)
EXTENDS Naturals, Sequences

CONSTANTS Client,     \* the tcp_threads
          Request,    \* what clients ask for
          Size,       \* slots of cmd_queue
          Spurious    \* TRUE: pthread_cond_wait may return unasked (POSIX)

ASSUME SizePositive == Size \in Nat \ {0}
ASSUME SpuriousBool == Spurious \in BOOLEAN

\* The cmd_thread, among the waiters of the event flags.
Cmd == "cmd_thread"

Nothing == "nothing"    \* a buffer or a pointer nobody has set
ASSUME ClientAssumption == Cmd \notin Client /\ Nothing \notin Client

Torn == "torn"          \* a frame put together from two: bad checksum
ASSUME RequestAssumption == Nothing \notin Request /\ Torn \notin Request

VARIABLES
    flags, waiting,       \* tdx_flags_t: the bits, and who waits for a signal
    queue,                \* cmd_queue
    tcp_rxb,              \* the frame read last, by any client
    rxHeader, rxData,     \* SCOM.rxbuf: header and length; command and data
    txbuf,                \* SCOM.txbuf
    staged,               \* DoCmd's cmd_msg: whose t_len pStatusSize points to
    t_len,                \* t_len[c]: the response size c will write
    cmd_msg,              \* cmd_thread's cmd_msg
    actual_events,        \* cmd_thread's actual_events
    StsArea,              \* the response being put together
    at, cmdAt,            \* where every tcp_thread and cmd_thread are
    asked,                \* asked[c]: the frame c's peer sent
    runs,                 \* runs[c]: how often it was executed (0, 1, many)
    answer,               \* answer[c]: the last frame written to c's socket
    early                 \* a wait returned without its bit, and mattered

evt == <<flags, waiting>>
rx == <<tcp_rxb, rxHeader, rxData>>
tx == <<txbuf, t_len>>
cmd == <<cmd_msg, actual_events, StsArea>>
hist == <<asked, runs, answer, early>>
vars == <<flags, waiting, queue, tcp_rxb, rxHeader, rxData, txbuf, staged,
          t_len, cmd_msg, actual_events, StsArea, at, cmdAt, asked, runs, answer,
          early>>

ClientAt == {"read", "header", "data", "stage", "send", "exec", "get",
             "blocked", "write"}
CmdAt == {"get", "blocked", "receive", "analyze", "publish", "copy", "done"}
Frame == Request \cup {Nothing, Torn}

TypeOK == /\ flags \subseteq {"EXEC", "END"}
          /\ waiting \subseteq Client \cup {Cmd}
          /\ queue \in Seq(Client) /\ Len(queue) <= Size
          /\ {tcp_rxb, rxHeader, rxData} \subseteq Request \cup {Nothing}
          /\ txbuf \in Frame /\ t_len \in [Client -> Frame]
          /\ staged \in Client \cup {Nothing}
          /\ cmd_msg \in Client \cup {Nothing}
          /\ actual_events \subseteq {"EXEC"} /\ StsArea \in Frame
          /\ at \in [Client -> ClientAt] /\ cmdAt \in CmdAt
          /\ asked \in [Client -> Request \cup {Nothing}]
          /\ runs \in [Client -> 0 .. 2]
          /\ answer \in [Client -> Frame]
          /\ early \in BOOLEAN

cmd_thread_init == /\ flags = {} /\ waiting = {} /\ queue = << >>

Init == /\ cmd_thread_init
        /\ tcp_rxb = Nothing /\ rxHeader = Nothing /\ rxData = Nothing
        /\ txbuf = Nothing /\ t_len = [c \in Client |-> Nothing]
        /\ staged = Nothing /\ cmd_msg = Nothing
        /\ actual_events = {} /\ StsArea = Nothing
        /\ at = [c \in Client |-> "read"] /\ cmdAt = "get"
        /\ asked = [c \in Client |-> Nothing]
        /\ runs = [c \in Client |-> 0]
        /\ answer = [c \in Client |-> Nothing]
        /\ early = FALSE

-----------------------------------------------------------------------------
(* tdx_flags_set and tdx_flags_get, as steps of the thread that calls them *)

\* One waiter is woken, whatever bit it waits for.
Signal == waiting' \in IF waiting = {} THEN {{}}
                                       ELSE {waiting \ {w} : w \in waiting}

\* Faults are kept beside the definitions they would replace, to show which
\* property notices: here, no signal.
SetNoSignal(bit) == flags' = {bit} /\ UNCHANGED waiting

\* The new bit replaces the old ones.
tdx_flags_set(bit) == flags' = {bit} /\ Signal

\* The bit is there, now or after the wait: the caller takes it.
Take(bit) == bit \in flags /\ flags' = flags \ {bit} /\ UNCHANGED waiting

\* The bit is not there: the caller waits for one signal.
Wait(w, bit) == bit \notin flags /\ waiting' = waiting \cup {w} /\ UNCHANGED flags

\* The wait is over and the bit still is not there: the call returns 1.
Miss(bit) == bit \notin flags /\ UNCHANGED evt

SpuriousWakeup(w) ==
    /\ Spurious /\ w \in waiting
    /\ waiting' = waiting \ {w}
    /\ UNCHANGED <<flags, queue, rx, tx, staged, cmd, at, cmdAt, hist>>

-----------------------------------------------------------------------------
(* A tcp_thread: the loop of tcp_thread and, from Stage on, DoCmd.         *)

Goto(c, from, to) == at[c] = from /\ at' = [at EXCEPT ![c] = to]

Read(c, r) ==
    /\ Goto(c, "read", "header")
    /\ tcp_rxb' = r
    /\ asked' = [asked EXCEPT ![c] = r]
    /\ UNCHANGED <<evt, queue, rxHeader, rxData, tx, staged, cmd, cmdAt, runs, answer, early>>

CopyHeader(c) ==
    /\ Goto(c, "header", "data")
    /\ rxHeader' = tcp_rxb
    /\ UNCHANGED <<evt, queue, tcp_rxb, rxData, tx, staged, cmd, cmdAt, hist>>

CopyData(c) ==
    /\ Goto(c, "data", "stage")
    /\ rxData' = tcp_rxb
    /\ UNCHANGED <<evt, queue, tcp_rxb, rxHeader, tx, staged, cmd, cmdAt, hist>>

\* Fault: pStatusSize is left unset.
StageNoSize(c) ==
    /\ Goto(c, "stage", "send")
    /\ UNCHANGED <<evt, queue, rx, tx, staged, cmd, cmdAt, hist>>

\* *pRSPlen = REQlen: no response size yet.
Stage(c) ==
    /\ Goto(c, "stage", "send")
    /\ t_len' = [t_len EXCEPT ![c] = Nothing]
    /\ staged' = c
    /\ UNCHANGED <<evt, queue, rx, txbuf, cmd, cmdAt, hist>>

\* The queue takes a copy of cmd_msg, whoever filled it; a full queue refuses
\* it and nobody looks at the result.
Send(c) ==
    /\ Goto(c, "send", "exec")
    /\ queue' = IF Len(queue) < Size THEN Append(queue, staged) ELSE queue
    /\ UNCHANGED <<evt, rx, tx, staged, cmd, cmdAt, hist>>

SetExec(c) ==
    /\ Goto(c, "exec", "get")
    /\ tdx_flags_set("EXEC")
    /\ UNCHANGED <<queue, rx, tx, staged, cmd, cmdAt, hist>>

\* Fault: TX_NO_WAIT for TX_WAIT_FOREVER.
GetEndNoWait(c) ==
    /\ Take("END") \/ Miss("END")
    /\ Goto(c, "get", "write")
    /\ UNCHANGED <<queue, rx, tx, staged, cmd, cmdAt, hist>>

GetEnd(c) ==
    /\ \/ Take("END") /\ Goto(c, "get", "write")
       \/ Wait(c, "END") /\ Goto(c, "get", "blocked")
    /\ UNCHANGED <<queue, rx, tx, staged, cmd, cmdAt, hist>>

\* The result of tdx_flags_get is not looked at: woken without its bit, c goes
\* on as if it had been answered.
WokenEnd(c) ==
    /\ c \notin waiting
    /\ \/ Take("END") /\ UNCHANGED early
       \/ Miss("END") /\ early' = TRUE
    /\ Goto(c, "blocked", "write")
    /\ UNCHANGED <<queue, rx, tx, staged, cmd, cmdAt, asked, runs, answer>>

\* t_len bytes of SCOM.txbuf go to the client.
Write(c) ==
    /\ Goto(c, "write", "read")
    /\ answer' = [answer EXCEPT ![c] = IF t_len[c] = txbuf THEN txbuf ELSE Torn]
    /\ asked' = [asked EXCEPT ![c] = Nothing]
    /\ runs' = [runs EXCEPT ![c] = 0]
    /\ UNCHANGED <<evt, queue, rx, tx, staged, cmd, cmdAt, early>>

-----------------------------------------------------------------------------
(* cmd_thread                                                              *)

CmdGoto(from, to) == cmdAt = from /\ cmdAt' = to

CmdGetExec ==
    /\ \/ Take("EXEC") /\ CmdGoto("get", "receive") /\ actual_events' = {"EXEC"}
       \/ /\ Wait(Cmd, "EXEC") /\ CmdGoto("get", "blocked")
          /\ UNCHANGED actual_events
    /\ UNCHANGED <<queue, rx, tx, staged, cmd_msg, StsArea, at, hist>>

\* Fault: actual_events is not tested.
CmdWokenAlways ==
    /\ CmdGoto("blocked", "receive") /\ Cmd \notin waiting
    /\ \/ Take("EXEC") /\ actual_events' = {"EXEC"}
       \/ Miss("EXEC") /\ UNCHANGED actual_events
    /\ UNCHANGED <<queue, rx, tx, staged, cmd_msg, StsArea, at, hist>>

\* A tdx_flags_get that returns 1 leaves actual_events as it was: once set,
\* FLG_CMD_EXEC stays, and cmd_thread goes on as if there was a message.
CmdWokenExec ==
    /\ cmdAt = "blocked" /\ Cmd \notin waiting
    /\ \/ Take("EXEC") /\ actual_events' = {"EXEC"} /\ UNCHANGED early
       \/ /\ Miss("EXEC") /\ UNCHANGED actual_events
          /\ early' = (early \/ actual_events # {})
    /\ cmdAt' = IF "EXEC" \in actual_events' THEN "receive" ELSE "get"
    /\ UNCHANGED <<queue, rx, tx, staged, cmd_msg, StsArea, at, asked, runs, answer>>

\* An empty queue leaves cmd_msg, a static variable, as it was.
CmdReceive ==
    /\ CmdGoto("receive", "analyze")
    /\ IF queue = << >>
       THEN UNCHANGED <<queue, cmd_msg>>
       ELSE cmd_msg' = Head(queue) /\ queue' = Tail(queue)
    /\ UNCHANGED <<evt, rx, tx, staged, actual_events, StsArea, at, hist>>

\* Checksum, AnalyzeCmd and the response in StsArea.
CmdAnalyze ==
    /\ CmdGoto("analyze", "publish")
    /\ StsArea' = IF rxHeader = rxData THEN rxData ELSE Torn
    /\ runs' = [c \in Client |-> IF c = cmd_msg /\ runs[c] < 2
                                 THEN runs[c] + 1 ELSE runs[c]]
    /\ UNCHANGED <<evt, queue, rx, tx, staged, cmd_msg, actual_events, at, asked, answer,
                   early>>

\* Fault: the size stays in CmdStatusSize.
CmdSizeKept ==
    /\ CmdGoto("publish", "copy")
    /\ UNCHANGED <<evt, queue, rx, tx, staged, cmd, at, hist>>

\* The size goes where pStatusSize points.
CmdSize ==
    /\ CmdGoto("publish", "copy")
    /\ t_len' = [c \in Client |-> IF c = cmd_msg THEN StsArea ELSE t_len[c]]
    /\ UNCHANGED <<evt, queue, rx, txbuf, staged, cmd, at, hist>>

\* The response goes where pT2Status points: always SCOM.txbuf.
CmdCopy ==
    /\ CmdGoto("copy", "done")
    /\ txbuf' = StsArea
    /\ UNCHANGED <<evt, queue, rx, t_len, staged, cmd, at, hist>>

CmdSetEnd ==
    /\ CmdGoto("done", "get")
    /\ tdx_flags_set("END")
    /\ UNCHANGED <<queue, rx, tx, staged, cmd, at, hist>>

-----------------------------------------------------------------------------

\* What a client does without its peer.
ClientStep(c) == \/ CopyHeader(c) \/ CopyData(c) \/ Stage(c) \/ Send(c)
                 \/ SetExec(c) \/ GetEnd(c) \/ WokenEnd(c) \/ Write(c)

CmdStep == \/ CmdGetExec \/ CmdWokenExec \/ CmdReceive
           \/ CmdAnalyze \/ CmdSize \/ CmdCopy \/ CmdSetEnd

Next == \/ \E c \in Client, r \in Request : Read(c, r)
        \/ \E c \in Client : ClientStep(c)
        \/ CmdStep
        \/ \E w \in Client \cup {Cmd} : SpuriousWakeup(w)

Spec == Init /\ [][Next]_vars

\* Every thread that can run does; peers send when they like.
FairSpec == Spec /\ WF_vars(CmdStep) /\ \A c \in Client : WF_vars(ClientStep(c))

-----------------------------------------------------------------------------
(* Properties                                                              *)

\* Every request is executed once and answered with its own response, until a
\* wait returns early: the shared buffers, the two flags and the queue amount
\* to a service.
Service == INSTANCE CommandService WITH executed <- runs, broken <- early

ImplementsService == Service!Spec

\* While a command is executed its client stays inside DoCmd, so nobody writes
\* the request buffer that is read or reads the response that is written:
\* until a wait returns early.
BuffersOwned ==
    ~early /\ cmdAt \in {"receive", "analyze", "publish", "copy", "done"} =>
        /\ \E c \in Client : /\ at[c] \in {"get", "blocked"}
                             /\ cmdAt # "receive" => cmd_msg = c
        /\ \A c \in Client : at[c] \in {"get", "blocked", "read"}

\* cmd_thread never runs the message nobody sent: its cmd_msg starts as zeros,
\* and a wake-up or a refused message must not lead it there.
NeverUnsent ==
    cmdAt \in {"analyze", "publish", "copy", "done"} => cmd_msg # Nothing

\* Inside the wait of tdx_flags_get, woken or not; and the bit waited for.
InWait(w) == IF w = Cmd THEN cmdAt = "blocked" ELSE at[w] = "blocked"
Awaited(w) == IF w = Cmd THEN "EXEC" ELSE "END"

\* One signal for one bit, whoever gets it: while a bit is set that somebody
\* still sleeps for, another thread has been woken and has yet to look.  Only
\* a wait that returned early leaves a sleeper alone with its bit.
NoSleeperMissesBit ==
    \A w \in waiting :
        Awaited(w) \in flags =>
            early \/ \E v \in (Client \cup {Cmd}) \ waiting : InWait(v)


\* DoCmd comes back, unless a wait has returned early before.
Served == \A c \in Client : at[c] = "get" ~> early \/ at[c] = "read"
=============================================================================
