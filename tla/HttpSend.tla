------------------------------ MODULE HttpSend ------------------------------
(***************************************************************************)
(* The sending of reports and the commands of the server in the firmware:  *)
(* the HTTP thread (http_thread_entry.c, my_src/tls_client.c), the auto    *)
(* thread and the command thread that ask it for a report and wait for the *)
(* answer (Warning.c, Monitor.c, Suction.c, cmd_thread_entry.c), and the   *)
(* network thread that rebuilds the network under it.                      *)
(*                                                                         *)
(* The threads share the send flags G_HttpFile[], the event flags          *)
(* event_flags_http, the text of the report, xml_buffer, and the suspended *)
(* state of the threads.  The auto thread has the lowest priority and runs *)
(* while the HTTP thread is blocked.  A report is known by its maker, its  *)
(* kind and whether it is complete.                                        *)
(*                                                                         *)
(* Left out: commands of the server in several parts, the update of the    *)
(* firmware, the sending test of the log, and a reboot by command.         *)
(***************************************************************************)
EXTENDS Integers, Sequences

CONSTANTS
    Modes,      \* websrv.Mode: 0 is the DataServer, 2 the WebStorage over TLS
    CertMax,    \* number of root certificates that are tried
    AutoKinds,  \* kinds of reports of the auto thread, among W, S and M
    Budget      \* bound on the events from outside

ASSUME HttpAssumption ==
    /\ Modes \subseteq {0, 2} /\ CertMax \in Nat \ {0}
    /\ AutoKinds \subseteq {"W", "S", "M"} /\ Budget \in Nat

VARIABLES
    mode, usb, shown,       \* the setting, the USB cable, the root certificate of the server
    file, flags, busy,      \* G_HttpFile[].sndflg, event_flags_http, a command has its reqid
    pc, pos, ok, errors,    \* the HTTP thread: its place, its file, its result, http_error
    asleep,                 \* the HTTP thread is suspended
    cert, gaveUp,           \* cert_index; history: searches without success
    xml, doc,               \* xml_buffer, and the report that is being sent
    spc, kind,              \* a sender: its place, and its kind of report
    order,                  \* what the command thread runs for the server
    net, link, netReboot,   \* the network thread, event_flags_link, NetReboot
    wifiDown,               \* event_flags_wifi
    fate, crossed,          \* history: what became of the auto thread's report; two reports met
    budget

outside == <<mode, usb, shown>>
session == <<pc, pos, ok, errors, asleep>>
certs == <<cert, gaveUp>>
text == <<xml, doc>>
senders == <<spc, kind, order>>
network == <<net, link, netReboot, wifiDown>>
history == <<fate, crossed>>
vars == <<outside, file, flags, busy, session, certs, text, senders, network, history, budget>>

\* The order in which a session looks at the files: the settings, reports of
\* alarms, records and current readings, the request for a command, the answer
\* to one, the state of the unit, the log.
Order == <<"C", "W", "S", "M", "R", "A", "I", "L">>
File == {Order[i] : i \in DOMAIN Order}
Reports == {"W", "S", "M"}
Answers == {"SUCCESS", "ERROR", "CANCEL"}
Sender == {"auto", "cmd"}

Text == [by : Sender, kind : Reports, whole : BOOLEAN]
NoText == [by |-> "auto", kind |-> "W", whole |-> FALSE]
Tls == mode # 0

\* The threads, the flags and the reports have values of their kinds.
TypeOK ==
    /\ mode \in Modes /\ usb \in BOOLEAN /\ shown \in 0 .. CertMax
    /\ file \subseteq File /\ flags \subseteq Answers \cup {"READY"} /\ busy \in BOOLEAN
    /\ pc \in {"wait", "lock", "check", "cancel", "connect", "scan", "post", "hand",
               "report", "errors", "wifi"}
    /\ pos \in DOMAIN Order /\ ok \in BOOLEAN /\ errors \in 0 .. 2 /\ asleep \in BOOLEAN
    /\ cert \in 0 .. CertMax - 1 /\ gaveUp \in 0 .. 2
    /\ xml \in Text /\ doc \in Text
    /\ spc \in [Sender -> {"idle", "make", "clear", "mark", "ask", "get", "wait", "sent", "failed", "run"}]
    /\ kind \in [Sender -> Reports]
    /\ order \in {"none", "put", "test"}
    /\ net \in {"up", "look", "suspend", "decide", "down", "release"}
    /\ link \in BOOLEAN /\ netReboot \in BOOLEAN /\ wifiDown \in BOOLEAN
    /\ fate \in {"none", "sent", "lost", "dropped"}
    /\ crossed \in BOOLEAN /\ budget \in 0 .. Budget

\* What a start of the unit leaves: the HTTP thread sleeps until the network
\* is there, and the settings are to be sent.
Started ==
    [file |-> {"C"}, spc |-> [s \in Sender |-> "idle"], kind |-> [s \in Sender |-> "W"]]

Init ==
    /\ mode \in Modes /\ usb = FALSE /\ shown = IF Tls THEN CertMax - 1 ELSE 0
    /\ file = Started.file /\ flags = {} /\ busy = FALSE
    /\ pc = "wait" /\ pos = 1 /\ ok = TRUE /\ errors = 0 /\ asleep = TRUE
    /\ cert = 0 /\ gaveUp = 0 /\ xml = NoText /\ doc = NoText
    /\ spc = Started.spc /\ kind = Started.kind /\ order = "none"
    /\ net = "down" /\ link = FALSE /\ netReboot = FALSE /\ wifiDown = FALSE
    /\ fate = "none" /\ crossed = FALSE /\ budget = Budget

Reboot ==
    /\ file' = Started.file /\ flags' = {} /\ busy' = FALSE
    /\ pc' = "wait" /\ pos' = 1 /\ ok' = TRUE /\ errors' = 0 /\ asleep' = TRUE
    /\ cert' = 0 /\ gaveUp' = 0 /\ xml' = NoText /\ doc' = NoText
    /\ spc' = Started.spc /\ kind' = Started.kind /\ order' = "none"
    /\ net' = "down" /\ link' = FALSE /\ netReboot' = FALSE /\ wifiDown' = FALSE
    /\ fate' = "none" /\ crossed' = FALSE
    /\ UNCHANGED <<outside, budget>>

-----------------------------------------------------------------------------
(* Shared operations.                                                      *)

\* What a sender makes of an answer: an error or a cancellation outdoes a success.
Taken(answer) == IF answer = {"SUCCESS"} THEN "sent" ELSE "failed"

\* tx_event_flags_set: an answer goes to every sender that waits for one, and
\* is gone then; without one it stays.
SetFlags(new) ==
    LET all    == flags \cup new
        answer == all \cap Answers
        woken  == {s \in Sender : spc[s] = "wait" /\ answer # {}}
    IN  /\ spc' = [s \in Sender |-> IF s \in woken THEN Taken(answer) ELSE spc[s]]
        /\ flags' = IF woken = {} THEN all ELSE all \ answer

\* The flags that go with the flag of a file: those of all reports.
Reset(f) == IF f \in Reports THEN Reports ELSE {f}

\* History: the flag of a report is cleared without it being sent.
Lose(set, how) ==
    fate' = IF kind["auto"] \in set \cap file /\ fate = "none" /\ spc["auto"] \in {"ask", "get", "wait"}
            THEN how ELSE fate

\* ichttp_filesnd_check: with USB connected the reports are dropped, and there
\* is nothing to send, but for a test that was not asked for by the server.
LocalTest == spc["cmd"] # "idle" /\ order = "none"
ForUsb == usb /\ ~LocalTest
Something == ~ForUsb /\ file # {}
DropForUsb == /\ file' = IF ForUsb THEN file \ Reports ELSE file
              /\ Lose(IF ForUsb THEN Reports ELSE {}, "dropped")

\* mutex_network_init is held by the network thread.
NetworkMutex == net \in {"down", "release"}

At(place) == pc = place /\ ~asleep
Go(place) == pc' = place

\* The HTTP thread waits for a flag, the mutex, the server or a time.
Blocked ==
    \/ asleep \/ pc \in {"connect", "post", "hand", "report"}
    \/ pc = "wait" /\ "READY" \notin flags
    \/ pc = "lock" /\ NetworkMutex

-----------------------------------------------------------------------------
(* The HTTP thread: http_thread_entry.                                     *)

TakeReady ==
    /\ At("wait") /\ "READY" \in flags
    /\ flags' = flags \ {"READY"} /\ Go("lock")
    /\ UNCHANGED <<outside, file, busy, pos, ok, errors, asleep, certs, text, senders, network, history, budget>>

PassMutex ==
    /\ At("lock") /\ ~NetworkMutex /\ Go("check")
    /\ UNCHANGED <<outside, file, flags, busy, pos, ok, errors, asleep, certs, text, senders, network, history, budget>>

Check ==
    /\ At("check") /\ Go(IF Something THEN "connect" ELSE "cancel")
    /\ DropForUsb
    /\ UNCHANGED <<outside, flags, busy, pos, ok, errors, asleep, certs, text, senders, network, crossed, budget>>

\* Fault: nobody is told that there is nothing to send.
CancelSilently ==
    /\ At("cancel") /\ Go("wait")
    /\ UNCHANGED <<outside, file, flags, busy, pos, ok, errors, asleep, certs, text, senders, network, history, budget>>

Cancel ==
    /\ At("cancel") /\ Go("wait") /\ SetFlags({"CANCEL"})
    /\ UNCHANGED <<outside, file, busy, pos, ok, errors, asleep, certs, text, kind, order, network, history, budget>>

\* vhttp_cmdflg_allreset: every request is cleared.
ClearAll == file' = {} /\ busy' = FALSE /\ Lose(Reports, "lost")

\* Fault: the session counts as a good one.
ConnectFailsUnseen ==
    /\ At("connect") /\ Go("report") /\ errors' = errors + 1 /\ ClearAll
    /\ UNCHANGED <<outside, flags, pos, ok, asleep, certs, text, senders, network, crossed, budget>>

\* No address, or no connection.
ConnectFails ==
    /\ At("connect") /\ Go("report") /\ ok' = FALSE /\ errors' = errors + 1
    /\ ClearAll
    /\ UNCHANGED <<outside, flags, pos, asleep, certs, text, senders, network, crossed, budget>>

\* TLS cannot be set up: the requests stay.
SetupFails ==
    /\ At("connect") /\ Tls /\ Go("report") /\ ok' = FALSE /\ errors' = errors + 1
    /\ UNCHANGED <<outside, file, flags, busy, pos, asleep, certs, text, senders, network, history, budget>>

\* Fault: one certificate too many.
NextCertTooFar ==
    /\ At("connect") /\ Tls /\ cert # shown /\ cert + 1 <= CertMax
    /\ cert' = cert + 1
    /\ UNCHANGED <<outside, file, flags, busy, session, gaveUp, text, senders, network, history, budget>>

NextCert ==
    /\ At("connect") /\ Tls /\ cert # shown /\ cert + 1 < CertMax
    /\ cert' = cert + 1
    /\ UNCHANGED <<outside, file, flags, busy, session, gaveUp, text, senders, network, history, budget>>

\* Fault: the last certificate is not tried.
NoCertEarly ==
    /\ At("connect") /\ Tls /\ cert # shown /\ cert + 2 >= CertMax
    /\ cert' = 0 /\ gaveUp' = IF gaveUp < 2 THEN gaveUp + 1 ELSE 2
    /\ Go("report") /\ ok' = FALSE /\ ClearAll
    /\ UNCHANGED <<outside, flags, pos, errors, asleep, text, senders, network, crossed, budget>>

\* The last certificate does not fit either.
NoCert ==
    /\ At("connect") /\ Tls /\ cert # shown /\ cert + 1 = CertMax
    /\ cert' = 0 /\ gaveUp' = IF gaveUp < 2 THEN gaveUp + 1 ELSE 2
    /\ Go("report") /\ ok' = FALSE /\ ClearAll
    /\ UNCHANGED <<outside, flags, pos, errors, asleep, text, senders, network, crossed, budget>>

\* Ten lines of the log may have come together.
Connect ==
    /\ At("connect") /\ (Tls => cert = shown)
    /\ \/ UNCHANGED <<file, budget>>
       \/ file' = file \cup {"L"} /\ budget > 0 /\ budget' = budget - 1
    /\ Go("scan") /\ ok' = TRUE /\ gaveUp' = 0
    /\ UNCHANGED <<outside, flags, busy, pos, errors, asleep, cert, text, senders, network, history>>

-----------------------------------------------------------------------------
(* A session: my_https_POST.                                               *)

Later == {p \in pos .. Len(Order) : Order[p] \in file}
Found == CHOOSE p \in Later : \A q \in Later : p <= q

Finish == Go("report") /\ pos' = 1

\* On to the next file, or to the next pass over all files; for the DataServer
\* a session has one file.
GoOn(p) ==
    CASE mode = 0 -> Finish
      [] mode # 0 /\ p < Len(Order) -> Go("scan") /\ pos' = p + 1
      [] OTHER -> Go("scan") /\ UNCHANGED pos

\* The settings are not sent while a command of the server is open.
SkipSettings ==
    /\ At("scan") /\ Later # {} /\ Order[Found] = "C" /\ busy
    /\ GoOn(Found)
    /\ UNCHANGED <<outside, file, flags, busy, ok, errors, asleep, certs, text, senders, network, history, budget>>

StartPost ==
    /\ At("scan") /\ Later # {} /\ ~(Order[Found] = "C" /\ busy)
    /\ pos' = Found /\ Go("post") /\ doc' = IF Order[Found] \in Reports THEN xml ELSE doc
    /\ UNCHANGED <<outside, file, flags, busy, ok, errors, asleep, certs, xml, senders, network, history, budget>>

\* Behind the last file: the session goes on as long as there are files.
EndScan ==
    /\ At("scan") /\ Later = {}
    /\ IF mode = 0 THEN Finish /\ UNCHANGED <<file, fate>>
       ELSE /\ DropForUsb
            /\ pos' = 1 /\ Go(IF Something THEN "scan" ELSE "report")
    /\ UNCHANGED <<outside, flags, busy, ok, errors, asleep, certs, text, senders, network, crossed, budget>>

\* The flag of a file that was not taken; the settings and the answer to a
\* command take the command along.
NotTaken(f) == /\ file' = file \ Reset(f)
               /\ busy' = (busy /\ f \notin {"A", "C"})
               /\ Lose(Reset(f), "lost") /\ doc' = NoText

PostFails ==
    /\ At("post") /\ Finish /\ ok' = FALSE /\ errors' = errors + 1
    /\ NotTaken(Order[pos])
    /\ UNCHANGED <<outside, flags, asleep, certs, xml, senders, network, crossed, budget>>

\* The server answers with another status than 200: that is no error to count.
PostRefused ==
    /\ At("post") /\ Finish /\ ok' = FALSE
    /\ NotTaken(Order[pos])
    /\ UNCHANGED <<outside, flags, errors, asleep, certs, xml, senders, network, crossed, budget>>

\* Status 412: the server wants all settings first.
PostWantsSettings ==
    /\ At("post") /\ Finish /\ ok' = FALSE /\ budget > 0 /\ budget' = budget - 1
    /\ LET f == Order[pos]
       IN  /\ file' = (file \ Reset(f)) \cup {"C"} /\ flags' = flags \cup {"READY"}
           /\ busy' = (busy /\ f \notin {"A", "C"})
           /\ Lose(Reset(f), "lost") /\ doc' = NoText
    /\ UNCHANGED <<outside, errors, asleep, certs, xml, senders, network, crossed>>

\* What an answer asks for: 1 is a request for the command, 2 are all settings;
\* neither is heard with USB connected.
Wanted(f, next) ==
    CASE next = 1 /\ f # "I" /\ (f = "A" \/ ~busy) -> {"R"}
      [] next = 2 /\ f # "I" -> {"C"}
      [] OTHER -> {}

\* A file is taken.  Of the settings more may be left, of the log too.
PostTaken ==
    /\ At("post") /\ Order[pos] # "R" /\ ok' = TRUE /\ GoOn(pos)
    /\ \E next \in 0 .. 2, more \in BOOLEAN :
        LET f    == Order[pos]
            on   == Wanted(f, next)
            off  == IF more \/ (f = "C" /\ "C" \in on) THEN {} ELSE Reset(f)
            sent == doc.whole /\ doc.kind = f
        IN  /\ more => f = "C" \/ (f = "L" /\ mode = 0)
            /\ next # 0 => ~usb
            /\ (next # 0 \/ more) => budget > 0
            /\ budget' = IF next # 0 \/ more THEN budget - 1 ELSE budget
            /\ file' = (file \cup on) \ off
            /\ flags' = IF on = {} THEN flags ELSE flags \cup {"READY"}
            /\ busy' = (busy /\ f # "A")
            /\ Lose(off, IF sent /\ doc.by = "auto" THEN "sent" ELSE "lost")
    /\ doc' = NoText
    /\ UNCHANGED <<outside, errors, asleep, certs, xml, senders, network, crossed>>

\* The answer to the request for a command: there is none, or one that is not
\* known; all settings are wanted; a command that reads is answered here;
\* another one is handed over.
TakeNone == (\E a \in {{}, {"A"}} : file' = (file \ {"R"}) \cup a) /\ UNCHANGED <<flags, busy>> /\ GoOn(pos)
TakeAll == /\ ~usb /\ file' = (file \ {"R"}) \cup {"C", "A"} /\ flags' = flags \cup {"READY"}
           /\ UNCHANGED busy /\ GoOn(pos)
TakeRead == /\ file' = (file \ {"R"}) \cup {"A"} /\ busy' = TRUE
            /\ UNCHANGED flags /\ GoOn(pos)
TakeOther == busy' = TRUE /\ Go("hand") /\ UNCHANGED <<file, flags, pos>>

TakeCommand ==
    /\ At("post") /\ Order[pos] = "R" /\ ok' = TRUE
    /\ TakeNone \/ TakeAll \/ TakeRead \/ TakeOther
    /\ UNCHANGED <<outside, errors, asleep, certs, text, senders, network, history, budget>>

\* The command thread must have suspended itself before it gets a command.
HandOver ==
    /\ At("hand") /\ spc["cmd"] = "idle"
    /\ spc' = [spc EXCEPT !["cmd"] = "run"] /\ order' \in {"put", "test"}
    /\ file' = file \ {"R"} /\ GoOn(pos)
    /\ UNCHANGED <<outside, flags, busy, ok, errors, asleep, certs, text, kind, network, history, budget>>

\* The connection is closed and the answer given, but for the DataServer only
\* when nothing is left to send.
Report ==
    /\ At("report") /\ Go("errors")
    /\ IF mode = 0 THEN DropForUsb ELSE UNCHANGED <<file, fate>>
    /\ IF mode = 0 /\ Something THEN UNCHANGED <<spc, flags>>
       ELSE SetFlags({IF ok THEN "SUCCESS" ELSE "ERROR"})
    /\ errors' = IF ok THEN 0 ELSE errors
    /\ ok' = TRUE
    /\ UNCHANGED <<outside, busy, pos, asleep, certs, text, kind, order, network, crossed, budget>>

\* After two errors the network is restarted, and the thread sleeps meanwhile.
Errors ==
    /\ At("errors") /\ Go("wifi")
    /\ IF errors > 1
       THEN /\ SetFlags({"ERROR"}) /\ errors' = 0
            /\ netReboot' = TRUE /\ link' = TRUE /\ asleep' = TRUE
       ELSE UNCHANGED <<spc, flags, errors, asleep, netReboot, link>>
    /\ UNCHANGED <<outside, file, busy, pos, ok, certs, text, kind, order, net, wifiDown, history, budget>>

\* Fault: the thread waits for READY after each session.
WifiWaits ==
    /\ At("wifi") /\ Go("wait")
    /\ IF wifiDown
       THEN SetFlags({"ERROR"}) /\ wifiDown' = FALSE /\ link' = TRUE /\ asleep' = TRUE
       ELSE UNCHANGED <<spc, flags, wifiDown, link, asleep>>
    /\ UNCHANGED <<outside, file, busy, pos, ok, errors, certs, text, kind, order, net, netReboot, history, budget>>

Wifi ==
    /\ At("wifi") /\ Go("check")
    /\ IF wifiDown
       THEN SetFlags({"ERROR"}) /\ wifiDown' = FALSE /\ link' = TRUE /\ asleep' = TRUE
       ELSE UNCHANGED <<spc, flags, wifiDown, link, asleep>>
    /\ UNCHANGED <<outside, file, busy, pos, ok, errors, certs, text, kind, order, net, netReboot, history, budget>>

http_thread_entry ==
    \/ TakeReady \/ PassMutex \/ Check \/ Cancel
    \/ ConnectFails \/ SetupFails \/ NextCert \/ NoCert \/ Connect
    \/ SkipSettings \/ StartPost \/ EndScan \/ PostFails \/ PostRefused \/ PostWantsSettings
    \/ PostTaken \/ TakeCommand \/ HandOver \/ Report \/ Errors \/ Wifi

-----------------------------------------------------------------------------
(* The senders of reports.                                                 *)

\* The flags of a kind of report: the state of the unit goes along with the
\* current readings.
Marks(k) == IF k = "M" THEN {"M", "I"} ELSE {k}

\* A new text in the buffer, which spoils a report that is just being sent.
Write(s, k, complete) ==
    /\ xml' = [by |-> s, kind |-> k, whole |-> complete]
    /\ doc' = IF pc = "post" THEN [doc EXCEPT !.whole = FALSE] ELSE doc

\* History: somebody else's report, or one that was given up, is still there.
Meets(s) == file \cap Reports # {} \/ \E o \in Sender \ {s} : spc[o] \notin {"idle", "run"}

AutoAt(place) == spc["auto"] = place /\ Blocked /\ spc["cmd"] \notin {"sent", "failed"}
AutoGo(place) == spc' = [spc EXCEPT !["auto"] = place]

\* Fault: the report is marked before its text is there.
AutoCreateMarks ==
    /\ AutoAt("idle") /\ budget > 0 /\ budget' = budget - 1 /\ AutoGo("make")
    /\ \E k \in AutoKinds : kind' = [kind EXCEPT !["auto"] = k] /\ Write("auto", k, FALSE)
                          /\ file' = file \cup Marks(k)
    /\ crossed' = Meets("auto")
    /\ UNCHANGED <<outside, flags, busy, session, certs, order, network, fate>>

\* A report is begun; Budget bounds them too.
AutoCreate ==
    /\ AutoAt("idle") /\ budget > 0 /\ budget' = budget - 1 /\ AutoGo("make")
    /\ \E k \in AutoKinds : kind' = [kind EXCEPT !["auto"] = k] /\ Write("auto", k, FALSE)
    /\ crossed' = Meets("auto")
    /\ UNCHANGED <<outside, file, flags, busy, session, certs, order, network, fate>>

AutoMake ==
    /\ AutoAt("make") /\ AutoGo("clear")
    /\ Write("auto", kind["auto"], xml.by = "auto")
    /\ UNCHANGED <<outside, file, flags, busy, session, certs, kind, order, network, history, budget>>

AutoClear ==
    /\ AutoAt("clear") /\ AutoGo("mark") /\ flags' = {}
    /\ UNCHANGED <<outside, file, busy, session, certs, text, kind, order, network, history, budget>>

AutoMark ==
    /\ AutoAt("mark") /\ AutoGo("ask")
    /\ file' = file \cup Marks(kind["auto"])
    /\ UNCHANGED <<outside, flags, busy, session, certs, text, kind, order, network, history, budget>>

AutoAsk ==
    /\ AutoAt("ask") /\ AutoGo("get") /\ flags' = flags \cup {"READY"}
    /\ UNCHANGED <<outside, file, busy, session, certs, text, kind, order, network, history, budget>>

AutoGet ==
    /\ AutoAt("get")
    /\ LET there == flags \cap Answers
       IN  /\ flags' = flags \ there
           /\ AutoGo(IF there = {} THEN "wait" ELSE Taken(there))
    /\ UNCHANGED <<outside, file, busy, session, certs, text, kind, order, network, history, budget>>

AutoEnd ==
    /\ AutoAt("sent") \/ AutoAt("failed")
    /\ AutoGo("idle") /\ kind' = [kind EXCEPT !["auto"] = "W"] /\ fate' = "none"
    /\ UNCHANGED <<outside, file, flags, busy, session, certs, text, order, network, crossed, budget>>

auto_thread_entry == AutoMake \/ AutoClear \/ AutoMark \/ AutoAsk \/ AutoGet \/ AutoEnd

\* ETWAR, the test of the alarm report: the command thread runs before the
\* HTTP thread until it waits.  The buffer is emptied in any case.
Test(refused) ==
    IF NetworkMutex
    THEN /\ Write("cmd", "W", FALSE) /\ spc' = [spc EXCEPT !["cmd"] = refused]
         /\ crossed' = (crossed \/ Meets("cmd"))
         /\ UNCHANGED <<file, flags>>
    ELSE /\ Write("cmd", "W", TRUE) /\ spc' = [spc EXCEPT !["cmd"] = "wait"]
         /\ crossed' = Meets("cmd")
         /\ file' = file \cup {"W"} /\ flags' = {"READY"}

\* The test is asked for over TCP, USB or BLE.
CmdTest ==
    /\ spc["cmd"] = "idle" /\ budget > 0 /\ budget' = budget - 1
    /\ Test("idle")
    /\ UNCHANGED <<outside, busy, session, certs, kind, order, network, fate>>

CmdTestForServer ==
    /\ spc["cmd"] = "run" /\ order = "test"
    /\ Test("failed")
    /\ UNCHANGED <<outside, busy, session, certs, kind, order, network, fate, budget>>

\* The end of a command; the answer to one of the server is to be sent.
CmdEnd ==
    /\ spc["cmd"] \in {"sent", "failed"} \/ (spc["cmd"] = "run" /\ order = "put")
    /\ spc' = [spc EXCEPT !["cmd"] = "idle"] /\ order' = "none"
    /\ IF order = "none" THEN UNCHANGED <<file, flags>>
       ELSE file' = file \cup {"A"} /\ flags' = flags \cup {"READY"}
    /\ UNCHANGED <<outside, busy, session, certs, text, kind, network, history, budget>>

cmd_thread_entry == CmdTestForServer \/ CmdEnd

-----------------------------------------------------------------------------
(* The network thread: network_thread_entry.                               *)

LinkDown == net = "up" /\ link /\ link' = FALSE /\ net' = "look"

\* It goes on when the HTTP thread sleeps or waits for work; a look at the
\* state of the thread and its suspension are two calls.
LookAtHttp ==
    /\ net = "look"
    /\ \/ asleep /\ net' = "decide"
       \/ ~asleep /\ pc = "wait" /\ "READY" \notin flags /\ net' = "suspend"
    /\ UNCHANGED link

NetStep ==
    /\ LinkDown \/ LookAtHttp
    /\ UNCHANGED <<outside, file, flags, busy, session, certs, text, senders, netReboot, wifiDown, history, budget>>

SuspendHttp ==
    /\ net = "suspend" /\ net' = "decide" /\ asleep' = TRUE
    /\ UNCHANGED <<outside, file, flags, busy, pc, pos, ok, errors, certs, text, senders, link, netReboot, wifiDown,
                   history, budget>>

\* After 90 looks, one in a second, the unit is rebooted.
GiveUpHttp == net = "look" /\ ~asleep /\ pc # "wait" /\ Reboot

\* A link that went down is answered with a reboot.
RebootForLink == net = "decide" /\ ~netReboot /\ Reboot

StopNetwork ==
    /\ net = "decide" /\ netReboot /\ net' = "down" /\ link' = FALSE
    /\ UNCHANGED <<outside, file, flags, busy, session, certs, text, senders, netReboot, wifiDown, history, budget>>

\* Fault: the reason of the last restart stays.
StartKeepsReason ==
    /\ net = "down" /\ net' = "release" /\ asleep' = FALSE
    /\ UNCHANGED <<outside, file, flags, busy, pc, pos, ok, errors, certs, text, senders, link, netReboot, wifiDown,
                   history, budget>>

\* At its Exit wifi_thread, which the start waits for, forgets the restart.
ForgetReboot == netReboot' = FALSE

StartNetwork ==
    /\ net = "down" /\ net' = "release" /\ ForgetReboot /\ asleep' = FALSE
    /\ UNCHANGED <<outside, file, flags, busy, pc, pos, ok, errors, certs, text, senders, link, wifiDown, history, budget>>

ReleaseMutex ==
    /\ net = "release" /\ net' = "up"
    /\ UNCHANGED <<outside, file, flags, busy, session, certs, text, senders, link, netReboot, wifiDown, history, budget>>

network_thread_entry ==
    NetStep \/ SuspendHttp \/ GiveUpHttp \/ RebootForLink \/ StopNetwork \/ StartNetwork \/ ReleaseMutex

-----------------------------------------------------------------------------
(* Events from outside.                                                    *)

\* The timer for the requests to the server, which may find logs to send.
RequestTimer ==
    /\ \E log \in {{}, {"L"}} : file' = file \cup log \cup (IF busy THEN {} ELSE {"R"})
    /\ flags' = IF busy THEN flags ELSE flags \cup {"READY"}
    /\ UNCHANGED <<usb, shown, link, wifiDown, gaveUp>>

\* Registrations are changed, and to be sent with the next work.
RegistChanged == file' = file \cup {"C"} /\ UNCHANGED <<flags, usb, shown, link, wifiDown, gaveUp>>

UsbChanged == usb' = ~usb /\ UNCHANGED <<file, flags, shown, link, wifiDown, gaveUp>>

LinkLost == /\ \/ link' = TRUE /\ UNCHANGED wifiDown
               \/ wifiDown' = TRUE /\ UNCHANGED link
            /\ UNCHANGED <<file, flags, usb, shown, gaveUp>>

ServerChanged == /\ Tls /\ shown' \in 0 .. CertMax /\ shown' # shown /\ gaveUp' = 0
                 /\ UNCHANGED <<file, flags, usb, link, wifiDown>>

Event ==
    /\ budget > 0 /\ budget' = budget - 1
    /\ RequestTimer \/ RegistChanged \/ UsbChanged \/ LinkLost \/ ServerChanged
    /\ UNCHANGED <<mode, busy, session, cert, text, senders, net, netReboot, history>>

-----------------------------------------------------------------------------
Next ==
    \/ http_thread_entry \/ AutoCreate \/ auto_thread_entry
    \/ CmdTest \/ cmd_thread_entry \/ network_thread_entry \/ Event

Spec == Init /\ [][Next]_vars

\* Every thread goes on, every wait for the network has an end.
FairSpec ==
    /\ Spec /\ WF_vars(http_thread_entry) /\ WF_vars(auto_thread_entry)
    /\ WF_vars(cmd_thread_entry) /\ WF_vars(network_thread_entry)

-----------------------------------------------------------------------------
\* A report that is to be sent is not left lying (http_thread_entry.c 96): when
\* the HTTP thread waits without being told, no report is marked but the one
\* whose sender is about to tell it.
NoReportForgotten ==
    At("wait") /\ "READY" \notin flags /\ file \cap Reports # {} => spc["auto"] \in {"mark", "ask"}

\* The network is rebuilt only while the HTTP thread sleeps between two
\* sessions (network_thread_entry.c 230-262), never under an open one.
RestartFindsHttpIdle == net = "down" => asleep /\ pc \in {"wait", "wifi"}

\* The certificates are searched from where the last one fitted, so that one
\* search may miss the right one; the next does not (http_thread_entry.c
\* 245-261).
TwoSearchesFind == gaveUp = 2 => shown = CertMax

\* The auto thread takes a SUCCESS for its report as sent
\* (auto_thread_entry.c 3618).  It has been, or is still to be, but when USB
\* took it away, when two reports met, or when the DataServer refused it and
\* took another file after.
SuccessIsSent ==
    [][(spc["auto"] # "sent" /\ spc'["auto"] = "sent") =>
        \/ fate' \in {"sent", "dropped"}
        \/ crossed'
        \/ fate' = "none" /\ kind'["auto"] \in file'
        \/ fate' = "lost" /\ pc' = "report" /\ ~ok'
        \/ fate' = "lost" /\ mode = 0]_vars

\* What the server takes as a report is one, of its kind, and complete, but
\* when two reports met in the one buffer (tls_client.c 1110, 1190).
ReportIsWhole ==
    [][(pc = "post" /\ pc' # "post" /\ ok' /\ Order[pos] \in Reports) =>
        crossed \/ (doc.whole /\ doc.kind = Order[pos])]_vars

\* The HTTP thread waits for the command thread, and it for the HTTP thread.
Embrace == pc = "hand" /\ spc["cmd"] = "wait"

\* The settings go before all other files but wait for the end of a command,
\* whose answer is behind them (DataServer), or which waits for an answer itself.
Behind == busy /\ "C" \in file /\ (mode = 0 \/ (spc["cmd"] = "wait" /\ order = "test"))

\* Two senders have set READY as one, and the answer was given before the auto
\* thread had come to wait.
Overtaken == crossed /\ spc["auto"] = "wait" /\ pc = "wait" /\ "READY" \notin flags

\* A sender that waits for the HTTP thread gets an answer (Warning.c 213), but
\* in the two named deadlocks, or when an answer meant for both was overtaken.
Answered ==
    \A s \in Sender : spc[s] = "wait" ~> (spc[s] # "wait" \/ Embrace \/ Behind \/ Overtaken)

\* A command ends, ETWAR too, which "always" returns NOERROR
\* (cmd_thread_entry.c 7644).
CommandEnds == spc["cmd"] = "wait" ~> spc["cmd"] # "wait"
=============================================================================
