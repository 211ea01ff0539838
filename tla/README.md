# RTR500BW base unit: TLA+ models, model checking and proofs

The repository holds the software of the T&D RTR500BW, the base unit that collects
measurements from wireless data loggers. It is there twice:

* `rtr500bw/src`: the original firmware, about twenty ThreadX threads on a Renesas
  Synergy microcontroller with serial flash;
* `comp/`, `my_src/`, `common/`, `rtr500_v1/`: the port to Linux that is being made of it,
  with pthreads for threads, files for flash areas and `comp/tdx.c` for ThreadX queues and
  event flags.

The other directories (`signals`, `tcp_server`, `filetest`, `ftdi_1`, `test1`,
`ble-peripheral`, `ws_push`, `http_client-c`) are trials of library calls.

This directory models the parts in which threads, restarts and power failures meet shared
state, checks small instances with TLC, and proves the main results with TLAPS for every
value of the constants. Paths below are relative to `src/`.

## 1. Inventory

| component | state | operations | what is hard | what makes it correct |
|---|---|---|---|---|
| message queue, `comp/tdx.c` 119-247 | ring, two condition variables | create, send, receive; without waiting, timed, for ever | lost wake-ups, stolen slots, deadlines | bounded FIFO; no lost wake-up; timed calls return |
| event flags, `comp/tdx.c` 40-115 | one word of bits, one condition variable | set, get | a set replaces pending bits; one signal wakes anybody | (modelled with its one use, below) |
| command interface, `comp/comp_cmd.c` 593-700, `comp/comp_tcp_thread.c` 200-290 | event flags, `cmd_queue`, static buffers | `DoCmd` of each client thread, `cmd_thread` | many clients, one of every buffer | each request executed once and answered with its own response |
| T2 parser and commands, `comp/comp_cmd.c` 422-593, `comp/comp_cmd_sub.c`, `rtr500bw/src/cmd_thread_entry.c` | `my_config`, status text | about 100 commands | parameters that are half accepted | a refused command changes nothing |
| TCP and UDP servers, `comp/comp_tcp_thread.c`, `comp/comp_udp_thread.c` | sockets, `tcp_rxb` | accept, log in, read frames | closed connections, split frames | every complete frame is answered |
| user and debug log, `comp/comp_log.c` | ring of sectors in RAM and in a file, `LogInfo`, `LogGet` | `PutLog`, `ResetLog`, `ELOGS` dump, scan at start | sectors erased ahead, restarts, several writers | no line overwritten, only the oldest lost, dump in order |
| settings, `rtr500bw/src/my_src/Base.c`; port: `comp/base.c`, `comp/files.c` | `my_config`, two copies with CRC | read and repair, rewrite, defaults | power failure in an erase or a write, a mutex that is not obtained | saves atomic and durable; refused changes forgotten |
| registrations and certificates (same flash) | two areas each | `RegistTableWrite` and others | as for the settings | as for the settings |
| event thread and minute timer, `rtr500bw/src/event_thread_entry.c`, `my_src/system_time.c` | `EVT`, `Suc`, `retryTM`, `WaitRequest` | tick per minute, pause, resume | a pause that ends while the thread is going to sleep; clock corrections | every scheduled event once; a pause ends |
| auto thread, `rtr500bw/src/auto_thread_entry.c` | requested events, retry counters | alarm check, current readings, download | radio mutex busy, network down | a requested event is made or retried |
| alarm judgement, `my_src/Warning.c` | flags now and before, per logger | judge, after the report | a failed report must be repeated | no alarm is lost or reported twice |
| radio thread, `rf_thread_entry.c`, `Rfunc.c` | radio buffers | poll, download, retry | timeouts | bounded retries |
| HTTP thread, `http_thread_entry.c`, `tls_client.c` | send flags, `cert_index`, event flags | post files, commands of the server, answer the senders | several senders on one buffer and one group of flags, errors in the middle, certificate change, a restart of the network | what is flagged is sent or reported; SUCCESS means sent; every sender is answered |
| network thread, `network_thread_entry.c` | link events, `NetReboot` | bring the network up and down around the other threads | suspends and resumes threads it looked at before | the HTTP thread is stopped only between two sessions |
| WiFi, USB, BLE, optical, LED, mail, FTP, SNTP | hardware and NetX state | - | outside the repository | - |

How they interact. A client (TCP, USB, BLE, optical, or a request fetched by HTTP) sends a
T2 frame. Its thread puts the frame into a shared buffer, posts a message to `cmd_queue`,
sets a bit and waits for another; `cmd_thread` executes and answers. Commands change
`my_config`, save it through `Base.c`, log through `PutLog`, and may pause the event thread
with `WaitRequest`. Once a minute the RTC interrupt wakes the event thread, which requests
measurements from the auto thread through event flags; that one uses the radio under
`g_rf_mutex` and hands reports to the HTTP thread. All users of serial flash share
`mutex_sfmem`.

In the port `tx_mutex_get` and `tx_mutex_put` (`comp/tdx.c` 37-44) return 0 and lock
nothing. Code that reads as a critical section is none there, and the models of the port
take each access as a step of its own.

`PROJECT.json` lists every component with its files and its state of modelling, and the
hazards, each at the line where it bites.

## 2. Modules

| module | models |
|---|---|
| `BoundedFifo` | what a queue promises (abstract) |
| `TdxQueue`, `TdxQueueProofs` | `tdx_queue_create/send/receive` of the port |
| `CommandService` | what the command interface promises a client (abstract) |
| `CmdServer`, `CmdManyProofs`, `CmdServerProofs` | client threads, event flags, queue, shared buffers, `cmd_thread` of the port |
| `AppendLog` | what the log promises its readers (abstract) |
| `LogRing`, `LogRingProofs` | the user log of the port, its file, scan, dump and restarts |
| `SettingsRegister` | what saving settings promises (abstract) |
| `SettingsStore`, `SettingsProofs` | `my_config` and its two copies in flash (firmware) |
| `EventThread`, `EventThreadProofs` | pause and resumption of autonomous operation (firmware) |
| `SuctionSchedule`, `SuctionScheduleProofs` | which minute starts a download, and its retry (firmware) |
| `HttpSend`, `HttpSendProofs` | HTTP thread, senders of reports, commands of the server, restart of the network (firmware) |
| `MC...` | instances for TLC |

Definitions carry the names of the code where they can. A definition whose comment begins
with *Fault* belongs to no specification: it is a plausible mistake, kept before the
definition it would replace, and shows that a property notices it. `PROJECT.json` pairs each
property with one.

### TdxQueue

Threads run `tdx_queue_send` and `tdx_queue_receive` on a ring of `Size` slots. A step is
what one thread does between taking the mutex and giving it back, by unlocking or by waiting.
`notFull` and `notEmpty` are the waiters of the two condition variables; a signal removes an
arbitrary one. A call that found its slot at once is `SendNow` or `ReceiveNow`, one with
timeout 0 that did not is `SendRefused`, one that waits is `SendBlock`, and what follows its
waking is `SendResume` or `SendTimeout`. The deadline is absolute (computed once, tdx.c 181 and 217),
so it is a set of calls, `expired`, to which time adds. POSIX lets a wait end unasked:
`SpuriousWakeup`.

### CmdServer

A step is one access to shared state. `at[c]` follows a client's thread: `Read` (the frame
into `tcp_rxb`), `CopyHeader`, `CopyData` (into `SCOM.rxbuf`), then `DoCmd`: `Stage`, `Send`,
`SetExec`, `GetEnd`, and `Write` of `SCOM.txbuf`. `cmdAt` follows `cmd_thread`: `CmdGetExec`,
`CmdReceive`, `CmdAnalyze`, `CmdSize`, `CmdCopy`, `CmdSetEnd`. `tdx_flags_set` replaces the word
(tdx.c 77 assigns, although its comment says OR) and signals one waiter of any bit;
`tdx_flags_get` waits once, without a loop, and its result is ignored by both callers. A
pointer into a client's stack (`pStatusSize`) is that client; a request and its response are
one value, so that the wrong response is a different value; a frame put together from two is
`Torn`. The history variable `early` says that a wait returned without its bit and that the
thread went on all the same: a client always does, `cmd_thread` once `actual_events` has kept
its bit. POSIX allows it (tdx.c 101 is not in a loop), and a second client makes it happen
without POSIX's help, because one signal wakes anybody. What is said of one client holds until
then. `NoSleeperMissesBit` says when the lone signal of `tdx_flags_set` is enough: while a bit
is set beside a thread that sleeps for it, another one has been woken and has yet to look.
What a command does is in `CmdAnalyze` as one response; its effect on the settings is
`SettingsStore`'s subject. Login and framing are left to a module of their own.

### LogRing

`logData` is the image in RAM, `logFile` the file. `PutLog` is `FillLine`, `EraseAhead`
(with its `StoreErase`), `CopyLine`, `StoreLine`, `Advance`: the next sector is erased before
the last line of a sector is written. `GetLogInfo` finds the ring again by scanning, and is an
operator that returns every result the code can have; where the code reads a buffer that a
failed read left unchanged, and where a first number of 0 is taken for "not found", the result
is what that gives. `Clear...` and `Dump...` are the two modes of ELOGS; a dump may be
continued by later commands and end after any line. `Restart` may come at every step. Numbers
wrap at `Numbers` in `LOG_Write` and not in `GetLogInfo`, in 16 bits, as in the code.

Abstractions: a line is its number and the order in which it was begun; a scan and a store
are one step each (`fopen("wb")` truncates first, see the hazards); the start loads and scans
as `rtr500_v1/src/main.c` 57-60 does, code that `main` currently returns before; `GetLog_http`
and `GetLogCnt_http`, which nothing calls in the port, are left out, and so is the debug log,
whose sector erase clears the user log's image (comp_log.c 195).

### SettingsStore

`ram` is `my_config`, `copy` the two areas: settings, `Blank` (all 0xFF) or `Torn` (fails its
CRC). `rewrite_settings` is `RewriteStart`, then for the main area and after it for the backup
`EraseBegin`, `EraseEnd`, `ProgramBegin` and its end; `serial_flash_copy` the same for one
area. `read_repair_settings` reads main, then backup into `my_config`, and keeps, repairs or
sets defaults. A wait for `mutex_sfmem` lasts 100 ms and its holders need longer:
`RewriteBusy` and `ReadBusy` then go on without having done anything. `Stop` is a power
failure at any step, followed by a start in which system_thread is alone until it has read
the settings. A command changes `my_config` first, then saves it, or reads the copies when a
parameter was refused or nothing changed (`SetCommand`); INIT sets the values of
`init_factory_default` and saves them (`FactoryCommand`), or does nothing when the mutex stays
busy. Between its read and the first command the start replaces an MTU or an Interval out of
range in `my_config` alone (`CorrectStart`; system_thread_entry.c 296-303), and
`alter_settings_default` leaves 0xFF in both (Base.c 408): after the first start of a unit
`my_config` is not what the flash holds but its correction, until a command changes something,
and a command that is refused brings the value out of range back. `RamIsSaved` therefore
allows both and nothing else.

The history variable `missed` says that a wait timed out since `my_config` was last read or
written; a change accepted then is answered and may be forgotten, which the code accepts.
`UpdateSpec` adds the one thing that breaks the discipline: after a firmware update
system_thread writes version texts into `my_config` while commands run.

Abstractions: flash commands do not fail, the CRC is computed with the read it belongs to,
`RegCnt` (counted in RAM only) is no setting, what follows two `Torn` copies with valid CRC by
chance is left out, and so are certificates, registrations and `write_system_settings`.

### EventThread

A step is one access to shared state; the one-second interrupt `time_update_callback` is not
interrupted and is one step (`Second`, `LastSecond` of the minute that synchronises the timer,
`Minute`). `event` is the event thread's place: from `EventStart` through the wait for USB to
be unplugged, `EVT_Create` with its check of the settings, `Arm`, to the loop, in which a look
is `TakeFlags`, `LookForPause`, `LookForReboot`, `LookForError`, `LookForStart`, `ClearStart`,
`SetStart`, `Schedule`, and which it leaves through `Suspend`. A pause is asked for by three
assignments, of the command thread (`CFWait`, `CmdSetFlag`, `CmdSetTime`) or the HTTP thread
(`Http...`); `CountDown` takes the length over, counts, and at its end cancels `WaitRequest`,
requests an AT start that was put off, and resumes the thread (`Wake`, which has no effect on
one that is not suspended *yet*). `wmd` is `g_wmd_event_flags`; `AutoTake`, `AutoFirst`,
`AutoSecond` are the auto thread's two attempts at what it took. `Net...` is the network
thread coming up (clear both groups of flags, resume, state OK), `Port...` the USB port,
`SystemReset` what `FLG_REBOOT_EXEC` leads to.

The history variable `slips` names the windows in which the code loses something: `sleep`
(resumed just before suspending itself, or fell asleep over a state about to become OK),
`start`, `network`, `busy` (an AT start lost by the command, the network thread, the auto
thread). The properties hold outside them, so each window that is named is needed and no other
exists. `want` says that an AT start is due.

Abstractions: what a minute requests is one bit, `MEASURE` (`SuctionSchedule` has it in
detail); commands that contend for other fields are left out; a second may come between any
two steps, so that a minute is any number of them, except that the network thread's few
instructions between `NetResume` and `NetOk` are over within a second (`LastSecond`).

### SuctionSchedule

`now` is the local clock in minutes. `Look` is one pass of the event thread over the events of
the settings (`LookScheduled`, `LookRetry`, `LookNothing`, and `LookIgnored` while `Suc`
counts), `Post` hands the flag over, `Pause`, `Paused`, `Resume` leave out looks and may change
the table. `EVT_Create` and `EVENT_SetSuc` translate the settings into cycles, `Past` is how
far the clock is behind an event's time *within the cycle's hour or day*, as the code computes
it, `Recognised` the window of three minutes. `suc` is the `uint8_t` that blocks for four looks, `retryTM`
the count to a retry, `downloadReTry` the global that the event thread clears (new schedule)
and the auto thread sets (`AutoEnd`), which reads it only when it begins (`AutoBegin`). A
`Look` includes the minute before it, with a correction of the clock by one of `Shifts`.

History: `asked` are the scheduled times recognised, `lastLook` and `from` since when the thread
has looked without a gap, `request` and `running` what the flag and the download stand for,
`mixed` that the schedule came while a download was not over.

`downloaded` means asked for here: a download that the auto thread drops because the radio is
busy or the network is being set up (`AutoDrop`) is asked for and not made. `FullDownload`
excepts one asked for while another runs: that one may set `Download_ReTry` after the event
thread has cleared it, and the full download then is a retry.

Abstractions: current readings and alarms, which run before a download, take no steps of their
own; the seconds of a minute are left out; the RTC is right (with a time before `RUN_BASE_SEC`
the event thread looks at no event, event_thread_entry.c 313 and 350); results of a download are the four classes that
AUTO_control tells apart.

### HttpSend

`file` is the set of the `G_HttpFile[]` whose `sndflg` is set, in the order `Order` in which a
session looks at them (settings, alarms, records, current readings, request for a command,
answer to one, state, log); `flags` is `event_flags_http`: READY and the answers. `pc` is the
place of the HTTP thread: `wait` for READY, `lock` (passing `mutex_network_init`), `check`,
`cancel`, `connect` with the search over certificates, `scan` and `post` of `my_https_POST`,
`hand` (a command for the command thread, for which it waits), `report`, `errors`, `wifi`, and
`check` again. `asleep` is `tx_thread_suspend`. What clears flags does so as the code does:
`Reset` clears all three kinds of reports together, `ClearAll` everything, `DropForUsb` the
reports.

A sender makes its text in the one `xml_buffer` (`xml`: whose, what kind, whole or not), clears
the answers, marks, sets READY, waits. The auto thread has the lowest priority and takes a step
only while the others are blocked (`AutoAt`); the command thread runs until it waits, so that
ETWAR up to its wait is one step (`Test`). `SetFlags` gives an answer to every sender that
waits; without one it stays for the next. `Event` is the outside: the request timer, changed
registrations, USB, a lost link, another certificate. `network_thread_entry` looks at the HTTP
thread and suspends it in two calls, stops the network, starts it and wakes the thread.

History: `fate` is what became of the auto thread's report, `crossed` that two reports were
under way at once, `gaveUp` how many searches in a row found no certificate. `Embrace`,
`Behind` and `Overtaken` name the situations in which a sender is not answered.

Abstractions: TLS, DNS and HTTP are `connect` and `post` with every outcome the code handles; an
answer's content is what it makes the thread do; a command is one that reads, one that is put
or a test. Commands in several parts, the firmware update and the log's sending test are left out.
`CmdMode` is local during every local command (cmd_thread_entry.c 798-804), here only during the
tests of the alarm, the ones that send by HTTP. The branch of http_thread_entry.c 449-457, for a
network that is down, is left out: the HTTP thread is suspended before the network is stopped and
resumed after it has started, as `RestartFindsHttpIdle` says, so it does not reach the branch.

## 3. Runs

| run | instance | distinct states | shows |
|---|---|---|---|
| `queue` | 2 threads, 2 messages, 2 slots, fair | 106 k | types, no lost wake-up, bounded FIFO, every timed call returns |
| `cmd_one` | 1 client, 2 requests, 4 slots, spurious wake-ups, fair | 75 k | until a wait returns early: buffers owned, service implemented, client served |
| `cmd_many` | 2 clients, queue of 1, spurious wake-ups | 2.1 M | an unsent message is never executed; no sleeper is left with its bit but after an early return |
| `cmd_mixup` | 2 clients | - | **violated**: a client is sent the other's response |
| `log_one` | 3 sectors of 2 lines, 9 numbers, 13 lines, 2 restarts | 0.96 M | append log, recent lines kept, the scan finds what the writer knows, numbers continue, dump in order |
| `settings` | 2 fields of 3 values, one of them out of range for the MTU, 3 power failures | 30 k | one copy good, copies repaired, RAM follows flash as read or corrected, register implemented |
| `settings_update` | with the version update | - | **violated**: both copies bad |
| `event` | pauses of 0 and 2 seconds, 2 outside actions, fair | 0.46 M | a pause has an end and is ended, a sleep has a reason, no AT start forgotten, but in the named windows |
| `event_sleep` | as above | - | **violated**: a pause ends and the thread sleeps on |
| `schedule` | 2 tables over midnight, 36 minutes, 2 pauses or corrections by 2 minutes | 3.6 M | each time once, none skipped, one retry and only after a failure, a schedule is a full download |
| `http` | both server modes, 2 certificates, alarms and current readings, 2 outside actions, fair | 0.63 M | no report left lying, SUCCESS means sent, reports whole, senders answered, restart between sessions, certificates found |
| `http_deadlock` | WebStorage, 1 certificate, alarms | - | **violated**: ETWAR and the HTTP thread wait for each other |

Bounds. Two threads are enough for the queue, because one that has just woken a waiter can
take what it woke it for; two slots make the indices wrap and order visible. One client is the intended use of the
port's interface and two are the first case of sharing; a queue of one slot is full as soon as
something is left in it. Three sectors are the least in which the sector written, the one
erased ahead and an old one differ; with two lines each and 13 lines the ring is lapped twice,
and with nine numbers these wrap too, inside the ring and not at its end (6 and 9 differ).
Two restarts are a restart during the recovery from one; in the settings, three failures are
one in a save, one in its repair and one in the repair of that. Two fields, of which one starts
out of range, and two values in range let a half-forgotten change and a correction be seen.

In `event`, a pause of 0 seconds ends with the next interrupt and one of 2 can be overtaken by
another request; two outside actions are one requester beside another, or a request during a
restart of the network or a change of the USB cable. In `schedule`, 36 minutes hold a
scheduled time, the retry 30 minutes later and the windows around both; the tables
place times at 23:56, 23:59 (switched off by the first), 0:20, and every 29 minutes, so that windows cross
midnight, the hour and the change of the weekday; the clock is corrected by as much as its window
allows, and no sooner than `Apart` minutes after the last correction. In `http` two
certificates are a right and a wrong one, a third value of `shown` is a server with none of
them; two outside actions (a report the auto thread begins or a test of the alarm counts as
one) are two senders at once, or a sender and an answer, a command, USB, a lost link. The
inductive invariant of `HttpSendProofs` was also checked with three actions (6.9 M states).

`MaxPuts`, `MaxCrashes`, `MaxStops`, `Span` and `Budget` bound what is not bounded in the code,
and only in guards of those steps. `CHECK_DEADLOCK` is off where a run stops at such a bound
(`log_one`, `schedule`, and `http`, where after the last outside action every thread may wait for
the next request timer), or where clients that were woken wrongly can all be waiting (`cmd_...`
with two clients).

Fairness. `queue`: pthreads schedules every thread that can run, and time passes, so
`Proceed` and `Expire` of each thread are weakly fair; new calls, signals and spurious
wake-ups are not. `cmd_one`: `cmd_thread` and each client thread inside `DoCmd` run when they
can; the peer need never send. `event`: the clock ticks and each ThreadX thread that can run
does, since none of them loops without waiting; nothing is assumed of commands, USB or links.
`http`: the same of the four threads, and a network operation has an outcome, since each NetX
call in `tls_client.c` has a time limit. No fairness is assumed in the settings, since nothing
guarantees that a holder of `mutex_sfmem` gives it back (`tls_client.c` 4793 does not).

## 4. Findings

1. `comp_tcp_thread.c` 217: every client's thread reads into the one static `tcp_rxb` and copies
   it to the one `SCOM` later (236-268); a second client's frame that comes in between replaces
   the first, and the first client is written the response to the other's request (`cmd_mixup`).
2. `system_thread_entry.c` 355: the version update writes `my_config` without the mutex; in
   the middle of a rewrite, both copies fail their CRC (`settings_update`).
3. `event_thread_entry.c` 432: when the interrupt ends a pause after the event thread looked at
   `WaitRequest` and before it suspended itself, nothing resumes it: autonomous operation stays
   stopped until a later pause ends or the network restarts (`event_sleep`).
4. `tls_client.c` 4456: the HTTP thread waits for the command thread to suspend itself while
   that one waits, without limit, for the HTTP thread's answer to its test (`http_deadlock`).

What the properties name as an exception is an observation too: an AT start is lost in the
three windows of `LostStart`; for the DataServer a report that was refused is answered SUCCESS
when another file is taken after it in the same round (the disjunct with `mode = 0` of
`SuccessIsSent`); the settings wait for the end of a command whose answer is
behind them in the order (`Behind`); two senders can overtake each other's answer
(`Overtaken`). In the port's log: the section marked exclusive at `comp_log.c` 637 is not,
since its mutex is empty, so that `LogRing` holds for one logging thread only; after a stop
between erasing sector 0 and writing the last line of the ring, the next number is 0 (1120),
which `NumbersContinue` excepts; and the debug log's erase clears the user log's image (195).

## 5. Proofs

Each `...Proofs` module proves an inductive invariant `IInv` (initially true, kept by each
step, one lemma or step per action), and the theorems from it.

| module | theorem | assumes |
|---|---|---|
| `TdxQueueProofs` | `QueueTypeCorrect`, `NoWakeupIsLost`, `QueueImplementsFifo` | `Size` positive, finitely many threads |
| `CmdManyProofs` | `ServerTypeCorrect`, `CommandsWereSent`, `BitsAreSeen`, `QueueIsFifo` | none of clients, queue and wake-ups; the constants that stand for no client are none |
| `CmdServerProofs` | `OneClientBuffersOwned`, `OneClientService` | one client (what they state holds until a wait returns early, which the statements say) |
| `LogRingProofs` | `LogTypeCorrect`, `LogImplementsAppendLog`, `LogKeepsRecent`, `LogScanIsExact`, `LogNumbersContinue`, `DumpsInOrder` | one logging thread, 3 sectors of 2 lines or more, fewer than 65535 numbers |
| `SettingsProofs` | `SettingsTypeCorrect`, `OneCopyIsGood`, `CopiesAreRepaired`, `RamFollowsFlash`, `SettingsImplementRegister` | both defaults are settings, the usual values are values; the marks are no settings; system_thread changes no version (`settings_update`) |
| `EventThreadProofs` | `EventTypeCorrect`, `EveryPauseHasEnd`, `EverySleepHasReason`, `EveryStartIsKept` | lengths of pauses are numbers |
| `SuctionScheduleProofs` | `ScheduleTypeCorrect`, `NoTimeTwice`, `OneRetry`, `ScheduleIsFull`, `RetryHasReason`, `NoTimeSkipped` | corrections put the clock back by 2 minutes at most and are 5 minutes apart; any tables |
| `HttpSendProofs` | `TypeCorrect`, `NoReportIsForgotten`, `RestartIsSafe`, `SecondSearchFinds`, `TakenReportIsWhole`, `SuccessStandsForReport` | at least one certificate |

* **Queue.** `IInv` adds to the types that `count` is the distance from head to tail and that
  only threads inside a call wait. No lost wake-up is inductive on top of it: what wakes a
  waiter adds one woken thread, and what takes a slot or a message is itself one that
  was woken or finds nobody waiting longer (`StepCovers`). For the FIFO, a send appends to and a
  receive removes the head of the sequence that the ring reads from `head`
  (`StoreAppends`, `FetchTakesHead`); every other step leaves it.
* **Command interface, any number of clients.** Almost nothing holds of shared buffers, but
  `cmd_thread` runs no message that nobody sent. A posted message is in the queue until its
  static `cmd_msg` has it; `Posted` in `MInv` says so of every stage after a post: the client about
  to set EXEC, the bit, and the bit in `actual_events`, which keeps it for good. `QueueIsFifo`
  joins the two modules of the queue: `CmdServer` has it as a sequence, and takes only steps of
  `BoundedFifo`, which `QueueImplementsFifo` shows of the ring in `tdx.c`. `BitsAreSeen` needs
  `SInv`: a set replaces the bits, so that there is one at most, and it wakes somebody; who looks
  and finds no bit for himself either takes nothing and has `early` set by that, or is a
  `cmd_thread` that has run nothing, and then no bit at all is set.
* **Command interface, one client.** The types alone say nothing of who owns a buffer. `IInv` says in which
  of three phases the one client is: preparing (nothing posted, `cmd_thread` parked), requested
  (message or bit on its way, never both consumed), answered. Ownership, room in the
  queue and the refinement are read off the phase. The bit that replaces others is
  harmless exactly because a phase has only one bit pending. A spurious wake-up of a
  `cmd_thread` that has not yet run anything finds `actual_events` empty and waits again, so
  that it ends none of this; any other sets `early`, where the statements end.
* **Log.** `Ring(logFile, End)`: one blank slot, no blank below it, above it nothing or only
  used sectors. `End` moves at two stores, not at `Advance`, and `Image` says how the RAM
  differs from the file at each step. The lemma `ScanFindsEnd` shows that the scan of any such
  file finds `End`, which makes a restart at any step, and a scan at any time, harmless.
  `Ordered` adds that age falls with the slot on either side, so that the erased sector is
  the oldest (`NextSectorIsOldest`) and a dump in slot order is one in age
  order.
  What is kept, and what a scan finds, needs more than the order. `KInv` says that each line in
  the file is at least as old as its slot is behind the next (`Aged`, restarts included), so
  that what is erased is old, and that a line of which `PutLog` has returned is there or that old.
  `Exact`, until the first stop and the first wrap of the numbers, is the file in closed form:
  which slots are filled, and that a line was put as many lines ago as its slot is away.
  `HeldCount` counts it, `ScanIsRight` compares it with what each loop of the scan finds.
* **Settings.** `WriteInv`: while one area is written the other is good and is known (the old
  settings while main is written, the new ones in main while the backup is), or both were
  erased and the defaults are written. With `BootInv` and `CmdInv` (nothing left to repair once
  commands run) it gives each theorem. In the refinement a save takes effect with the *first
  erase of the backup*: until then a start prefers the old backup, afterwards it finds only
  the new main area.
* **Event thread.** `PauseHasEnd` is inductive as it stands. `SleepHasReason` is not: `Asleep`
  says it already of a thread on its way to sleep (`exit`), and more strongly while the network
  thread is between resuming and setting the state, because then only a pause or a reboot is a
  reason that lasts; `NoError` says where the state ERROR can be met, and `FirstHasInitial`
  that the auto thread's first attempt has an AT start to keep.
* **Schedule.** `AskedOnce` needs a relation between a time that is over and what `Suc` still
  ignores: `Spaced` says that every time asked for lies back by as many minutes as there
  were looks since, or two fewer while the last correction is recent, and `IsNew` that one that
  is recognised with `Suc` at 0 is therefore another. `TimerOff`, `Fresh` and `OneDownload` follow
  `Download_ReTry` through its two writers: from the schedule to the start of its download
  nobody sets it, and while the retry's timer runs only one download is there to set it.
  `NoneSkipped` needs `NInv`. A look falls into every whole window, since nothing but the
  budget makes the clock go on by more than a minute between two (`LookMoves`, `Spent`). It
  asks for a time, or finds `Suc` counting, and then one was asked for shortly before
  (`Recent`), or recognises nothing, which no look in a window does (`LookFinds`). `Seen` says so
  of the windows the last look is in, `Covered` of those that are over.
* **HTTP.** `IInv` is the types with `FewErrors` (the counter is 2 only until the thread looks
  at it), `Told` (`NoReportForgotten`, already while the HTTP thread cancels: the report must be
  known to be told before that thread waits), `Restarts` (a restart that the HTTP
  thread asked for finds it asleep where it asked, so that the network thread, which looks and
  suspends in two calls, stops nothing else) and `Searching` (a search after one without success
  starts at or below the certificate shown, so that it cannot pass it). `FlagsAreSet`,
  `StartType` and `FoundIsLater` are the lemmas on the shared operators that the steps cite.
  For `ReportIsWhole` and `SuccessIsSent`, `RInv` follows the one report through buffer, mark,
  round and answer: while no two have met, `xml_buffer` belongs to the report that is marked or about to be
  (`OneText`), and a report that was lost leaves an error that is told or being told (`FateIsKnown`).

Only model-checked: liveness (`CallReturns`, `Served`, `PauseEnds`, `Answered`), since fairness
and `ENABLED` are out of TLAPS's reach. Every safety invariant and every action property of the
passing runs is a theorem. Induction over data
is out of reach too, hence also what a recursive operator computes; no module here has one.

## 6. Not modelled

* Alarm judgement (`Warning.c` tables, `Warning_Check`, `Warning_Check_After`): what is in a
  report. `HttpSend` has whether it is sent and what the auto thread is told.
* Radio, WiFi, USB, BLE, TLS, mail and FTP: the control is decided by hardware and
  libraries that are not in the repository.
* Formatting of reports, XML, conversions, tables of logger types.
* Production tests, updates of the WiFi, radio and sensor processors.
* `rtr500bw/src/my_src/Log.c`: the firmware's original of the log, with a real mutex.
* Trials, stubs, generated and vendor code, which are by far the most lines of the repository
  (`Unicode.c` tables, headers, copies of files under other names).

## 7. Plan

Done, the most important first: queue, command interface, log, settings, then the threads of
autonomous operation (`EventThread`, `SuctionSchedule`) and the way of its results to the
server (`HttpSend`), each with runs and theorems.

Left, in this order:

1. `AlarmReport` (auto_thread_entry.c 1078-1316, 1327-1900 and 3593-3640, `Warning.c` 1438-1520,
   rf_thread_entry.c 1725-1800): flags before and now per logger, kept back before a poll and
   restored when the report fails. Property: an alarm that was counted is in the next report
   that is sent, once; a restart between the poll and the answer is expected to break it. It composes with `HttpSend`, whose SUCCESS it trusts.
2. `TcpSession` (comp_tcp_thread.c 82-325): accepting, login, framing, closed connections; a
   closed connection ends its thread (violated). Composition with `CmdServer`.
3. `PortSettings` (comp/base.c 49-234, comp/files.c): the settings protocol on files, against
   `SettingsRegister`; the registration areas of `RfCmd_func.c` 1295-1325 after it.
4. `AnalyzeCmd` (comp_cmd.c 422-593) as functions on sequences, against a reference parse.
5. `LogRing` for several logging threads, which no run has: a clear that crosses a `PutLog`
   leaves a line alone in the middle of the file, and a restart then sets `pWrite` to `NoSlot`,
   so that not even `LogTypeCorrect` holds without the mutex that is none. To state what does.
