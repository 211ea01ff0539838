-------------------------- MODULE SuctionSchedule --------------------------
(***************************************************************************)
(* When recorded data is downloaded from the loggers.  Once a minute the   *)
(* event thread of the firmware compares the clock with up to nine events  *)
(* of the settings; a time is recognised for three minutes, because the    *)
(* clock may be corrected, and then ignored for four.  The auto thread     *)
(* makes the download; one that does not finish is retried half an hour    *)
(* later.  The two threads share the flag of the event group and           *)
(* Download_ReTry.                                                         *)
(***************************************************************************)
EXTENDS Integers, Sequences

CONSTANTS Tables,      \* the event tables that the settings may hold
          Starts,      \* the minutes at which the unit is started
          Span,        \* bound on the clock, in minutes after a start
          Budget,      \* bound on pauses and corrections
          Shifts,      \* by how many minutes the clock is corrected
          Apart        \* the least number of minutes between corrections

ASSUME StartsAssumption == Starts \subseteq Nat /\ Span \in Nat /\ Budget \in Nat
ASSUME ShiftsAssumption == Shifts \subseteq Int /\ \A d \in Shifts : d >= -2
ASSUME ApartAssumption == Apart \in Nat /\ Apart >= 5

Window == 3            \* minutes for which an event is recognised
BlockShort == 1        \* Fault: the window itself is not covered
Block == 4             \* minutes for which it is ignored after that
RetryAfter == 30
Hour == 60
Day == 1440
Width == 256           \* Suc is a uint8_t

VARIABLES
  now,                 \* the local clock, in minutes that are not reset
  since,               \* minutes since the last correction, up to Apart
  end,                 \* bound on now
  ev,                  \* the event thread: "wait", "post", "paused"
  table, enable,       \* EVT.Suc
  suc,                 \* Suc: minutes to ignore
  retryTM,
  flag,                \* Flag has FLG_EVENT_SUCTION
  pending,             \* g_wmd_event_flags has it
  downloadReTry,
  job, kind,           \* the auto thread, and the argument of RF_event_execute
  asked,               \* history: the scheduled times that were recognised
  lastLook, from,      \* history: the clock at the last look; looks since then
  request, running,    \* history: what the flag, and the download, stand for
  failed,              \* history: the last download did not finish
  retries,             \* history: retries since the last scheduled download
  mixed,               \* history: scheduled while a download was not over
  budget               \* history: what is left of Budget

clock == <<now, since, end>>
schedule == <<table, enable, suc, retryTM>>
shared == <<pending, downloadReTry>>
auto == <<job, kind>>
looks == <<asked, lastLook, from>>
story == <<request, running, failed, retries, mixed>>
vars == <<clock, ev, schedule, flag, shared, auto, looks, story, budget>>

TypeOK ==
    /\ now \in Int /\ since \in 0 .. Apart /\ end \in Nat
    /\ ev \in {"wait", "post", "paused"}
    /\ table \in Tables /\ enable \in BOOLEAN
    /\ suc \in 0 .. Width - 1 /\ retryTM \in -1 .. RetryAfter
    /\ flag \in BOOLEAN /\ pending \in BOOLEAN /\ downloadReTry \in 0 .. 1
    /\ job \in {"idle", "before", "run"} /\ kind \in 0 .. 1
    /\ asked \subseteq Int /\ lastLook \in Int /\ from \in Int
    /\ request \in {"none", "retry", "schedule", "overlap"}
    /\ running \in {"none", "retry", "schedule", "overlap"}
    /\ failed \in BOOLEAN /\ retries \in Nat /\ mixed \in BOOLEAN /\ budget \in 0 .. Budget

-----------------------------------------------------------------------------
(* The settings.                                                           *)

Off == [enFlag |-> 0, week |-> 0, dayMin |-> -10000]

\* One event of the settings: at a time of day, every so many hours at a
\* minute, or every so many minutes of an hour, where too short or too long a
\* period switches the event off.
EVENT_SetSuc(e) ==
    CASE e.form = "clock" -> [enFlag |-> 1, week |-> e.week, dayMin |-> e.hour * Hour + e.min]
      [] e.form = "hours" -> [enFlag |-> e.hour * Hour, week |-> e.week, dayMin |-> e.min]
      [] e.form = "minutes" /\ e.min \in 10 .. 30 ->
            [enFlag |-> Hour, week |-> e.week, dayMin |-> -e.min]
      [] OTHER -> Off

\* Event 0, when it is on, switches the others off.
EVT_Create(events) ==
    LET set == [i \in DOMAIN events |-> EVENT_SetSuc(events[i])]
    IN  [i \in DOMAIN events |-> IF i > 1 /\ set[1].enFlag # 0 THEN Off ELSE set[i]]

\* Minutes from the event's time to t, as far as the event's own cycle goes.
Past(e, t) ==
    LET min == IF e.enFlag > 1 THEN ((t % Day) % e.enFlag) ELSE t % Day
    IN  IF e.dayMin < 0 THEN min % (-e.dayMin) ELSE min - e.dayMin

Week(t) == ((t \div Day) % 7) + 1

Matches(e, t) == e.enFlag # 0 /\ e.week \in {0, Week(t)}

\* Fault: the minute of the event itself is the only one that counts.
RecognisedExact(t) == {i \in DOMAIN table : Matches(table[i], t) /\ Past(table[i], t) = 0}

Recognised(t) == {i \in DOMAIN table : Matches(table[i], t) /\ Past(table[i], t) \in 0 .. Window - 1}

RetryTime(e) == IF e.dayMin < 0 /\ -e.dayMin < Hour THEN -1 ELSE RetryAfter

Init ==
    /\ now \in Starts /\ since = Apart /\ end = now + Span
    /\ ev = "wait"
    /\ table \in Tables /\ enable \in BOOLEAN
    /\ suc = 0 /\ retryTM = -1 /\ flag = FALSE /\ pending = FALSE
    /\ downloadReTry = 0 /\ job = "idle" /\ kind = 0
    /\ asked = {} /\ lastLook = now /\ from = now
    /\ request = "none" /\ running = "none" /\ failed = FALSE
    /\ retries = 0 /\ mixed = FALSE /\ budget = Budget

-----------------------------------------------------------------------------
(* The event thread.                                                       *)

Spend == budget > 0 /\ budget' = budget - 1

\* The clock goes on by a minute, or was corrected in it.
Advance ==
    /\ now < end
    /\ UNCHANGED end
    /\ \/ /\ now' = now + 1 /\ since' = IF since < Apart THEN since + 1 ELSE since
          /\ UNCHANGED budget
       \/ /\ since = Apart /\ since' = 0 /\ Spend
          /\ \E d \in Shifts : now' = now + 1 + d

\* The history begins anew with a look that comes later than a window lasts,
\* that sees nothing enabled or Suc wrapped, or that still ignores all after
\* one of these: Suc counts looks and not minutes.
Looked ==
    /\ lastLook' = now'
    /\ from' = IF (now' - lastLook > Window \/ ~enable \/ suc > Block
                     \/ (suc > 0 /\ from = lastLook))
               THEN now' ELSE from

\* Fault: whether a download failed is not looked at.
RetryAlways == retryTM \in {0, 1}

\* The timer of the retry has run out, and a download did not finish.
Retry == retryTM \in {0, 1} /\ downloadReTry > 0

Count(n) == IF n > 0 THEN n - 1 ELSE n
IgnoreSigned(n) == n - 1    \* Fault: as if Suc were an int
Ignore(n) == (n - 1) % Width

\* Fault: a new schedule keeps the retry that the last download left.
LookKeepsRetry ==
    /\ enable /\ suc = 0 /\ Recognised(now') # {}
    /\ \E i \in Recognised(now') :
        /\ \A j \in Recognised(now') : i <= j
        /\ asked' = asked \cup {now' - Past(table[i], now')}
        /\ retryTM' = RetryTime(table[i])
    /\ suc' = Block /\ UNCHANGED downloadReTry
    /\ flag' = TRUE /\ ev' = "post"
    /\ request' = IF job # "idle" THEN "overlap" ELSE "schedule"
    /\ mixed' = (job # "idle" \/ pending)
    /\ retries' = 0 /\ failed' = FALSE

\* The first event of the table that is due; a retry is then part of it.
LookScheduled ==
    /\ enable /\ suc = 0
    /\ \E i \in Recognised(now') :
        /\ \A j \in Recognised(now') : i <= j
        /\ \E p \in 0 .. Window - 1 : p = Past(table[i], now') /\ asked' = asked \cup {now' - p}
        /\ retryTM' = RetryTime(table[i])
    /\ suc' = Block /\ downloadReTry' = 0
    /\ flag' = TRUE /\ ev' = "post"
    /\ request' = IF job # "idle" THEN "overlap" ELSE "schedule"
    /\ mixed' = (job # "idle" \/ pending)
    /\ retries' = 0 /\ failed' = FALSE

\* Fault: the timer is left at 0, and the retry repeated.
LookRetryAgain ==
    /\ enable /\ suc = 0 /\ Recognised(now') = {} /\ Retry
    /\ retryTM' = Count(retryTM)
    /\ flag' = TRUE /\ ev' = "post"
    /\ request' = "retry" /\ retries' = retries + 1
    /\ UNCHANGED <<suc, downloadReTry, asked, mixed, failed>>

LookRetry ==
    /\ enable /\ suc = 0 /\ Recognised(now') = {} /\ Retry
    /\ retryTM' = -1
    /\ flag' = TRUE /\ ev' = "post"
    /\ request' = "retry" /\ retries' = retries + 1
    /\ UNCHANGED <<suc, downloadReTry, asked, mixed, failed>>

LookNothing ==
    /\ enable /\ suc = 0 /\ Recognised(now') = {} /\ ~Retry
    /\ retryTM' = Count(retryTM)
    /\ UNCHANGED <<suc, downloadReTry, flag, ev, asked, request, mixed, retries, failed>>

\* Suc is counted down also when nothing is enabled and it is 0.
LookIgnored ==
    /\ ~enable \/ suc > 0
    /\ suc' = Ignore(suc) /\ retryTM' = Count(retryTM)
    /\ UNCHANGED <<downloadReTry, flag, ev, asked, request, mixed, retries, failed>>

Look ==
    /\ ev = "wait" /\ Advance /\ Looked
    /\ LookScheduled \/ LookRetry \/ LookNothing \/ LookIgnored
    /\ UNCHANGED <<table, enable, pending, auto, running>>

\* The flags of this minute are handed to the auto thread.
Post ==
    /\ ev = "post" /\ ev' = "wait"
    /\ pending' = (pending \/ flag) /\ flag' = FALSE
    /\ UNCHANGED <<clock, schedule, downloadReTry, auto, looks, story, budget>>

\* A pause (see EventThread): the thread looks no more, time goes on, and
\* when it is resumed it reads the settings, which may have changed.
Pause ==
    /\ ev = "wait" /\ ev' = "paused"
    /\ Spend
    /\ UNCHANGED <<clock, schedule, flag, shared, auto, looks, story>>

Paused ==
    /\ ev = "paused" /\ Advance
    /\ UNCHANGED <<ev, schedule, flag, shared, auto, looks, story>>

Resume ==
    /\ ev = "paused" /\ ev' = "wait"
    /\ table' \in Tables /\ enable' \in BOOLEAN
    /\ IF table' = table /\ enable' = enable
       THEN UNCHANGED <<from, lastLook>>
       ELSE from' = now /\ lastLook' = now
    /\ UNCHANGED <<clock, suc, retryTM, flag, shared, auto, asked, story, budget>>

-----------------------------------------------------------------------------
(* The auto thread.                                                        *)

AutoTake ==
    /\ job = "idle" /\ pending /\ pending' = FALSE
    /\ job' = "before"
    /\ running' = request /\ request' = "none"
    /\ UNCHANGED <<clock, ev, schedule, flag, downloadReTry, kind, looks, failed, retries, mixed, budget>>

\* The radio is busy, or the network is being set up: nothing is done.
AutoDrop ==
    /\ job = "before" /\ job' = "idle" /\ running' = "none"
    /\ UNCHANGED <<clock, ev, schedule, flag, shared, kind, looks, request, failed, retries, mixed, budget>>

\* After alarms and current readings: a download of all loggers (0), or of
\* those that did not finish (1).
AutoBegin ==
    /\ job = "before" /\ job' = "run"
    /\ kind' = IF downloadReTry = 0 THEN 0 ELSE 1
    /\ UNCHANGED <<clock, ev, schedule, flag, shared, looks, story, budget>>

AutoEnd(result) ==
    /\ job = "run" /\ job' = "idle" /\ running' = "none"
    /\ failed' = (result = "NOTFINISH") /\ kind' = 0
    /\ downloadReTry' = CASE result \in {"NOERROR", "BREAK_END"} -> 0
                          [] result = "NOTFINISH" -> IF downloadReTry < 1 THEN downloadReTry + 1 ELSE 0
                          [] OTHER -> downloadReTry
    /\ UNCHANGED <<clock, ev, schedule, flag, pending, looks, request, retries, mixed, budget>>

AUTO_control ==
    AutoTake \/ AutoDrop \/ AutoBegin
    \/ \E r \in {"NOERROR", "BREAK_END", "NOTFINISH", "other"} : AutoEnd(r)

Next == Look \/ Post \/ Pause \/ Paused \/ Resume \/ AUTO_control

Spec == Init /\ [][Next]_vars

-----------------------------------------------------------------------------
(* Properties                                                              *)

\* A time of the schedule is downloaded once, also when the clock is put back
\* while its window is open: what Suc ignores after it is long enough.
AskedOnce == [][suc = 0 /\ suc' = Block => asked' # asked]_vars

\* How far from its time an event may be merged into a neighbour: what Suc
\* ignores, and what each pause or correction adds to it.
Near == Block + (Window - 1) * Budget

WholeWindow(e, t) ==
    \A k \in 0 .. Window - 1 : Matches(e, t + k) /\ Past(e, t + k) = k

\* No time of the schedule is lost while the thread looks every minute, where
\* corrections and short pauses may skip some: it is downloaded, or so near
\* to another time that Suc makes one of the two.  This is about times whose
\* window is whole: midnight, and the end of the hour, cut it short.
NoneSkipped ==
    ev = "wait" /\ enable =>
        \A t \in from + 1 .. lastLook - Window :
            (\E i \in DOMAIN table : WholeWindow(table[i], t)) =>
                \E a \in asked : a - t \in -Near .. Near

\* Between two scheduled downloads there is at most one retry, whatever the
\* auto thread leaves in Download_ReTry ("only once", line 310).
RetriedOnce == retries <= 1

\* A scheduled download reads all loggers, and not those that the last one
\* left, unless it was asked for while another ran.
FullDownload == job = "run" /\ running = "schedule" => kind = 0

\* A retry follows a download that did not finish and is over; only when the
\* schedule came during a download may the flag be that download's.
RetryMeansFailure ==
    [][retries' > retries /\ ~mixed => failed /\ job = "idle"]_vars
=============================================================================
