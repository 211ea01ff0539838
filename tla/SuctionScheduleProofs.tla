----------------------- MODULE SuctionScheduleProofs -----------------------
(***************************************************************************)
(* Theorems about the schedule of downloads, for all tables of events, any *)
(* number of pauses, and corrections of the clock that put it back by no   *)
(* more than two minutes and come no closer than five.  Spaced keeps times *)
(* apart that are asked for (nothing twice); NInv says that each look is   *)
(* followed by a time asked for or finds none due (nothing skipped).       *)
(***************************************************************************)
EXTENDS SuctionSchedule, TLAPS

\* How many looks ago the last download was scheduled, as far as Suc tells.
Looks == IF suc <= Block THEN Block - suc ELSE Block

\* By now each time that was recognised lies back by as many minutes as there
\* were looks since, two fewer if the clock was put back in the meantime.
Spaced ==
    \A t \in asked :
        /\ now - t >= Looks - 2
        /\ now - t >= Looks \/ now - t >= since - 1

\* After the retry its timer is off until the next scheduled download.
TimerOff == retries \in 0 .. 1 /\ (retries = 1 => retryTM = -1)

\* From the schedule to the start of its download nobody sets Download_ReTry.
Fresh ==
    /\ request = "schedule" => job = "idle" /\ downloadReTry = 0
    /\ running = "schedule" /\ job = "before" => downloadReTry = 0

\* While the timer runs there is one download, waiting or running, or over;
\* Download_ReTry is then what that one left.
OneDownload ==
    /\ flag => ev = "post"
    /\ retryTM >= 0 /\ ~mixed =>
        /\ flag => ~pending /\ job = "idle"
        /\ pending => job = "idle"
        /\ flag \/ pending \/ job # "idle" => downloadReTry = 0
        /\ downloadReTry > 0 => failed

\* TypeOK in parts: numbers, truth values, the rest.
Numbers ==
    /\ now \in Int /\ since \in 0 .. Apart /\ end \in Nat
    /\ suc \in 0 .. Width - 1 /\ retryTM \in -1 .. RetryAfter
    /\ downloadReTry \in 0 .. 1 /\ kind \in 0 .. 1
    /\ asked \subseteq Int /\ lastLook \in Int /\ from \in Int
    /\ retries \in Nat /\ budget \in 0 .. Budget
Truths ==
    /\ enable \in BOOLEAN /\ flag \in BOOLEAN /\ pending \in BOOLEAN
    /\ failed \in BOOLEAN /\ mixed \in BOOLEAN
Places ==
    /\ ev \in {"wait", "post", "paused"} /\ table \in Tables
    /\ job \in {"idle", "before", "run"}
    /\ request \in {"none", "retry", "schedule", "overlap"}
    /\ running \in {"none", "retry", "schedule", "overlap"}

LEMMA TypeParts == TypeOK <=> Numbers /\ Truths /\ Places
BY DEF TypeOK, Numbers, Truths, Places

IInv == Numbers /\ Truths /\ Places /\ Spaced /\ TimerOff /\ Fresh /\ FullDownload /\ OneDownload

LEMMA InitIInv == Init => IInv
<1> SUFFICES ASSUME Init PROVE IInv
  OBVIOUS
<1> USE StartsAssumption, ApartAssumption DEF Init
<1>1. Numbers BY DEF Numbers, Width, RetryAfter
<1>2. Truths BY DEF Truths
<1>3. Places BY DEF Places
<1>4. Spaced BY DEF Spaced
<1>5. TimerOff /\ Fresh /\ FullDownload /\ OneDownload
  BY DEF TimerOff, Fresh, FullDownload, OneDownload
<1> QED BY <1>1, <1>2, <1>3, <1>4, <1>5 DEF IInv

-----------------------------------------------------------------------------
(* The clock, and what a look does to Suc.                                 *)

\* The clock goes on, or is put back by a minute at the most, and that only
\* when the last correction is five minutes ago.
LEMMA AdvanceNumbers ==
  ASSUME Numbers, Advance
  PROVE  /\ now' \in Int /\ since' \in 0 .. Apart /\ end' \in Nat /\ budget' \in 0 .. Budget
         /\ \/ now' = now + 1 /\ since' <= since + 1
            \/ now' >= now - 1 /\ since = Apart /\ since' = 0
<1> USE StartsAssumption, ShiftsAssumption, ApartAssumption DEF Numbers
<1>1. CASE now' = now + 1 /\ since' = (IF since < Apart THEN since + 1 ELSE since) /\ UNCHANGED budget
  BY <1>1 DEF Advance
<1>2. CASE /\ since = Apart /\ since' = 0 /\ Spend
           /\ \E d \in Shifts : now' = now + 1 + d
  <2>1. PICK d \in Shifts : now' = now + 1 + d BY <1>2
  <2>2. d \in Int /\ d >= -2 BY <2>1
  <2>3. now' \in Int /\ now' >= now - 1 BY <2>1, <2>2
  <2> QED BY <2>3, <1>2 DEF Advance, Spend
<1> QED BY <1>1, <1>2 DEF Advance

\* The arithmetic of it, for the clock n and then m, and a time t.
LEMMA StaysSpaced ==
  ASSUME NEW n \in Int, NEW m \in Int, NEW t \in Int, NEW s \in Int, NEW u \in Int,
         NEW k \in 0 .. 4, NEW l \in 0 .. 4, l <= k + 1,
         n - t >= k - 2, n - t >= k \/ n - t >= s - 1,
         \/ m = n + 1 /\ u <= s + 1
         \/ m >= n - 1 /\ s >= 5 /\ u = 0
  PROVE  m - t >= l - 2 /\ (m - t >= l \/ m - t >= u - 1)
OBVIOUS

LEMMA IsNew ==
  ASSUME NEW n \in Int, NEW m \in Int, NEW t \in Int, NEW s \in Int,
         n - t >= 2, n - t >= 4 \/ n - t >= s - 1,
         m = n + 1 \/ (m >= n - 1 /\ s >= 5)
  PROVE  m - t >= 3
OBVIOUS

LEMMA Back ==
  ASSUME NEW m \in Int, NEW q \in Int
  PROVE  m - q \in Int /\ m - (m - q) = q
OBVIOUS

\* When time goes on and Suc is counted down or left alone, the times that
\* were asked for stay spaced.
LEMMA AdvanceSpaced ==
  ASSUME Numbers, Spaced, Advance, asked' = asked,
         suc' \in {suc, Ignore(suc)}, suc' = suc => suc = 0 \/ ev = "paused"
  PROVE  Spaced'
<1>1. ASSUME NEW t \in asked
      PROVE  /\ now' - t >= Looks' - 2
             /\ now' - t >= Looks' \/ now' - t >= since' - 1
  <2>1. /\ now \in Int /\ t \in Int /\ since \in Int /\ suc \in 0 .. 255
    BY <1>1, ApartAssumption DEF Numbers, Width
  <2>2. /\ now - t >= Looks - 2
        /\ now - t >= Looks \/ now - t >= since - 1
    BY <1>1 DEF Spaced
  <2>3. /\ now' \in Int /\ since' \in Int
        /\ \/ now' = now + 1 /\ since' <= since + 1
           \/ now' >= now - 1 /\ since >= 5 /\ since' = 0
    BY AdvanceNumbers, ApartAssumption
  <2>4. Looks \in 0 .. 4 /\ Looks' \in 0 .. 4 /\ Looks' <= Looks + 1
    <3>1. CASE suc' = suc
      <4>1. Looks' = Looks BY <3>1 DEF Looks
      <4>2. Looks \in 0 .. 4 BY <2>1 DEF Looks, Block
      <4> QED BY <4>1, <4>2
    <3>2. CASE suc' = Ignore(suc)
      <4>1. (suc > 0 /\ suc' = suc - 1) \/ (suc = 0 /\ suc' = 255)
        BY <2>1, <3>2 DEF Ignore, Width
      <4>2. Looks = (IF suc <= 4 THEN 4 - suc ELSE 4) /\ Looks' = (IF suc' <= 4 THEN 4 - suc' ELSE 4)
        BY DEF Looks, Block
      <4>3. CASE suc = 0 BY <4>1, <4>2, <4>3
      <4>4. CASE suc > 0
        <5>1. suc' = suc - 1 BY <4>1, <4>4, <2>1
        <5>2. CASE suc <= 4
          <6>1. Looks = 4 - suc /\ Looks' = 4 - (suc - 1) BY <2>1, <4>2, <5>1, <5>2
          <6> QED BY <2>1, <4>4, <5>2, <6>1
        <5>3. CASE suc > 4
          <6>1. Looks = 4 BY <2>1, <4>2, <5>3
          <6>2. Looks' \in 0 .. 4
            <7>1. CASE suc - 1 <= 4 BY <2>1, <4>2, <5>1, <5>3, <7>1
            <7>2. CASE ~(suc - 1 <= 4) BY <4>2, <5>1, <7>2
            <7> QED BY <7>1, <7>2
          <6> QED BY <6>1, <6>2
        <5> QED BY <2>1, <5>2, <5>3
      <4> QED BY <2>1, <4>3, <4>4
    <3> QED BY <3>1, <3>2
  <2>5. now' - t >= Looks' - 2 /\ (now' - t >= Looks' \/ now' - t >= since' - 1)
    BY ONLY <2>1, <2>2, <2>3, <2>4, StaysSpaced
  <2> QED BY <2>5
<1> QED BY <1>1 DEF Spaced

\* A download is scheduled for a time that was not asked for before.
LEMMA NewTime ==
  ASSUME Numbers, Spaced, Advance, suc = 0, NEW p \in 0 .. Window - 1
  PROVE  /\ now' - p \notin asked
         /\ \A t \in asked : now' - t >= Window
<1>1. ASSUME NEW t \in asked
      PROVE  now' - t >= 3
  <2>1. now \in Int /\ t \in Int /\ since \in Int
    BY <1>1, ApartAssumption DEF Numbers
  <2>2. now - t >= 2 /\ (now - t >= 4 \/ now - t >= since - 1)
    BY <1>1 DEF Spaced, Looks, Block
  <2>3. /\ now' \in Int
        /\ \/ now' = now + 1
           \/ now' >= now - 1 /\ since >= 5
    BY AdvanceNumbers, ApartAssumption
  <2> QED BY ONLY <2>1, <2>2, <2>3, IsNew
<1>2. now' \in Int BY AdvanceNumbers
<1>3. p \in Int /\ p <= 2 BY DEF Window
<1>4. now' - p \notin asked
  <2> SUFFICES ASSUME now' - p \in asked PROVE FALSE
    OBVIOUS
  <2>1. now' - (now' - p) >= 3 BY <1>1
  <2>2. now' - (now' - p) = p BY <1>2, <1>3, Back
  <2> QED BY <2>1, <2>2, <1>3
<1> QED BY <1>1, <1>4 DEF Window

-----------------------------------------------------------------------------
(* Each action keeps the invariant.                                        *)

LEMMA LookIInv == IInv /\ Look => IInv'
<1> SUFFICES ASSUME IInv, Look PROVE IInv'
  OBVIOUS
<1>a. Numbers /\ Truths /\ Places /\ Spaced /\ TimerOff /\ Fresh /\ FullDownload /\ OneDownload
  BY DEF IInv
<1>b. /\ ev = "wait" /\ Advance /\ Looked
      /\ UNCHANGED <<table, enable, pending, job, kind, running>>
  BY DEF Look, auto
<1>c. /\ now' \in Int /\ since' \in 0 .. Apart /\ end' \in Nat /\ budget' \in 0 .. Budget
      /\ now' = now + 1 \/ now' >= now - 1
  BY <1>a, <1>b, AdvanceNumbers
<1>d. lastLook' \in Int /\ from' \in Int
  BY <1>a, <1>b, <1>c DEF Looked, Numbers
<1>1. CASE LookScheduled
  <2>1. PICK i \in Recognised(now'), p \in 0 .. Window - 1 :
            asked' = asked \cup {now' - p} /\ retryTM' = RetryTime(table[i])
    BY <1>1 DEF LookScheduled
  <2>2. /\ suc = 0 /\ suc' = Block /\ downloadReTry' = 0 /\ flag' = TRUE /\ ev' = "post"
        /\ request' = (IF job # "idle" THEN "overlap" ELSE "schedule")
        /\ mixed' = (job # "idle" \/ pending) /\ retries' = 0 /\ failed' = FALSE
    BY <1>1 DEF LookScheduled
  <2>3. retryTM' \in {-1, 30}
    BY <2>1 DEF RetryTime, RetryAfter
  <2>4. p \in Int /\ 0 <= p /\ p <= 2
    BY <2>1 DEF Window
  <2>5. asked' \subseteq Int
    <3>1. now' - p \in Int BY <1>c, <2>4
    <3> QED BY <3>1, <2>1, <1>a DEF Numbers
  <2>6. Numbers'
    BY <1>a, <1>b, <1>c, <1>d, <2>2, <2>3, <2>5 DEF Numbers, Width, Block, RetryAfter
  <2>7. Truths'
    <3>1. enable' \in BOOLEAN /\ pending' \in BOOLEAN BY <1>a, <1>b DEF Truths
    <3>2. flag' \in BOOLEAN /\ failed' \in BOOLEAN /\ mixed' \in BOOLEAN BY <2>2
    <3> QED BY <3>1, <3>2 DEF Truths
  <2>8. Places' BY <1>a, <1>b, <2>2 DEF Places
  <2>9. Spaced'
    <3>1. ASSUME NEW t \in asked' PROVE t \in Int /\ now' - t >= 0
      <4>1. CASE t = now' - p
        <5>1. t \in Int /\ now' - t = p BY <4>1, <1>c, <2>4, Back
        <5> QED BY <5>1, <2>4
      <4>2. CASE t \in asked
        <5>1. now' - t >= 3 /\ now' - t \in Int
          <6>1. now' - t >= 3 BY <4>2, <1>a, <1>b, <2>2, <2>1, NewTime DEF Window
          <6>2. t \in Int BY <4>2, <1>a DEF Numbers
          <6>3. now' - t \in Int BY <6>2, <1>c, Back
          <6> QED BY <6>1, <6>3
        <5>2. t \in Int BY <4>2, <1>a DEF Numbers
        <5> QED BY <5>1, <5>2
      <4> QED BY <3>1, <4>1, <4>2, <2>1
    <3>2. Looks' = 0 BY <2>2 DEF Looks, Block
    <3>3. ASSUME NEW t \in asked' PROVE now' - t >= Looks' - 2 /\ now' - t >= Looks'
      <4>1. now' - t \in Int BY <3>1, <1>c
      <4> QED BY <3>1, <3>2, <4>1
    <3> QED BY <3>3 DEF Spaced
  <2>10. TimerOff' BY <2>2 DEF TimerOff
  <2>11. Fresh'
    BY <1>a, <1>b, <2>2 DEF Fresh
  <2>12. FullDownload' BY <1>a, <1>b DEF FullDownload
  <2>13. OneDownload'
    <3>1. ev' = "post" /\ job' = job /\ pending' = pending BY <1>b, <2>2
    <3>2. ~flag BY <1>a, <1>b DEF OneDownload
    <3>3. ~mixed' => job = "idle" /\ ~pending BY <2>2
    <3> QED BY <3>1, <3>3, <2>2 DEF OneDownload
  <2> QED BY <2>6, <2>7, <2>8, <2>9, <2>10, <2>11, <2>12, <2>13 DEF IInv
<1>2. CASE LookRetry
  <2>1. /\ suc = 0 /\ suc' = suc /\ retryTM \in {0, 1} /\ retryTM' = -1 /\ downloadReTry' = downloadReTry
        /\ flag' = TRUE /\ ev' = "post" /\ request' = "retry" /\ retries' = retries + 1
        /\ asked' = asked /\ mixed' = mixed /\ failed' = failed
    BY <1>2 DEF LookRetry, Retry
  <2>2. Numbers' BY <1>a, <1>c, <1>d, <1>b, <2>1 DEF Numbers, RetryAfter
  <2>3. Truths' BY <1>a, <1>b, <2>1 DEF Truths
  <2>4. Places' BY <1>a, <1>b, <2>1 DEF Places
  <2>5. Spaced' BY <1>a, <1>b, <2>1, AdvanceSpaced
  <2>6. TimerOff' BY <1>a, <2>1 DEF TimerOff
  <2>7. Fresh' /\ FullDownload' BY <1>a, <1>b, <2>1 DEF Fresh, FullDownload
  <2>8. OneDownload' BY <1>a, <1>b, <2>1 DEF OneDownload
  <2> QED BY <2>2, <2>3, <2>4, <2>5, <2>6, <2>7, <2>8 DEF IInv
<1>3. ASSUME \/ LookNothing /\ suc = 0 /\ suc' = suc
             \/ LookIgnored /\ suc' = Ignore(suc)
      PROVE  IInv'
  <2>1. /\ retryTM' = Count(retryTM) /\ suc' \in {suc, Ignore(suc)} /\ (suc' = suc => suc = 0 \/ ev = "paused")
        /\ suc' \in 0 .. Width - 1
    BY <1>3, <1>a DEF LookNothing, LookIgnored, Ignore, Numbers, Width
  <2>2. UNCHANGED <<downloadReTry, flag, ev, asked, request, mixed, retries, failed>>
    BY <1>3 DEF LookNothing, LookIgnored
  <2>3. retryTM' \in -1 .. RetryAfter /\ (retryTM = -1 => retryTM' = -1) /\ (retryTM' >= 0 => retryTM >= 0)
    BY <2>1, <1>a DEF Count, Numbers, RetryAfter
  <2>4. Numbers' BY <1>a, <1>b, <1>c, <1>d, <2>1, <2>2, <2>3 DEF Numbers
  <2>5. Truths' BY <1>a, <1>b, <2>2 DEF Truths
  <2>6. Places' BY <1>a, <1>b, <2>2 DEF Places
  <2>7. Spaced' BY <1>a, <1>b, <2>1, <2>2, AdvanceSpaced
  <2>8. TimerOff' BY <1>a, <2>2, <2>3 DEF TimerOff
  <2>9. Fresh' /\ FullDownload' BY <1>a, <1>b, <2>2 DEF Fresh, FullDownload
  <2>10. OneDownload' BY <1>a, <1>b, <2>2, <2>3 DEF OneDownload, Truths
  <2> QED BY <2>4, <2>5, <2>6, <2>7, <2>8, <2>9, <2>10 DEF IInv
<1>4. CASE LookNothing
  BY <1>4, <1>3 DEF LookNothing
<1>5. CASE LookIgnored
  BY <1>5, <1>3 DEF LookIgnored
<1> QED BY <1>1, <1>2, <1>4, <1>5 DEF Look

LEMMA PostIInv == IInv /\ Post => IInv'
<1> SUFFICES ASSUME IInv, Post PROVE IInv'
  OBVIOUS
<1>a. Numbers /\ Truths /\ Places /\ Spaced /\ TimerOff /\ Fresh /\ FullDownload /\ OneDownload
  BY DEF IInv
<1> USE <1>a DEF Post, clock, schedule, shared, auto, looks, story
<1>1. Numbers' BY DEF Numbers
<1>2. Truths' BY DEF Truths
<1>3. Places' BY DEF Places
<1>4. Spaced' BY DEF Spaced, Looks
<1>5. TimerOff' BY DEF TimerOff
<1>6. Fresh' /\ FullDownload' BY DEF Fresh, FullDownload, Numbers, Truths
<1>7. OneDownload' BY DEF OneDownload, Numbers, Truths
<1> QED BY <1>1, <1>2, <1>3, <1>4, <1>5, <1>6, <1>7 DEF IInv

LEMMA PauseIInv == IInv /\ Pause => IInv'
<1> SUFFICES ASSUME IInv, Pause PROVE IInv'
  OBVIOUS
<1>a. Numbers /\ Truths /\ Places /\ Spaced /\ TimerOff /\ Fresh /\ FullDownload /\ OneDownload
  BY DEF IInv
<1> USE <1>a DEF Pause, clock, schedule, shared, auto, looks, story, Spend
<1>1. Numbers'
  <2>1. budget' \in 0 .. Budget BY StartsAssumption DEF Numbers
  <2> QED BY <2>1 DEF Numbers
<1>2. Truths' BY DEF Truths
<1>3. Places' BY DEF Places
<1>4. Spaced' BY DEF Spaced, Looks
<1>5. TimerOff' BY DEF TimerOff
<1>6. Fresh' /\ FullDownload' BY DEF Fresh, FullDownload, Numbers, Truths
<1>7. OneDownload' BY DEF OneDownload, Numbers, Truths
<1> QED BY <1>1, <1>2, <1>3, <1>4, <1>5, <1>6, <1>7 DEF IInv

LEMMA PausedIInv == IInv /\ Paused => IInv'
<1> SUFFICES ASSUME IInv, Paused PROVE IInv'
  OBVIOUS
<1>a. Numbers /\ Truths /\ Places /\ Spaced /\ TimerOff /\ Fresh /\ FullDownload /\ OneDownload
  BY DEF IInv
<1> USE <1>a DEF Paused, clock, schedule, shared, auto, looks, story
<1>1. Numbers' BY AdvanceNumbers DEF Numbers
<1>2. Truths' BY DEF Truths
<1>3. Places' BY DEF Places
<1>4. Spaced' BY AdvanceSpaced
<1>5. TimerOff' BY DEF TimerOff
<1>6. Fresh' /\ FullDownload' BY DEF Fresh, FullDownload, Numbers, Truths
<1>7. OneDownload' BY DEF OneDownload, Numbers, Truths
<1> QED BY <1>1, <1>2, <1>3, <1>4, <1>5, <1>6, <1>7 DEF IInv

LEMMA ResumeIInv == IInv /\ Resume => IInv'
<1> SUFFICES ASSUME IInv, Resume PROVE IInv'
  OBVIOUS
<1>a. Numbers /\ Truths /\ Places /\ Spaced /\ TimerOff /\ Fresh /\ FullDownload /\ OneDownload
  BY DEF IInv
<1> USE <1>a DEF Resume, clock, schedule, shared, auto, looks, story
<1>1. Numbers' BY DEF Numbers
<1>2. Truths' BY DEF Truths
<1>3. Places' BY DEF Places
<1>4. Spaced' BY DEF Spaced, Looks
<1>5. TimerOff' BY DEF TimerOff
<1>6. Fresh' /\ FullDownload' BY DEF Fresh, FullDownload, Numbers, Truths
<1>7. OneDownload' BY DEF OneDownload, Numbers, Truths
<1> QED BY <1>1, <1>2, <1>3, <1>4, <1>5, <1>6, <1>7 DEF IInv

LEMMA AutoTakeIInv == IInv /\ AutoTake => IInv'
<1> SUFFICES ASSUME IInv, AutoTake PROVE IInv'
  OBVIOUS
<1>a. Numbers /\ Truths /\ Places /\ Spaced /\ TimerOff /\ Fresh /\ FullDownload /\ OneDownload
  BY DEF IInv
<1> USE <1>a DEF AutoTake, clock, schedule, shared, auto, looks, story
<1>1. Numbers' BY DEF Numbers
<1>2. Truths' BY DEF Truths
<1>3. Places' BY DEF Places
<1>4. Spaced' BY DEF Spaced, Looks
<1>5. TimerOff' BY DEF TimerOff
<1>6. Fresh' /\ FullDownload' BY DEF Fresh, FullDownload, Numbers, Truths
<1>7. OneDownload' BY DEF OneDownload, Numbers, Truths
<1> QED BY <1>1, <1>2, <1>3, <1>4, <1>5, <1>6, <1>7 DEF IInv

LEMMA AutoDropIInv == IInv /\ AutoDrop => IInv'
<1> SUFFICES ASSUME IInv, AutoDrop PROVE IInv'
  OBVIOUS
<1>a. Numbers /\ Truths /\ Places /\ Spaced /\ TimerOff /\ Fresh /\ FullDownload /\ OneDownload
  BY DEF IInv
<1> USE <1>a DEF AutoDrop, clock, schedule, shared, auto, looks, story
<1>1. Numbers' BY DEF Numbers
<1>2. Truths' BY DEF Truths
<1>3. Places' BY DEF Places
<1>4. Spaced' BY DEF Spaced, Looks
<1>5. TimerOff' BY DEF TimerOff
<1>6. Fresh' /\ FullDownload' BY DEF Fresh, FullDownload, Numbers, Truths
<1>7. OneDownload' BY DEF OneDownload, Numbers, Truths
<1> QED BY <1>1, <1>2, <1>3, <1>4, <1>5, <1>6, <1>7 DEF IInv

LEMMA AutoBeginIInv == IInv /\ AutoBegin => IInv'
<1> SUFFICES ASSUME IInv, AutoBegin PROVE IInv'
  OBVIOUS
<1>a. Numbers /\ Truths /\ Places /\ Spaced /\ TimerOff /\ Fresh /\ FullDownload /\ OneDownload
  BY DEF IInv
<1> USE <1>a DEF AutoBegin, clock, schedule, shared, auto, looks, story
<1>1. Numbers' BY DEF Numbers
<1>2. Truths' BY DEF Truths
<1>3. Places' BY DEF Places
<1>4. Spaced' BY DEF Spaced, Looks
<1>5. TimerOff' BY DEF TimerOff
<1>6. Fresh' /\ FullDownload' BY DEF Fresh, FullDownload, Numbers, Truths
<1>7. OneDownload' BY DEF OneDownload, Numbers, Truths
<1> QED BY <1>1, <1>2, <1>3, <1>4, <1>5, <1>6, <1>7 DEF IInv

LEMMA AutoEndIInv == ASSUME NEW r PROVE IInv /\ AutoEnd(r) => IInv'
<1> SUFFICES ASSUME IInv, AutoEnd(r) PROVE IInv'
  OBVIOUS
<1>a. Numbers /\ Truths /\ Places /\ Spaced /\ TimerOff /\ Fresh /\ FullDownload /\ OneDownload
  BY DEF IInv
<1> USE <1>a DEF AutoEnd, clock, schedule, shared, auto, looks, story
<1>1. Numbers' BY DEF Numbers
<1>2. Truths' BY DEF Truths
<1>3. Places' BY DEF Places
<1>4. Spaced' BY DEF Spaced, Looks
<1>5. TimerOff' BY DEF TimerOff
<1>6. Fresh' /\ FullDownload' BY DEF Fresh, FullDownload, Numbers, Truths
<1>7. OneDownload'
  <2>1. job = "run" /\ job' = "idle" /\ UNCHANGED <<ev, flag, pending, retryTM, mixed>>
    OBVIOUS
  <2>2. downloadReTry = 0 => downloadReTry' = 0 \/ (downloadReTry' = 1 /\ failed')
    <3>1. CASE r = "NOTFINISH"
      <4>1. downloadReTry' = IF downloadReTry < 1 THEN downloadReTry + 1 ELSE 0 BY <3>1
      <4>2. failed' = (r = "NOTFINISH") OBVIOUS
      <4>3. failed' BY ONLY <3>1, <4>2, Zenon
      <4> QED BY <4>1, <4>3
    <3>2. CASE r \in {"NOERROR", "BREAK_END"} BY <3>2
    <3>3. CASE r \notin {"NOERROR", "BREAK_END", "NOTFINISH"} BY <3>3
    <3> QED BY <3>1, <3>2, <3>3
  <2>3. flag => ev = "post" BY DEF OneDownload
  <2>4. retryTM >= 0 /\ ~mixed => ~flag /\ ~pending /\ downloadReTry = 0
    BY <2>1 DEF OneDownload
  <2> QED BY ONLY <2>1, <2>2, <2>3, <2>4 DEF OneDownload
<1> QED BY <1>1, <1>2, <1>3, <1>4, <1>5, <1>6, <1>7 DEF IInv

LEMMA StepIInv == IInv /\ [Next]_vars => IInv'
<1> SUFFICES ASSUME IInv, [Next]_vars PROVE IInv'
  OBVIOUS
<1>1. CASE Next
  BY <1>1, LookIInv, PostIInv, PauseIInv, PausedIInv, ResumeIInv, AutoTakeIInv, AutoDropIInv,
     AutoBeginIInv, AutoEndIInv DEF Next, AUTO_control
<1>2. CASE UNCHANGED vars
  <2> USE <1>2 DEF vars, clock, schedule, shared, auto, looks, story
  <2>a. Numbers /\ Truths /\ Places /\ Spaced /\ TimerOff /\ Fresh /\ FullDownload /\ OneDownload
    BY DEF IInv
  <2>1. Numbers' /\ Truths' /\ Places' BY <2>a DEF Numbers, Truths, Places
  <2>2. Spaced' /\ TimerOff' /\ Fresh' /\ FullDownload' /\ OneDownload'
    BY <2>a DEF Spaced, Looks, TimerOff, Fresh, FullDownload, OneDownload
  <2> QED BY <2>1, <2>2 DEF IInv
<1> QED BY <1>1, <1>2

LEMMA SpecIInv == Spec => []IInv
BY InitIInv, StepIInv, PTL DEF Spec

-----------------------------------------------------------------------------
(* No time is skipped: of the looks within a window, either one finds it   *)
(* or Suc ignores them all, for a time that was asked for shortly before.  *)

\* Since the last look the thread was paused, or is.
Gap == IF ev = "paused" \/ now # lastLook THEN 1 ELSE 0

\* Pauses and corrections up to the last look.
Spent == Budget - budget - Gap

Due(t) == \E i \in DOMAIN table : WholeWindow(table[i], t)

\* What Suc ignores began with a time that was asked for.
Recent ==
    suc \in 1 .. Block /\ from # lastLook =>
        \E a \in asked : a >= lastLook - 2 - (Block - suc) - 2 * Spent

\* When a look has fallen into a window, a time was asked for, this or before.
Seen ==
    enable => \A t \in Int : from < t /\ t <= lastLook /\ lastLook <= t + 2 /\ Due(t)
                => \E a \in asked : a <= t + 4 /\ a >= lastLook - 6 - 2 * Spent

Covered ==
    enable => \A t \in Int : from < t /\ t + 3 <= lastLook /\ Due(t)
                => \E a \in asked : a - t \in -Near .. Near

NInv == Recent /\ Seen /\ Covered

\* The arithmetic of a look: b is what is left of c, g the gap before the look.
LEMMA Spending ==
  ASSUME NEW c \in Int, NEW b \in Int, NEW d \in Int, NEW g \in 0 .. 1,
         NEW n \in Int, NEW m \in Int, NEW l \in Int,
         g = 0 => n = l, m - l <= 3, (m = n + 1 /\ d = b) \/ d = b - 1
  PROVE  m - l <= 1 + 2 * ((c - d) - (c - b - g))
<1>1. CASE g = 0 /\ d = b
  <2>1. m - l = 1 /\ (c - d) - (c - b - g) = 0 BY <1>1
  <2> QED BY <2>1
<1>2. CASE d = b - 1 \/ g = 1
  <2>1. (c - d) - (c - b - g) >= 1 BY <1>2
  <2> QED BY <2>1
<1> QED BY <1>1, <1>2

LEMMA Little ==
  /\ \A m \in Int, q \in 0 .. 2 : m - q \in Int /\ m - q <= m /\ m - q >= m - 2
  /\ \A c, b \in Int : 0 <= b => c - b - 0 = c - b /\ c - b \in Int /\ c - b <= c
  /\ \A m, l \in Int : ~(m - l > 3) => m - l <= 3
  /\ \A n \in Int : ~(n > 4) => n <= 4
  /\ \A n \in 0 .. 255 : (IF n <= 4 THEN 4 - n ELSE 4) \in Nat
  /\ \A c \in Nat : \A b \in 0 .. c : c - b - 0 \in Nat
OBVIOUS

\* Bounds on a time a that was asked for, at the look m.
LEMMA Bounds ==
  ASSUME NEW a \in Int, NEW m \in Int, NEW s \in Int
  PROVE  /\ \A r \in Int : s <= r /\ a >= m - 2 * s => a >= m - 2 * r
         /\ \A k \in Nat : m - a >= k - 2 => a <= m + 2
         /\ 0 <= s /\ a >= m - 2 => a >= m - 2 - (4 - 4) - 2 * s /\ a >= m - 6 - 2 * s
         /\ \A t \in Int : a <= m + 2 /\ m <= t + 2 => a <= t + 4
         /\ \A l, t \in Int : m - l <= 3 /\ t + 3 <= m /\ ~(t + 3 <= l) => t <= l /\ l <= t + 2
OBVIOUS

\* From look to look, unless the history begins anew, the clock goes on by a
\* minute, and by two more at most for each pause and correction.
LEMMA LookMoves ==
  ASSUME IInv, Look
  PROVE  /\ now' \in Int /\ lastLook' = now' /\ Spent' \in Int /\ Spent' <= Budget
         /\ lastLook \in Int /\ Spent \in Int /\ from \in Int
         /\ from' \in {from, now'}
         /\ from' # now' => /\ from' = from /\ enable /\ suc <= Block
                            /\ suc > 0 => from # lastLook
                            /\ now' - lastLook <= 3
                            /\ now' - lastLook <= 1 + 2 * (Spent' - Spent)
<1>1. Numbers BY DEF IInv
<1>2. /\ ev = "wait" /\ Advance /\ Looked BY DEF Look
<1>3. now' \in Int /\ budget' \in 0 .. Budget BY <1>1, <1>2, AdvanceNumbers
<1>4. lastLook' = now' /\ now \in Int /\ lastLook \in Int /\ from \in Int
  BY <1>1, <1>2 DEF Looked, Numbers
<1>5. /\ Budget \in Int /\ budget \in Int /\ budget' \in Int /\ suc \in Int
      /\ 0 <= budget'
  BY <1>1, <1>3, StartsAssumption DEF Numbers, Width
<1>6. Gap \in 0 .. 1 /\ (Gap = 0 => now = lastLook) BY DEF Gap
<1>7. ev' # "paused"
  BY <1>2 DEF Look, LookScheduled, LookRetry, LookNothing, LookIgnored
<1>8. Gap' = 0 BY <1>4, <1>7 DEF Gap
<1>9. Spent' = Budget - budget' /\ Spent' \in Int /\ Spent' <= Budget
  <2>1. Spent' = Budget - budget' - 0 BY <1>8 DEF Spent
  <2> QED BY <2>1, <1>5, Little
<1>10. Spent = Budget - budget - Gap /\ Spent \in Int BY <1>5, <1>6 DEF Spent
<1>11. (now' = now + 1 /\ budget' = budget) \/ budget' = budget - 1
  BY <1>2 DEF Advance, Spend
<1>12. \/ from' = now'
       \/ /\ from' = from /\ enable /\ ~(suc > Block) /\ ~(now' - lastLook > Window)
          /\ ~(suc > 0 /\ from = lastLook)
  BY <1>2 DEF Looked
<1>13. ASSUME now' - lastLook <= 3
       PROVE  now' - lastLook <= 1 + 2 * (Spent' - Spent)
  <2>1. now' - lastLook <= 1 + 2 * ((Budget - budget') - (Budget - budget - Gap))
    BY ONLY <1>3, <1>4, <1>5, <1>6, <1>11, <1>13, Spending
  <2> QED BY ONLY <2>1, <1>9, <1>10
<1>14. ASSUME from' # now'
       PROVE  /\ from' = from /\ enable /\ suc <= Block /\ (suc > 0 => from # lastLook)
              /\ now' - lastLook <= 3
  <2>1. enable /\ ~(suc > 4) /\ ~(now' - lastLook > 3) /\ ~(suc > 0 /\ from = lastLook)
    BY <1>12, <1>14 DEF Block, Window
  <2>2. suc <= 4 /\ now' - lastLook <= 3 BY <2>1, <1>3, <1>4, <1>5, Little
  <2> QED BY <2>1, <2>2, <1>12, <1>14 DEF Block
<1> QED BY <1>3, <1>4, <1>9, <1>10, <1>12, <1>13, <1>14

\* A look that finds nothing to do is in no whole window.
LEMMA LookFinds ==
  ASSUME NEW u \in Int, NEW t \in Int, t <= u, u <= t + 2, Due(t)
  PROVE  Recognised(u) # {}
<1>1. PICK i \in DOMAIN table : WholeWindow(table[i], t) BY DEF Due
<1>2. u - t \in 0 .. Window - 1 /\ t + (u - t) = u BY DEF Window
<1>3. Matches(table[i], u) /\ Past(table[i], u) = u - t BY <1>1, <1>2 DEF WholeWindow
<1> QED BY <1>2, <1>3 DEF Recognised

\* The kinds of looks: one that asks for a time, one that finds nothing, one
\* that ignores all.
LEMMA LookKinds ==
  ASSUME IInv, Look
  PROVE  /\ asked \subseteq asked'
         /\ table' = table /\ enable' = enable
         /\ \/ suc' = Block /\ \E a \in asked' : a \in Int /\ a <= now' /\ a >= now' - 2
            \/ suc' = 0 /\ suc = 0 /\ Recognised(now') = {}
            \/ suc \in 1 .. Width - 1 /\ suc' = suc - 1
            \/ ~enable
<1>1. Numbers BY DEF IInv
<1>2. table' = table /\ enable' = enable BY DEF Look
<1>3. now' \in Int BY <1>1, AdvanceNumbers DEF Look
<1>4. CASE LookScheduled
  <2>1. PICK q \in 0 .. Window - 1 : asked' = asked \cup {now' - q}
    BY <1>4 DEF LookScheduled
  <2>2. now' - q \in Int /\ now' - q <= now' /\ now' - q >= now' - 2
    <3>1. q \in 0 .. 2 BY <2>1 DEF Window
    <3> QED BY <3>1, <1>3, Little
  <2>3. now' - q \in asked' BY <2>1
  <2>4. suc' = Block BY <1>4 DEF LookScheduled
  <2> QED BY <2>1, <2>2, <2>3, <2>4, <1>2
<1>5. CASE LookRetry \/ LookNothing
  BY <1>2, <1>5 DEF LookRetry, LookNothing
<1>6. CASE LookIgnored
  <2>1. asked' = asked /\ suc' = Ignore(suc) /\ (~enable \/ suc > 0) BY <1>6 DEF LookIgnored
  <2>2. suc \in 0 .. 255 BY <1>1 DEF Numbers, Width
  <2>3. CASE suc > 0
    <3>1. suc \in 1 .. 255 /\ (suc - 1) % 256 = suc - 1 BY <2>2, <2>3
    <3> QED BY <3>1, <2>1, <1>2 DEF Ignore, Width
  <2>4. CASE ~enable BY <2>4, <2>1, <1>2
  <2> QED BY <2>1, <2>3, <2>4
<1> QED BY <1>4, <1>5, <1>6 DEF Look

\* What holds of a history that has just begun.
LEMMA Anew == from \in Int /\ from = lastLook => NInv
BY DEF NInv, Recent, Seen, Covered

\* A later budget allows more.
LEMMA Weaker ==
  ASSUME Numbers, NInv, Spent \in Int, Spent' \in Int, Spent <= Spent',
         UNCHANGED <<suc, from, lastLook, asked, table, enable>>
  PROVE  NInv'
<1>1. lastLook \in Int /\ suc \in Int /\ asked \subseteq Int BY DEF Numbers, Width
<1>2. ASSUME NEW k \in Int, NEW a \in asked, a >= k - 2 * Spent
      PROVE  a >= k - 2 * Spent'
  <2>1. a \in Int BY <1>1
  <2> QED BY <1>2, <2>1, Bounds
<1>3. Recent'
  <2> SUFFICES ASSUME suc \in 1 .. Block, from # lastLook
               PROVE  \E a \in asked : a >= lastLook - 2 - (Block - suc) - 2 * Spent'
    BY DEF Recent
  <2>1. PICK a \in asked : a >= lastLook - 2 - (Block - suc) - 2 * Spent BY DEF NInv, Recent
  <2>2. lastLook - 2 - (Block - suc) \in Int BY <1>1 DEF Block
  <2> QED BY <2>1, <2>2, <1>2
<1>4. Seen'
  <2> SUFFICES ASSUME enable, NEW t \in Int, from < t, t <= lastLook, lastLook <= t + 2, Due(t)
               PROVE  \E a \in asked : a <= t + 4 /\ a >= lastLook - 6 - 2 * Spent'
    BY DEF Seen, Due, WholeWindow, Matches, Past, Week
  <2>1. PICK a \in asked : a <= t + 4 /\ a >= lastLook - 6 - 2 * Spent BY DEF NInv, Seen
  <2>2. lastLook - 6 \in Int BY <1>1
  <2> QED BY <2>1, <2>2, <1>2
<1>5. Covered'
  BY DEF NInv, Covered, Due
<1> QED BY <1>3, <1>4, <1>5 DEF NInv

LEMMA SpentFacts ==
  ASSUME Numbers
  PROVE  Spent \in Int /\ Spent <= Budget /\ Gap \in 0 .. 1 /\ Budget \in Nat
<1>1. budget \in Int /\ 0 <= budget /\ Budget \in Nat BY StartsAssumption DEF Numbers
<1>2. Gap \in 0 .. 1 BY DEF Gap
<1>3. \A c, b \in Int, g \in 0 .. 1 : 0 <= b => c - b - g \in Int /\ c - b - g <= c
  OBVIOUS
<1> QED BY <1>1, <1>2, <1>3 DEF Spent

\* The arithmetic: from look l to look m, with s and then r spent, and a time
\* a that was asked for; k looks ago; a window at t.
LEMMA StaysRecent ==
  ASSUME NEW l \in Int, NEW m \in Int, NEW s \in Int, NEW r \in Int, NEW a \in Int, NEW k \in Int,
         m - l <= 1 + 2 * (r - s), a >= l - 2 - k - 2 * s
  PROVE  a >= m - 2 - (k + 1) - 2 * r
OBVIOUS

LEMMA StaysNear ==
  ASSUME NEW m \in Int, NEW r \in Int, NEW a \in Int, NEW k \in Int,
         k <= 4, a >= m - 2 - k - 2 * r
  PROVE  a >= m - 6 - 2 * r
OBVIOUS

LEMMA WasNear ==
  ASSUME NEW l \in Int, NEW m \in Int, NEW s \in Int, NEW r \in Int, NEW a \in Int, NEW t \in Int,
         NEW c \in Nat, r <= c,
         m - l <= 1 + 2 * (r - s), t + 3 <= m, a >= l - 6 - 2 * s, a <= t + 4
  PROVE  a - t \in -(4 + 2 * c) .. 4 + 2 * c
<1>1. a - t \in Int /\ a - t <= 4 + 2 * c /\ -(4 + 2 * c) \in Int /\ 4 + 2 * c \in Int
  OBVIOUS
<1>2. l >= m - 1 - 2 * (r - s) OBVIOUS
<1>3. a - t >= -(4 + 2 * c) BY <1>2
<1> QED BY <1>1, <1>3

LEMMA LookNInv == IInv /\ IInv' /\ NInv /\ Look => NInv'
<1> SUFFICES ASSUME IInv, IInv', NInv, Look PROVE NInv'
  OBVIOUS
<1>1. Numbers /\ Numbers' /\ Spaced' BY DEF IInv
<1>2. /\ now' \in Int /\ lastLook' = now' /\ Spent' \in Int /\ Spent' <= Budget
      /\ lastLook \in Int /\ Spent \in Int /\ from \in Int /\ from' \in {from, now'}
  BY LookMoves
<1>3. CASE from' = now'
  <2>1. from' \in Int /\ from' = lastLook' BY <1>2, <1>3
  <2> QED BY <2>1 DEF NInv, Recent, Seen, Covered
<1>4. CASE from' # now'
  <2>1. /\ from' = from /\ enable /\ suc <= Block /\ (suc > 0 => from # lastLook)
        /\ now' - lastLook <= 3 /\ now' - lastLook <= 1 + 2 * (Spent' - Spent)
    BY <1>4, LookMoves
  <2>2. asked \subseteq asked' /\ table' = table /\ asked \subseteq Int /\ asked' \subseteq Int
    BY <1>1, LookKinds DEF Numbers
  <2>3. suc \in Int /\ suc' \in Int BY <1>1 DEF Numbers, Width
  <2>4. 0 <= Spent'
    <3>1. Gap' = 0
      BY <1>2 DEF Look, LookScheduled, LookRetry, LookNothing, LookIgnored, Gap
    <3>2. Spent' = Budget - budget' - 0 /\ Budget \in Nat /\ budget' \in 0 .. Budget
      BY <3>1, <1>1, StartsAssumption DEF Spent, Numbers
    <3>3. Spent' \in Nat BY <3>2, Little
    <3> QED BY <3>3
  <2>5. \A a \in asked' : a <= now' + 2
    <3> SUFFICES ASSUME NEW a \in asked' PROVE a <= now' + 2
      OBVIOUS
    <3>1. Looks' \in Nat
      <4>1. suc' \in 0 .. 255 BY <1>1 DEF Numbers, Width
      <4>2. Looks' = IF suc' <= 4 THEN 4 - suc' ELSE 4 BY DEF Looks, Block
      <4> QED BY <4>1, <4>2, Little
    <3>2. a \in Int /\ now' - a >= Looks' - 2 BY <1>1, <2>2 DEF Spaced
    <3> QED BY <3>1, <3>2, <1>2, Bounds
  <2>6. Recent' /\ Seen'
    <3>1. CASE suc' = Block /\ \E a \in asked' : a \in Int /\ a <= now' /\ a >= now' - 2
      <4>1. PICK a \in asked' : a \in Int /\ a <= now' /\ a >= now' - 2 BY <3>1
      <4>2. a >= now' - 2 - (Block - Block) - 2 * Spent' /\ a >= now' - 6 - 2 * Spent'
        BY <4>1, <2>4, <1>2, Bounds DEF Block
      <4>3. Recent' BY <3>1, <4>2, <1>2 DEF Recent
      <4>4. Seen'
        <5> SUFFICES ASSUME NEW t \in Int, now' <= t + 2
                     PROVE  \E b \in asked' : b <= t + 4 /\ b >= now' - 6 - 2 * Spent'
          BY <1>2 DEF Seen
        <5>1. a <= t + 4 BY <4>1, <1>2
        <5> QED BY <4>2, <5>1
      <4> QED BY <4>3, <4>4
    <3>2. CASE suc' = 0 /\ Recognised(now') = {}
      <4>1. Recent' BY <3>2 DEF Recent
      <4>2. Seen'
        <5> SUFFICES ASSUME NEW t \in Int, t <= now', now' <= t + 2, Due(t)' PROVE FALSE
          BY <1>2 DEF Seen
        <5>1. Due(t) BY <2>2 DEF Due
        <5> QED BY <5>1, <3>2, <1>2, LookFinds
      <4> QED BY <4>1, <4>2
    <3>3. CASE suc \in 1 .. Width - 1 /\ suc' = suc - 1
      <4>1. suc > 0 /\ suc \in 1 .. Block /\ from # lastLook
        BY <3>3, <2>1, <2>3 DEF Width, Block
      <4>2. PICK a \in asked : a >= lastLook - 2 - (Block - suc) - 2 * Spent
        BY <4>1 DEF NInv, Recent
      <4>3. a \in Int /\ a \in asked' /\ Block - suc \in Int BY <2>2, <2>3 DEF Block
      <4>4. a >= now' - 2 - ((Block - suc) + 1) - 2 * Spent'
        BY <1>2, <2>1, <4>2, <4>3, StaysRecent
      <4>5. Block - suc + 1 = Block - suc' /\ Block - suc + 1 <= 4
        BY <3>3, <4>1, <2>3 DEF Block
      <4>6. Recent' BY <4>3, <4>4, <4>5, <1>2 DEF Recent
      <4>7. a >= now' - 6 - 2 * Spent'
        <5>1. (Block - suc) + 1 \in Int /\ (Block - suc) + 1 <= 4 BY <2>3, <4>5 DEF Block
        <5> QED BY ONLY <5>1, <1>2, <4>3, <4>4, StaysNear
      <4>8. Seen'
        <5> SUFFICES ASSUME NEW t \in Int, now' <= t + 2
                     PROVE  \E b \in asked' : b <= t + 4 /\ b >= now' - 6 - 2 * Spent'
          BY <1>2 DEF Seen
        <5>1. a <= t + 4 BY <4>3, <2>5, <1>2, Bounds
        <5> QED BY <4>3, <4>7, <5>1
      <4> QED BY <4>6, <4>8
    <3> QED BY <3>1, <3>2, <3>3, <2>1, LookKinds
  <2>7. Covered'
    <3> SUFFICES ASSUME NEW t \in Int, from' < t, t + 3 <= lastLook', Due(t)'
                 PROVE  \E a \in asked' : a - t \in -Near .. Near
      BY DEF Covered, Near
    <3>1. Due(t) /\ from < t /\ t + 3 <= now' BY <1>2, <2>1, <2>2 DEF Due
    <3>2. CASE t + 3 <= lastLook
      BY <3>1, <3>2, <2>1, <2>2 DEF NInv, Covered
    <3>3. CASE ~(t + 3 <= lastLook)
      <4>1. t <= lastLook /\ lastLook <= t + 2
        BY <3>1, <3>3, <1>2, <2>1, Bounds
      <4>2. PICK a \in asked : a <= t + 4 /\ a >= lastLook - 6 - 2 * Spent
        BY <3>1, <4>1, <2>1 DEF NInv, Seen
      <4>3. a \in Int /\ a \in asked' /\ Budget \in Nat BY <2>2, StartsAssumption
      <4>4. a - t \in -(4 + 2 * Budget) .. 4 + 2 * Budget
        BY <1>2, <2>1, <3>1, <4>2, <4>3, WasNear
      <4>5. Near = 4 + 2 * Budget BY StartsAssumption DEF Near, Block, Window
      <4> QED BY <4>3, <4>4, <4>5
    <3> QED BY <3>2, <3>3
  <2> QED BY <2>6, <2>7 DEF NInv
<1> QED BY <1>2, <1>3, <1>4

LEMMA StepNInv == IInv /\ NInv /\ [Next]_vars => NInv'
<1> SUFFICES ASSUME IInv, NInv, [Next]_vars PROVE NInv'
  OBVIOUS
<1>1. IInv' BY StepIInv
<1>2. Numbers /\ Numbers' BY <1>1 DEF IInv
<1>3. /\ Spent \in Int /\ Gap \in 0 .. 1 /\ Spent' \in Int /\ Gap' \in 0 .. 1
      /\ budget \in Int /\ budget' \in Int /\ Budget \in Int
      /\ Spent = Budget - budget - Gap /\ Spent' = Budget - budget' - Gap'
  <2>1. Spent \in Int /\ Gap \in 0 .. 1 BY <1>2, SpentFacts
  <2>2. Spent' \in Int /\ Gap' \in 0 .. 1
    <3>1. Gap' \in 0 .. 1 BY DEF Gap
    <3>2. budget' \in Int /\ Budget \in Int BY <1>2, StartsAssumption DEF Numbers
    <3> QED BY <3>1, <3>2 DEF Spent
  <2> QED BY <2>1, <2>2, <1>2, StartsAssumption DEF Spent, Numbers
<1>4. \A c, b, d \in Int, g, h \in 0 .. 1 :
          (d = b /\ h <= g) \/ d = b - 1 => c - b - g <= c - d - h
  OBVIOUS
<1>5. CASE Look BY <1>1, <1>5, LookNInv
<1>6. CASE Post \/ AUTO_control \/ UNCHANGED vars
  <2>1. UNCHANGED <<suc, from, lastLook, asked, table, enable, now, budget>> /\ Gap' = Gap
    BY <1>6 DEF Post, AUTO_control, AutoTake, AutoDrop, AutoBegin, AutoEnd, vars, clock,
                schedule, looks, Gap
  <2> QED BY <2>1, <1>2, <1>3, <1>4, Weaker
<1>7. CASE Pause
  <2>1. UNCHANGED <<suc, from, lastLook, asked, table, enable>> /\ budget' = budget - 1
    BY <1>7 DEF Pause, Spend, schedule, looks
  <2> QED BY <2>1, <1>2, <1>3, <1>4, Weaker
<1>8. CASE Paused
  <2>1. /\ UNCHANGED <<suc, from, lastLook, asked, table, enable>>
        /\ budget' = budget \/ budget' = budget - 1
        /\ Gap = 1 /\ Gap' = 1
    BY <1>8 DEF Paused, Advance, Spend, schedule, looks, Gap
  <2>2. Gap' <= Gap BY <2>1
  <2>3. Spent <= Spent' BY <2>1, <2>2, <1>3, <1>4
  <2> QED BY <2>1, <2>3, <1>2, <1>3, Weaker
<1>9. CASE Resume
  <2>1. CASE table' = table /\ enable' = enable
    <3>1. UNCHANGED <<suc, from, lastLook, asked, table, enable>> /\ budget' = budget /\ Gap = 1
      BY <1>9, <2>1 DEF Resume, looks, Gap
    <3>2. Gap' <= Gap BY <3>1, <1>3
    <3> QED BY <3>1, <3>2, <1>2, <1>3, <1>4, Weaker
  <2>2. CASE ~(table' = table /\ enable' = enable)
    <3>1. from' = lastLook' /\ from' \in Int BY <1>2, <1>9, <2>2 DEF Resume, Numbers
    <3> QED BY <3>1 DEF NInv, Recent, Seen, Covered
  <2> QED BY <2>1, <2>2
<1> QED BY <1>5, <1>6, <1>7, <1>8, <1>9 DEF Next

LEMMA SpecNInv == Spec => []NInv
<1>1. Init => NInv
  <2> SUFFICES ASSUME Init PROVE NInv
    OBVIOUS
  <2>1. from \in Int /\ from = lastLook BY StartsAssumption DEF Init
  <2> QED BY <2>1, Anew
<1> QED BY <1>1, StepNInv, SpecIInv, PTL DEF Spec

-----------------------------------------------------------------------------
(* The theorems.                                                           *)

\* Suc stays a byte, the timer and the flags are well typed.
THEOREM ScheduleTypeCorrect == Spec => []TypeOK
<1>1. IInv => TypeOK BY TypeParts DEF IInv
<1> QED BY <1>1, SpecIInv, PTL

\* However often the clock is corrected and the thread paused, no time of the
\* schedule is downloaded twice.
THEOREM NoTimeTwice == Spec => AskedOnce
<1>1. IInv /\ [Next]_vars => [suc = 0 /\ suc' = Block => asked' # asked]_vars
  <2> SUFFICES ASSUME IInv, Next, suc = 0, suc' = Block PROVE asked' # asked
    BY DEF vars, clock, schedule, Block
  <2>a. Numbers /\ Spaced BY DEF IInv
  <2>1. Look
    BY DEF Next, AUTO_control, Post, Pause, Paused, Resume, AutoTake, AutoDrop, AutoBegin, AutoEnd,
           schedule, Block
  <2>2. LookScheduled
    BY <2>1 DEF Look, LookRetry, LookNothing, LookIgnored, Ignore, Block, Width
  <2>3. PICK p \in 0 .. Window - 1 : asked' = asked \cup {now' - p}
    BY <2>2 DEF LookScheduled
  <2>4. now' - p \notin asked
    BY <2>a, <2>1, <2>3, NewTime DEF Look
  <2> QED BY <2>3, <2>4
<1> QED BY <1>1, SpecIInv, PTL DEF Spec, AskedOnce

\* There is one retry at the most between two scheduled downloads.
THEOREM OneRetry == Spec => []RetriedOnce
<1>1. IInv => RetriedOnce BY DEF IInv, TimerOff, RetriedOnce
<1> QED BY <1>1, SpecIInv, PTL

\* A download that runs for a scheduled time alone, and was not asked for while
\* another was under way, reads all loggers: nothing is left in Download_ReTry
\* (event_thread_entry.c 335, auto_thread_entry.c 3672).
THEOREM ScheduleIsFull == Spec => []FullDownload
<1>1. IInv => FullDownload BY DEF IInv
<1> QED BY <1>1, SpecIInv, PTL

\* A retry follows a download that did not finish and is over.
THEOREM RetryHasReason == Spec => RetryMeansFailure
<1>1. IInv /\ [Next]_vars => [retries' > retries /\ ~mixed => failed /\ job = "idle"]_vars
  <2> SUFFICES ASSUME IInv, Next, retries' > retries, ~mixed PROVE failed /\ job = "idle"
    BY DEF vars, story
  <2>a. Numbers /\ OneDownload BY DEF IInv
  <2>1. Look
    BY <2>a DEF Next, AUTO_control, Post, Pause, Paused, Resume, AutoTake, AutoDrop, AutoBegin, AutoEnd,
                story, Numbers
  <2>2. LookRetry
    BY <2>1, <2>a DEF Look, LookScheduled, LookNothing, LookIgnored, Numbers
  <2> QED BY <2>2, <2>a DEF LookRetry, Retry, OneDownload, Numbers
<1> QED BY <1>1, SpecIInv, PTL DEF Spec, RetryMeansFailure

\* No time of the schedule whose window is whole is lost while the thread
\* looks every minute, whatever pauses and corrections the budget allows.
THEOREM NoTimeSkipped == Spec => []NoneSkipped
<1>1. NInv /\ IInv => NoneSkipped
  <2> SUFFICES ASSUME NInv, Numbers, enable, NEW t \in from + 1 .. lastLook - 3,
                      NEW i \in DOMAIN table, WholeWindow(table[i], t)
               PROVE  \E a \in asked : a - t \in -Near .. Near
    BY DEF NoneSkipped, Window, IInv
  <2>1. t \in Int /\ from < t /\ t + 3 <= lastLook BY DEF Numbers
  <2>2. Due(t) BY DEF Due
  <2> QED BY <2>1, <2>2 DEF NInv, Covered
<1> QED BY <1>1, SpecNInv, SpecIInv, PTL
=============================================================================
