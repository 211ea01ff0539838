------------------------------ MODULE LogRing ------------------------------
(***************************************************************************)
(* The user log of comp/comp_log.c: a ring of sectors in log_data, kept in *)
(* log_data.bin.  A sector can only be erased as a whole, so LOG_Write     *)
(* erases the next one just before it fills the last line of a sector, and *)
(* nothing else tells where the ring begins and ends: after a restart, and *)
(* before every ELOGS command, GetLogInfo finds it again by scanning.      *)
(*                                                                         *)
(* Threads append with PutLog.  One of them, the command thread, also runs *)
(* ELOGS: MODE=1 clears the log, MODE=0 sends it, over several commands    *)
(* when it is long.  mutex_sfmem excludes nobody in this port, because     *)
(* tx_mutex_get (comp/tdx.c) returns without locking: a step is one access *)
(* to shared state.  mutex_log only has the command thread for a user.     *)
(*                                                                         *)
(* Of the debug log, the second area of the same functions, this module    *)
(* has nothing.                                                            *)
(***************************************************************************)
EXTENDS Integers, FiniteSets

CONSTANTS Sectors,      \* MAX_SECTOR: 32
          Lines,        \* BLOCK, lines in a sector: 32
          Numbers,      \* log numbers, 0 .. Numbers - 1: 10000
          Thread, cmd,  \* those that log; the one that executes commands
          MaxPuts,      \* bound on the lines written
          MaxCrashes    \* bound on the restarts

ASSUME SectorsAssumption == Sectors \in Nat /\ Sectors >= 3
ASSUME LinesAssumption == Lines \in Nat /\ Lines >= 2
ASSUME NumbersAssumption == Numbers \in Nat \ {0} /\ Numbers < 65535
ASSUME CmdAssumption == cmd \in Thread
ASSUME BoundsAssumption == MaxPuts \in Nat /\ MaxCrashes \in Nat

VARIABLES
    logData,    \* log_data: the image in RAM
    logFile,    \* log_data.bin
    info,       \* LogInfo
    logLine,    \* LogLine: the line being written, one for all threads
    get,        \* LogGet: ELOGS's cursor
    pc,         \* pc[t]: where t is
    puts,       \* lines begun so far: numbers the lines for the properties
    done,       \* the lines whose PutLog returned, since the last clear
    sent,       \* the line this transfer sent last; 0: none
    crashes

log == <<logData, logFile>>
hist == <<puts, done, crashes>>
vars == <<logData, logFile, info, logLine, get, pc, puts, done, sent, crashes>>

Sector == 0 .. Sectors - 1
Slots == Sectors * Lines
Slot == 0 .. Slots - 1
SlotsOf(s) == s * Lines .. s * Lines + Lines - 1

MaxUInt16 == 65535
UInt16 == 0 .. MaxUInt16

\* An erased line: 0xFF in every byte.
Blank == [num |-> MaxUInt16, id |-> 0]
Line == [num : UInt16, id : Nat \ {0}]
Erased == [i \in Slot |-> Blank]

Info == [pStart : Slot, pWrite : Slot, count : UInt16, next : UInt16, first : UInt16]
NoInfo == [pStart |-> 0, pWrite |-> 0, count |-> 0, next |-> 0, first |-> 0]
NoSlot == 33554431      \* end_adr = -1, in lines

Pc == {"idle", "fill", "erase", "eraseStore", "copy", "store", "advance",
       "clearStore", "clearInfo", "read"}

TypeOK ==
    /\ logData \in [Slot -> Line \cup {Blank}]
    /\ logFile \in [Slot -> Line \cup {Blank}]
    /\ info \in Info
    /\ logLine \in Line \cup {Blank}
    /\ get \in [pRead : Slot, left : UInt16]
    /\ pc \in [Thread -> Pc]
    /\ puts \in Nat /\ sent \in Nat /\ crashes \in Nat
    /\ done \subseteq 1 .. puts

(* ---------------------------------------------------------------------- *)
(* GetLogInfo.                                                             *)

\* Fault: the scan looks for an empty sector only.
OpenEmptyOnly(img) == {s \in Sector : img[s * Lines] = Blank}

\* A sector whose first line is blank is taken for empty, one whose last
\* line is not blank for full.
Used(img) == {s \in Sector : img[s * Lines] # Blank}
Open(img) == {s \in Sector : \/ img[s * Lines] = Blank
                             \/ img[s * Lines + Lines - 1] = Blank}

\* The slot after the last line of sector s.
EndOf(img, s) ==
    IF img[s * Lines] = Blank THEN s * Lines
    ELSE 1 + CHOOSE i \in SlotsOf(s) :
                /\ img[i] # Blank
                /\ \A j \in SlotsOf(s) : j > i => img[j] = Blank

\* The first sector that is not full has the end of the ring.
WriteSector(img) == CHOOSE s \in Open(img) : \A r \in Open(img) : s <= r

After(i) == (i + 1) % Slots
Before(i) == (i + Slots - 1) % Slots
AfterSector(s) == ((s + 1) % Sectors) * Lines

\* The local FirstNumber is not 0.  It is the number of sector 0's first
\* line, of sector 1's if sector 0 is empty, and never set if both are.
Lapped(img) ==
    IF 0 \in Used(img) THEN {img[0].num # 0}
    ELSE IF 1 \in Used(img) THEN {img[Lines].num # 0}
    ELSE BOOLEAN

\* uint16_t arithmetic; 10000 is Numbers.
CountOf(next, first) ==
    (IF next >= first THEN next - first ELSE Numbers - (first - next)) % 65536

\* LogInfo as the scan of img leaves it.  The line before the end is read
\* for the next number (+ 1 in 16 bits, so a blank one gives 0).  With an
\* unlapped ring and an empty sector 0 the code reads below the log, fails
\* and takes what LogBuf still has: the last line of the last sector, which
\* is the line before the end too.
ScanResult(img, old, lapped) ==
    LET s == WriteSector(img)
        end == EndOf(img, s)
        next == (img[Before(end)].num + 1) % 65536
        start == IF lapped THEN AfterSector(s) ELSE 0
        first == IF lapped THEN img[start].num ELSE 0
    IN  IF Used(img) = {} THEN NoInfo
        ELSE IF Cardinality(Used(img)) = 1 /\ 0 \notin Used(img)
        THEN [old EXCEPT !.pStart = 0, !.first = 0, !.pWrite = NoSlot,
                         !.count = CountOf(old.next, 0)]
        ELSE IF Open(img) = {}
        THEN [old EXCEPT !.pStart = IF lapped THEN old.pStart ELSE 0,
                         !.first = img[0].num,
                         !.count = CountOf(old.next, img[0].num)]
        ELSE [pStart |-> start, pWrite |-> end, next |-> next,
              first |-> first, count |-> CountOf(next, first)]

\* With one used sector the ring is taken for unlapped whatever it holds.
GetLogInfo(img, old) ==
    {ScanResult(img, old, l) :
        l \in IF Cardinality(Used(img)) <= 1 THEN {FALSE} ELSE Lapped(img)}

(* ---------------------------------------------------------------------- *)
(* file_log_file_*: every change of log_data is followed by a store of the *)
(* whole file, every read is preceded by a load of it.                     *)

Set(img, slots, l) == [i \in Slot |-> IF i \in slots THEN l ELSE img[i]]

Store(t, from, to) ==
    /\ pc[t] = from
    /\ logFile' = logData
    /\ pc' = [pc EXCEPT ![t] = to]
    /\ UNCHANGED <<logData, info, logLine, get, hist, sent>>

(* ---------------------------------------------------------------------- *)
(* PutLog.                                                                 *)

\* LOG_Write fills in the line.
FillLine(t) ==
    /\ pc[t] \in {"idle", "fill"}
    /\ puts < MaxPuts
    /\ info.pWrite # NoSlot     \* bound: what is written there is no line
    /\ puts' = puts + 1
    /\ logLine' = [num |-> info.next, id |-> puts']
    /\ pc' = [pc EXCEPT ![t] = "erase"]
    /\ UNCHANGED <<log, info, get, done, crashes, sent>>

\* Fault: the sector of the line itself is erased, not the next one.
EraseHere(t) ==
    /\ pc[t] = "erase"
    /\ IF info.pWrite % Lines = 0
       THEN /\ logData' = Set(logData, SlotsOf(info.pWrite \div Lines), Blank)
            /\ pc' = [pc EXCEPT ![t] = "eraseStore"]
       ELSE /\ pc' = [pc EXCEPT ![t] = "copy"]
            /\ UNCHANGED logData
    /\ UNCHANGED <<logFile, info, logLine, get, hist, sent>>

\* Fault: the next sector is looked for without wrapping, and missed.
EraseUnwrapped(t) ==
    /\ pc[t] = "erase"
    /\ LET adr == info.pWrite + 1 IN
       IF adr % Lines = 0 /\ adr < Slots
       THEN /\ logData' = Set(logData, SlotsOf(adr \div Lines), Blank)
            /\ pc' = [pc EXCEPT ![t] = "eraseStore"]
       ELSE /\ pc' = [pc EXCEPT ![t] = "copy"]
            /\ UNCHANGED logData
    /\ UNCHANGED <<logFile, info, logLine, get, hist, sent>>

\* If the line after pWrite begins a sector, the sector is erased.
EraseAhead(t) ==
    /\ pc[t] = "erase"
    /\ LET adr == After(info.pWrite) IN
       IF adr % Lines = 0
       THEN /\ logData' = Set(logData, SlotsOf(adr \div Lines), Blank)
            /\ pc' = [pc EXCEPT ![t] = "eraseStore"]
       ELSE /\ pc' = [pc EXCEPT ![t] = "copy"]
            /\ UNCHANGED logData
    /\ UNCHANGED <<logFile, info, logLine, get, hist, sent>>

StoreErase(t) == Store(t, "eraseStore", "copy")

CopyLine(t) ==
    /\ pc[t] = "copy"
    /\ logData' = Set(logData, {info.pWrite}, logLine)
    /\ pc' = [pc EXCEPT ![t] = "store"]
    /\ UNCHANGED <<logFile, info, logLine, get, hist, sent>>

StoreLine(t) == Store(t, "store", "advance")

\* Fault: pWrite is not wrapped.
AdvanceNoWrap(t) ==
    /\ pc[t] = "advance"
    /\ info' = [info EXCEPT !.pWrite = info.pWrite + 1, !.next = info.next + 1]
    /\ pc' = [pc EXCEPT ![t] = "idle"]
    /\ done' = done \cup {logLine.id}
    /\ UNCHANGED <<log, logLine, get, puts, crashes, sent>>

\* Fault: the number is not counted up.
AdvanceSameNumber(t) ==
    /\ pc[t] = "advance"
    /\ info' = [info EXCEPT !.pWrite = After(info.pWrite)]
    /\ pc' = [pc EXCEPT ![t] = "idle"]
    /\ done' = done \cup {logLine.id}
    /\ UNCHANGED <<log, logLine, get, puts, crashes, sent>>

Advance(t) ==
    /\ pc[t] = "advance"
    /\ info' = [info EXCEPT !.pWrite = After(info.pWrite),
                            !.next = IF info.next + 1 >= Numbers THEN 0
                                     ELSE info.next + 1]
    /\ pc' = [pc EXCEPT ![t] = "idle"]
    /\ done' = done \cup {logLine.id}
    /\ UNCHANGED <<log, logLine, get, puts, crashes, sent>>

(* ---------------------------------------------------------------------- *)
(* ELOGS MODE=1: ResetLog, then PutLog("Log clear").                       *)

Clear ==
    /\ pc[cmd] = "idle"
    /\ puts < MaxPuts
    /\ logData' = Erased
    /\ pc' = [pc EXCEPT ![cmd] = "clearStore"]
    /\ UNCHANGED <<logFile, info, logLine, get, hist, sent>>

StoreClear == Store(cmd, "clearStore", "clearInfo")

\* The cursor is reset too: with Count 0 it has nothing to send.
ClearInfo ==
    /\ pc[cmd] = "clearInfo"
    /\ info' = NoInfo
    /\ get' = [pRead |-> 0, left |-> 0]
    /\ done' = {}
    /\ sent' = 0
    /\ pc' = [pc EXCEPT ![cmd] = "fill"]
    /\ UNCHANGED <<log, logLine, puts, crashes>>

(* ---------------------------------------------------------------------- *)
(* ELOGS MODE=0.                                                           *)

\* ACT=0: the scan (taken in one step; it begins by loading the file), then
\* the cursor is set to the whole log.
Dump ==
    /\ pc[cmd] = "idle"
    /\ logData' = logFile
    /\ info' \in GetLogInfo(logFile, info)
    /\ get' = [pRead |-> info'.pStart, left |-> info'.count]
    /\ sent' = 0
    /\ pc' = [pc EXCEPT ![cmd] = "read"]
    /\ UNCHANGED <<logFile, logLine, hist>>

\* ACT=1: the next part of the log.
DumpMore ==
    /\ pc[cmd] = "idle"
    /\ get.left > 0
    /\ pc' = [pc EXCEPT ![cmd] = "read"]
    /\ UNCHANGED <<log, info, logLine, get, hist, sent>>

\* GetLog sends one line.  How many make a full response is left open: after
\* any line the command may be over.
ReadLine ==
    /\ pc[cmd] = "read"
    /\ get.left > 0
    /\ logFile[get.pRead] # Blank
    /\ logData' = logFile
    /\ logLine' = logFile[get.pRead]
    /\ sent' = logFile[get.pRead].id
    /\ get' = [pRead |-> After(get.pRead), left |-> get.left - 1]
    /\ \E to \in {"read", "idle"} : pc' = [pc EXCEPT ![cmd] = to]
    /\ UNCHANGED <<logFile, info, hist>>

\* A blank line stops the transfer: its Size is more than 128.
ReadBlank ==
    /\ pc[cmd] = "read"
    /\ get.left > 0
    /\ logFile[get.pRead] = Blank
    /\ logData' = logFile
    /\ logLine' = Blank
    /\ pc' = [pc EXCEPT ![cmd] = "idle"]
    /\ UNCHANGED <<logFile, info, get, hist, sent>>

ReadEnd ==
    /\ pc[cmd] = "read"
    /\ get.left = 0
    /\ pc' = [pc EXCEPT ![cmd] = "idle"]
    /\ UNCHANGED <<log, info, logLine, get, hist, sent>>

(* ---------------------------------------------------------------------- *)

\* The program stops at any step and starts again: files_load_and_or_init
\* loads the image, comp_log_test scans it.
Restart ==
    /\ crashes < MaxCrashes
    /\ crashes' = crashes + 1
    /\ logData' = logFile
    /\ info' \in GetLogInfo(logFile, NoInfo)
    /\ logLine' = Blank
    /\ get' = [pRead |-> 0, left |-> 0]
    /\ pc' = [t \in Thread |-> "idle"]
    /\ done' = IF Used(logFile) = {} THEN {} ELSE done
    /\ sent' = 0
    /\ UNCHANGED <<logFile, puts>>

Init ==
    /\ logData = Erased /\ logFile = Erased
    /\ info = NoInfo
    /\ logLine = Blank
    /\ get = [pRead |-> 0, left |-> 0]
    /\ pc = [t \in Thread |-> "idle"]
    /\ puts = 0 /\ done = {} /\ sent = 0 /\ crashes = 0

PutLog(t) == \/ FillLine(t) \/ EraseAhead(t) \/ StoreErase(t)
             \/ CopyLine(t) \/ StoreLine(t) \/ Advance(t)
Elogs == \/ Clear \/ StoreClear \/ ClearInfo
         \/ Dump \/ DumpMore \/ ReadLine \/ ReadBlank \/ ReadEnd

Next == \/ \E t \in Thread : PutLog(t)
        \/ Elogs
        \/ Restart

Spec == Init /\ [][Next]_vars

(* ---------------------------------------------------------------------- *)
(* Properties.                                                             *)

Idle == \A t \in Thread : pc[t] = "idle"
Filled(img) == {i \in Slot : img[i] # Blank}
Ids(img) == {img[i].id : i \in Filled(img)}

\* The file is an AppendLog: a line leaves log_data.bin only because its
\* sector is erased, and then every older line has left it (or leaves with
\* it); a line stored is newer than all.
A == INSTANCE AppendLog WITH held <- Ids(logFile)
ImplementsAppendLog == A!Spec

\* Erasing ahead costs a sector and a restart in the middle of a PutLog the
\* line itself, never more: of the lines whose PutLog returned, the file has
\* the latest.
KeepsRecent ==
    Idle => \A i \in done : i > puts - (Sectors - 1) * Lines => i \in Ids(logFile)

\* ELOGS sends lines in the order they were logged, even when lines are
\* logged, and sectors erased, between its commands.
ReadsInOrder == [][sent' = 0 \/ sent' > sent]_<<sent, get.left>>

\* Before the first stop, and before the numbers wrap.
FirstNumbers == Idle /\ crashes = 0 /\ puts < Numbers

\* The scan of GetLogInfo finds what the writer knew: the slot of the next
\* line, its number, the oldest line, and how many lines there are.  (After a
\* stop a blank slot may be left; numbers wrap in LOG_Write only.)
ScanIsExact ==
    FirstNumbers =>
        \A r \in GetLogInfo(logFile, NoInfo) :
            /\ r.pWrite = info.pWrite /\ r.next = info.next
            /\ r.count = Cardinality(Filled(logFile))
            /\ \A i \in Filled(logFile) : logFile[r.pStart].id <= logFile[i].id

\* The number of the next line is that of the newest line and one.  (Not so
\* after a stop between the erasing of sector 0 and the last line of the ring:
\* GetLogInfo, comp_log.c 1120, then starts from 0.)
NumbersContinue ==
    FirstNumbers =>
        \A i \in Filled(logFile) :
            (\A j \in Filled(logFile) : logFile[j].id <= logFile[i].id)
                => info.next = logFile[i].num + 1
=============================================================================
