--------------------------- MODULE SettingsStore ---------------------------
(***************************************************************************)
(* The settings of the unit, my_config, and the two copies of it in serial *)
(* flash: rtr500bw/src/my_src/Base.c and serial_flash_copy of Sfmem.c.     *)
(*                                                                         *)
(* Flash is erased by the sector and written by the page, so for most of a *)
(* second a copy is neither old nor new: a step here is the beginning or   *)
(* the end of an erase or of a write, and the power may fail at each.  A   *)
(* command that sets something changes my_config first; then it saves it,  *)
(* or, when a parameter was refused, reads the copies to undo the change.  *)
(* Both wait 100 ms for mutex_sfmem, and go on without having done         *)
(* anything when another of its users still holds it.                      *)
(*                                                                         *)
(* Flash commands do not fail here, the CRC of an area that was read is    *)
(* computed with the read, and RegCnt, which some commands count in        *)
(* my_config without saving it, is not among the settings.                 *)
(*                                                                         *)
(* After its read the start puts a usual value for an MTU or an Interval   *)
(* out of range into my_config, which it does not save: the settings of a  *)
(* unit that found its flash erased have 0xFF there.                       *)
(***************************************************************************)
EXTENDS Naturals

CONSTANTS Field, Value,
          Legal,        \* Legal[f]: the values in the range of field f
          Usual,        \* Usual[f]: what the start puts for one out of it
          Factory,      \* the settings that alter_settings_default leaves
          Initial,      \* those of init_factory_default
          Blank, Torn,  \* an area with every byte 0xFF; one that fails its CRC
          None,
          MaxStops      \* bound on the power failures

Settings == [Field -> Value]

ASSUME RangeAssumption == /\ Legal \in [Field -> SUBSET Value]
                          /\ Usual \in [Field -> Value]
ASSUME FactoryAssumption == Factory \in Settings /\ Initial \in Settings
ASSUME MarksAssumption == /\ {Blank, Torn, None} \cap Settings = {}
                          /\ Blank # Torn
                          /\ None \notin {"cmd", "system", "other"}
ASSUME StopsAssumption == MaxStops \in Nat

Thread == {"cmd", "system"}     \* the two that call the functions of Base.c
Area == {"main", "backup"}      \* SFM_CONFIG_START, SFM_CONFIG_START_B
OtherArea(a) == IF a = "main" THEN "backup" ELSE "main"

VARIABLES
    ram,        \* my_config
    crc,        \* my_config.crc: the settings it was computed from
    copy,       \* copy[a]: what area a holds
    mutex,      \* the owner of mutex_sfmem, or None
    pc,         \* pc[t]: where t is
    job,        \* what the owner is writing flash for
    target,     \* the area it writes
    missed,     \* a read or rewrite got no mutex since my_config was last
                \* written to flash or read from it
    stops

vars == <<ram, crc, copy, mutex, pc, job, target, missed, stops>>

Contents == Settings \cup {Blank, Torn}
Valid(c) == c \in Settings
AllGood == \A a \in Area : Valid(copy[a])
BothBad == \A a \in Area : ~Valid(copy[a])
SomeBlank == \E a \in Area : copy[a] = Blank

Writing == {"erase", "erasing", "program", "programming"}
Holding == Writing \cup {"readMain", "readBackup", "reread"}
Pc == Holding \cup {"off", "idle", "default", "rewrite", "rewriteDefault",
                    "read", "correct"}

\* Types; and wherever a command may run, my_config holds settings, never
\* what an erased or half-written area holds.
TypeOK ==
    /\ ram \in Contents /\ crc \in Contents
    /\ copy \in [Area -> Contents]
    /\ mutex \in Thread \cup {"other", None}
    /\ pc \in [Thread -> Pc]
    /\ job \in {"save", "default", "repair"} /\ target \in Area
    /\ missed \in BOOLEAN /\ stops \in 0 .. MaxStops
    /\ pc["cmd"] = "idle" => ram \in Settings

At(t, where) == pc[t] = where
Goto(t, where) == pc' = [pc EXCEPT ![t] = where]

\* The call returns: to the thread's loop, or to the start, which read the
\* settings before the others run.
BackToLoop(t) ==
    Goto(t, IF \E u \in Thread : At(u, "off") THEN "correct" ELSE "idle")

Take(t) == mutex = None /\ mutex' = t
Put == mutex' = None
Busy(t) == mutex \notin {None, t}

(* ---------------------------------------------------------------------- *)
(* rewrite_settings, and the erasing and writing of an area.               *)

RewriteStart(t) ==
    /\ pc[t] \in {"rewrite", "rewriteDefault"}
    /\ Take(t)
    /\ crc' = ram
    /\ job' = IF At(t, "rewrite") THEN "save" ELSE "default"
    /\ target' = "main"
    /\ Goto(t, "erase")
    /\ UNCHANGED <<ram, copy, missed, stops>>

RewriteBusy(t) ==
    /\ pc[t] \in {"rewrite", "rewriteDefault"}
    /\ Busy(t)
    /\ missed' = TRUE
    /\ IF At(t, "rewrite") THEN Goto(t, "read") ELSE BackToLoop(t)
    /\ UNCHANGED <<ram, crc, copy, mutex, job, target, stops>>

\* Fault: a block erase that reaches both areas.
EraseBeginBoth(t) ==
    /\ At(t, "erase")
    /\ copy' = [a \in Area |-> Torn]
    /\ Goto(t, "erasing")
    /\ UNCHANGED <<ram, crc, mutex, job, target, missed, stops>>

EraseBegin(t) ==
    /\ At(t, "erase")
    /\ copy' = [copy EXCEPT ![target] = IF @ = Blank THEN Blank ELSE Torn]
    /\ Goto(t, "erasing")
    /\ UNCHANGED <<ram, crc, mutex, job, target, missed, stops>>

EraseEnd(t) ==
    /\ At(t, "erasing")
    /\ copy' = [copy EXCEPT ![target] = Blank]
    /\ Goto(t, "program")
    /\ UNCHANGED <<ram, crc, mutex, job, target, missed, stops>>

ProgramBegin(t) ==
    /\ At(t, "program")
    /\ copy' = [copy EXCEPT ![target] = Torn]
    /\ Goto(t, "programming")
    /\ UNCHANGED <<ram, crc, mutex, job, target, missed, stops>>

\* A rewrite sends my_config page by page: when it no longer is what the CRC
\* was computed from, the area fails its CRC.
Written == IF job = "repair" THEN copy[OtherArea(target)]
           ELSE IF ram = crc THEN ram ELSE Torn

ProgramMain(t) ==
    /\ At(t, "programming") /\ job # "repair" /\ target = "main"
    /\ copy' = [copy EXCEPT ![target] = Written]
    /\ target' = "backup"
    /\ Goto(t, "erase")
    /\ UNCHANGED <<ram, crc, mutex, job, missed, stops>>

ProgramBackup(t) ==
    /\ At(t, "programming") /\ job # "repair" /\ target = "backup"
    /\ copy' = [copy EXCEPT ![target] = Written]
    /\ Put
    /\ missed' = FALSE
    /\ IF job = "save" THEN Goto(t, "read") ELSE BackToLoop(t)
    /\ UNCHANGED <<ram, crc, job, target, stops>>

ProgramRepair(t) ==
    /\ At(t, "programming") /\ job = "repair"
    /\ copy' = [copy EXCEPT ![target] = Written]
    /\ Goto(t, "reread")
    /\ UNCHANGED <<ram, crc, mutex, job, target, missed, stops>>

(* ---------------------------------------------------------------------- *)
(* read_my_settings: read_repair_settings.                                 *)

ReadStart(t) ==
    /\ At(t, "read")
    /\ Take(t)
    /\ Goto(t, "readMain")
    /\ UNCHANGED <<ram, crc, copy, job, target, missed, stops>>

ReadBusy(t) ==
    /\ At(t, "read")
    /\ Busy(t)
    /\ missed' = TRUE
    /\ BackToLoop(t)
    /\ UNCHANGED <<ram, crc, copy, mutex, job, target, stops>>

ReadMain(t) ==
    /\ At(t, "readMain")
    /\ ram' = copy["main"]
    /\ Goto(t, "readBackup")
    /\ UNCHANGED <<crc, copy, mutex, job, target, missed, stops>>

\* Fault: the bits of result are swapped.
ToRepairGood(a) == Valid(copy[a]) /\ ~Valid(copy[OtherArea(a)])

\* Which copy fails its CRC, when one does and the other does not.
ToRepair(a) == ~Valid(copy[a]) /\ Valid(copy[OtherArea(a)])

\* Fault: the goto after a good main copy, commented out in the code.
ReadKeepEarly(t) ==
    /\ At(t, "readBackup")
    /\ Valid(copy["main"])
    /\ Put
    /\ missed' = FALSE
    /\ BackToLoop(t)
    /\ UNCHANGED <<ram, crc, copy, job, target, stops>>

\* Fault: my_config keeps the main copy.
ReadKeepMain(t) ==
    /\ At(t, "readBackup")
    /\ AllGood \/ (BothBad /\ ~SomeBlank)
    /\ Put
    /\ missed' = FALSE
    /\ BackToLoop(t)
    /\ UNCHANGED <<ram, crc, copy, job, target, stops>>

\* Both copies are good, or nothing can be done: my_config keeps the backup.
ReadKeep(t) ==
    /\ At(t, "readBackup")
    /\ AllGood \/ (BothBad /\ ~SomeBlank)
    /\ ram' = copy["backup"]
    /\ Put
    /\ missed' = FALSE
    /\ BackToLoop(t)
    /\ UNCHANGED <<crc, copy, job, target, stops>>

ReadRepair(t) ==
    /\ At(t, "readBackup")
    /\ \E a \in Area : ToRepair(a) /\ target' = a
    /\ ram' = copy["backup"]
    /\ job' = "repair"
    /\ Goto(t, "erase")
    /\ UNCHANGED <<crc, copy, mutex, missed, stops>>

ReadBlank(t) ==
    /\ At(t, "readBackup")
    /\ BothBad /\ SomeBlank
    /\ ram' = copy["backup"]
    /\ Put
    /\ Goto(t, "default")
    /\ UNCHANGED <<crc, copy, job, target, missed, stops>>

\* Fault: my_config is not read again after a repair.
RereadNothing(t) ==
    /\ At(t, "reread")
    /\ Put
    /\ missed' = FALSE
    /\ BackToLoop(t)
    /\ UNCHANGED <<ram, crc, copy, job, target, stops>>

Reread(t) ==
    /\ At(t, "reread")
    /\ ram' = copy["main"]
    /\ Put
    /\ missed' = FALSE
    /\ BackToLoop(t)
    /\ UNCHANGED <<crc, copy, job, target, stops>>

\* alter_settings_default.
Default(t) ==
    /\ At(t, "default")
    /\ ram' = IF Busy(t) THEN ram ELSE Factory
    /\ Goto(t, "rewriteDefault")
    /\ UNCHANGED <<crc, copy, mutex, job, target, missed, stops>>

(* ---------------------------------------------------------------------- *)
(* The threads.                                                            *)

Correct(c) ==
    IF Valid(c) THEN [f \in Field |-> IF c[f] \in Legal[f] THEN c[f] ELSE Usual[f]]
                ELSE Torn

\* The start corrects my_config and lets the other threads run.
CorrectStart ==
    /\ At("system", "correct")
    /\ ram' = Correct(ram)
    /\ pc' = [t \in Thread |-> "idle"]
    /\ UNCHANGED <<crc, copy, mutex, job, target, missed, stops>>

Change(c, f, v) == IF Valid(c) THEN [c EXCEPT ![f] = v] ELSE Torn

\* A command has value v for field f; refused: another of its parameters is
\* wrong.
SetCommand(f, v, refused) ==
    /\ At("cmd", "idle")
    /\ ram' = IF v \in Legal[f] THEN Change(ram, f, v) ELSE ram
    /\ Goto("cmd", IF ram' # ram /\ ~refused THEN "rewrite" ELSE "read")
    /\ UNCHANGED <<crc, copy, mutex, job, target, missed, stops>>

\* The INIT command: init_factory_default, which does nothing when the mutex
\* stays busy.
FactoryCommand ==
    /\ At("cmd", "idle")
    /\ IF Busy("cmd") THEN UNCHANGED <<ram, pc>>
                      ELSE ram' = Initial /\ Goto("cmd", "rewriteDefault")
    /\ UNCHANGED <<crc, copy, mutex, job, target, missed, stops>>

\* Any other user of the serial flash, once the threads run.
OtherTakes ==
    /\ ~At("cmd", "off")
    /\ Take("other")
    /\ UNCHANGED <<ram, crc, copy, pc, job, target, missed, stops>>

OtherPuts ==
    /\ mutex = "other"
    /\ Put
    /\ UNCHANGED <<ram, crc, copy, pc, job, target, missed, stops>>

Boot == [t \in Thread |-> IF t = "system" THEN "read" ELSE "off"]

\* Power fails, and the unit starts again.
Stop ==
    /\ stops < MaxStops
    /\ stops' = stops + 1
    /\ ram' = Torn
    /\ crc' = Torn
    /\ Put
    /\ pc' = Boot
    /\ job' = "save"
    /\ target' = "main"
    /\ missed' = FALSE
    /\ UNCHANGED copy

\* A unit as made: erased flash, first start.
Init ==
    /\ ram = Torn
    /\ crc = Torn
    /\ copy = [a \in Area |-> Blank]
    /\ mutex = None
    /\ pc = Boot
    /\ job = "save"
    /\ target = "main"
    /\ missed = FALSE
    /\ stops = 0

Rewrite(t) ==
    \/ RewriteStart(t) \/ RewriteBusy(t)
    \/ EraseBegin(t) \/ EraseEnd(t) \/ ProgramBegin(t)
    \/ ProgramMain(t) \/ ProgramBackup(t) \/ ProgramRepair(t)

Read(t) ==
    \/ ReadStart(t) \/ ReadBusy(t) \/ ReadMain(t)
    \/ ReadKeep(t) \/ ReadRepair(t) \/ ReadBlank(t) \/ Reread(t)
    \/ Default(t)

Next ==
    \/ \E t \in Thread : Rewrite(t) \/ Read(t)
    \/ \E f \in Field, v \in Value, refused \in BOOLEAN : SetCommand(f, v, refused)
    \/ FactoryCommand \/ CorrectStart
    \/ OtherTakes \/ OtherPuts
    \/ Stop

Spec == Init /\ [][Next]_vars

\* The first start of a new firmware: seconds after the threads were let run,
\* system_thread puts the versions it finds into my_config and saves it.
VersionUpdate(f, v) ==
    /\ At("system", "idle")
    /\ ~Valid(ram) \/ ram[f] # v
    /\ ram' = Change(ram, f, v)
    /\ Goto("system", "rewrite")
    /\ UNCHANGED <<crc, copy, mutex, job, target, missed, stops>>

UpdateSpec ==
    Init /\ [][Next \/ \E f \in Field, v \in Value : VersionUpdate(f, v)]_vars

(* ---------------------------------------------------------------------- *)
(* Properties.                                                             *)

\* The settings the next start finds, as read_repair_settings chooses.
Saved == IF Valid(copy["backup"]) THEN copy["backup"]
         ELSE IF Valid(copy["main"]) THEN copy["main"] ELSE Factory

Rewriting == mutex \in Thread /\ pc[mutex] \in Writing /\ job # "repair"

Register == INSTANCE SettingsRegister
                WITH saved <- Saved, asked <- IF Rewriting THEN crc ELSE None

\* However often the power fails, a save is atomic, and one that returns has
\* been made: the two copies and their repair implement a register.
ImplementsRegister == Register!Spec

\* read_repair_settings never finds two bad copies of which neither is blank:
\* "this cannot happen if the backup algorithm works" (Base.c:144).
OneCopyGood == BothBad => SomeBlank

\* Whenever a command may run, both copies are good again: a failure during
\* the repair of a failure is repaired by the next start.
BothCopiesGood == At("cmd", "idle") => AllGood

\* Between commands my_config is what the next start would read, as it is or
\* as the start corrects it: a change that was refused, or not saved because
\* the mutex was busy, is forgotten and not saved by a later command; unless
\* the mutex was busy for the read as well.
RamIsSaved ==
    At("cmd", "idle") /\ ~missed => ram \in {Saved, Correct(Saved)}

(* ---------------------------------------------------------------------- *)
(* The inductive invariant of SettingsProofs, for Spec: only the thread    *)
(* that reads at the start and, after it, the command thread, save.        *)

Owner == \A t \in Thread : pc[t] \in Holding <=> mutex = t

\* The start, in which system_thread is alone.
BootInv ==
    IF At("cmd", "off")
    THEN /\ mutex # "other"
         /\ pc["system"] \in Holding \cup {"read", "default", "rewriteDefault", "correct"}
         /\ pc["system"] \in Writing => job # "save"
         /\ pc["system"] \notin Writing => ~BothBad \/ copy["backup"] = Blank
         /\ pc["system"] \in {"default", "rewriteDefault"} => BothBad
         /\ At("system", "rewriteDefault") => ram = Factory
         /\ At("system", "reread") => AllGood /\ copy["main"] = copy["backup"]
         /\ At("system", "correct") => AllGood /\ ram = Saved
    ELSE At("system", "idle")

\* After it, nothing is left to repair.
CmdInv ==
    ~At("cmd", "off") =>
        /\ ram \in Settings
        /\ ~At("cmd", "reread")
        /\ pc["cmd"] \in Writing => job # "repair"
        /\ pc["cmd"] \notin Writing => AllGood

\* One area is written while the other is good, or both were erased.
WriteInv ==
    \A t \in Thread : pc[t] \in Writing =>
        /\ ~At(t, "erase") \/ job = "repair" => ~Valid(copy[target])
        /\ job = "repair" => Valid(copy[OtherArea(target)])
        /\ job # "repair" => crc = ram /\ crc \in Settings
        /\ job # "repair" /\ target = "backup" => copy["main"] = crc
        /\ job # "repair" /\ target = "main" =>
               \/ Valid(copy["backup"])
               \/ copy["backup"] = Blank /\ ~Valid(copy["main"]) /\ crc = Factory

IInv == TypeOK /\ Owner /\ BootInv /\ CmdInv /\ WriteInv /\ RamIsSaved
=============================================================================
