--------------------------- MODULE SettingsProofs ---------------------------
(***************************************************************************)
(* Theorems about the settings in flash, for every set of fields and       *)
(* values and any number of power failures, with other users that keep the *)
(* mutex as long as they like, and one thread that changes settings.       *)
(***************************************************************************)
EXTENDS SettingsStore, TLAPS

LEMMA Marks == /\ Blank \notin Settings /\ Torn \notin Settings /\ None \notin Settings
               /\ Blank # Torn /\ None \notin {"cmd", "system", "other"}
               /\ Factory \in Settings /\ Initial \in Settings
BY FactoryAssumption, MarksAssumption

\* A command puts a value in a field of settings, and they remain settings.
LEMMA ChangeSettings ==
    ASSUME NEW c \in Settings, NEW f \in Field, NEW v \in Value
    PROVE Change(c, f, v) \in Settings
BY DEF Change, Valid, Settings

\* So do corrected ones.
LEMMA CorrectSettings ==
    ASSUME NEW c \in Settings PROVE Correct(c) \in Settings
BY RangeAssumption DEF Correct, Valid, Settings

LEMMA Areas == /\ Area = {"main", "backup"}
               /\ OtherArea("main") = "backup" /\ OtherArea("backup") = "main"
BY DEF Area, OtherArea

LEMMA InitIInv == Init => IInv
<1> SUFFICES ASSUME Init PROVE IInv
  OBVIOUS
<1> USE Marks, StopsAssumption DEF Init, Boot, Thread, At, Holding, Writing
<1>1. TypeOK
  <2>1. pc \in [Thread -> Pc] BY DEF Pc
  <2>2. copy \in [Area -> Contents] BY DEF Contents
  <2>3. stops \in 0 .. MaxStops OBVIOUS
  <2> QED BY <2>1, <2>2, <2>3 DEF TypeOK, Contents, Area
<1>2. Owner BY DEF Owner
<1>3. BootInv BY DEF BootInv, BothBad, Valid, Area
<1>4. CmdInv /\ WriteInv /\ RamIsSaved BY DEF CmdInv, WriteInv, RamIsSaved
<1> QED BY <1>1, <1>2, <1>3, <1>4 DEF IInv

-----------------------------------------------------------------------------
(* Each action keeps the invariant.                                        *)

LEMMA StutterIInv == ASSUME IInv, UNCHANGED vars PROVE IInv'
BY DEF IInv, vars, TypeOK, Owner, BootInv, CmdInv, WriteInv, RamIsSaved, Saved,
       AllGood, BothBad, Valid, Correct, At, Thread, OtherArea

LEMMA RewriteStartIInv ==
    ASSUME IInv, NEW t \in Thread, RewriteStart(t) PROVE IInv'
<1> USE Marks, Areas DEF RewriteStart, At, Goto, Thread, Holding, Writing, Take
<1>1. TypeOK' BY DEF IInv, TypeOK, Contents, Pc
<1>2. Owner' BY DEF IInv, TypeOK, Owner
<1>3. BootInv' BY DEF IInv, TypeOK, Owner, BootInv, CmdInv, WriteInv, BothBad, AllGood, Valid
<1>4. CmdInv' BY DEF IInv, TypeOK, Owner, BootInv, CmdInv, WriteInv, AllGood, Valid
<1>5. WriteInv' BY DEF IInv, TypeOK, Owner, BootInv, CmdInv, WriteInv, Valid, BothBad, AllGood
<1>6. RamIsSaved' BY DEF IInv, TypeOK, Owner, BootInv, CmdInv, WriteInv, RamIsSaved, Saved, AllGood, Valid, Correct
<1> QED BY <1>1, <1>2, <1>3, <1>4, <1>5, <1>6 DEF IInv

LEMMA RewriteBusyIInv ==
    ASSUME IInv, NEW t \in Thread, RewriteBusy(t) PROVE IInv'
<1> USE Marks, Areas DEF RewriteBusy, At, Goto, Thread, Holding, Writing, Busy, BackToLoop
<1>1. TypeOK' BY DEF IInv, TypeOK, Contents, Pc, Owner, BootInv, CmdInv, WriteInv, AllGood, Valid
<1>2. Owner' BY DEF IInv, TypeOK, Owner
<1>3. BootInv' BY DEF IInv, TypeOK, Owner, BootInv, CmdInv, WriteInv, BothBad, AllGood, Valid
<1>4. CmdInv' BY DEF IInv, TypeOK, Owner, BootInv, CmdInv, WriteInv, AllGood, Valid
<1>5. WriteInv' BY DEF IInv, TypeOK, Owner, BootInv, CmdInv, WriteInv, Valid, BothBad
<1>6. RamIsSaved' BY DEF IInv, TypeOK, Owner, BootInv, CmdInv, WriteInv, RamIsSaved, Saved, AllGood, Valid, Correct
<1> QED BY <1>1, <1>2, <1>3, <1>4, <1>5, <1>6 DEF IInv

LEMMA EraseBeginIInv ==
    ASSUME IInv, NEW t \in Thread, EraseBegin(t) PROVE IInv'
<1> USE Marks, Areas DEF EraseBegin, At, Goto, Thread, Holding, Writing
<1>1. TypeOK' BY DEF IInv, TypeOK, Contents, Pc
<1>2. Owner' BY DEF IInv, TypeOK, Owner
<1>3. BootInv' BY DEF IInv, TypeOK, Owner, BootInv, CmdInv, WriteInv, BothBad, AllGood, Valid
<1>4. CmdInv' BY DEF IInv, TypeOK, Owner, BootInv, CmdInv, WriteInv, AllGood, Valid
<1>5. WriteInv' BY DEF IInv, TypeOK, Owner, BootInv, CmdInv, WriteInv, Valid, BothBad
<1>6. RamIsSaved' BY DEF IInv, TypeOK, Owner, BootInv, CmdInv, WriteInv, RamIsSaved, Saved, AllGood, Valid, Correct
<1> QED BY <1>1, <1>2, <1>3, <1>4, <1>5, <1>6 DEF IInv

LEMMA EraseEndIInv ==
    ASSUME IInv, NEW t \in Thread, EraseEnd(t) PROVE IInv'
<1> USE Marks, Areas DEF EraseEnd, At, Goto, Thread, Holding, Writing
<1>1. TypeOK' BY DEF IInv, TypeOK, Contents, Pc
<1>2. Owner' BY DEF IInv, TypeOK, Owner
<1>3. BootInv' BY DEF IInv, TypeOK, Owner, BootInv, CmdInv, WriteInv, BothBad, AllGood, Valid
<1>4. CmdInv' BY DEF IInv, TypeOK, Owner, BootInv, CmdInv, WriteInv, AllGood, Valid
<1>5. WriteInv' BY DEF IInv, TypeOK, Owner, BootInv, CmdInv, WriteInv, Valid, BothBad
<1>6. RamIsSaved' BY DEF IInv, TypeOK, Owner, BootInv, CmdInv, WriteInv, RamIsSaved, Saved, AllGood, Valid, Correct
<1> QED BY <1>1, <1>2, <1>3, <1>4, <1>5, <1>6 DEF IInv

LEMMA ProgramBeginIInv ==
    ASSUME IInv, NEW t \in Thread, ProgramBegin(t) PROVE IInv'
<1> USE Marks, Areas DEF ProgramBegin, At, Goto, Thread, Holding, Writing
<1>1. TypeOK' BY DEF IInv, TypeOK, Contents, Pc
<1>2. Owner' BY DEF IInv, TypeOK, Owner
<1>3. BootInv' BY DEF IInv, TypeOK, Owner, BootInv, CmdInv, WriteInv, BothBad, AllGood, Valid
<1>4. CmdInv' BY DEF IInv, TypeOK, Owner, BootInv, CmdInv, WriteInv, AllGood, Valid
<1>5. WriteInv' BY DEF IInv, TypeOK, Owner, BootInv, CmdInv, WriteInv, Valid, BothBad
<1>6. RamIsSaved' BY DEF IInv, TypeOK, Owner, BootInv, CmdInv, WriteInv, RamIsSaved, Saved, AllGood, Valid, Correct
<1> QED BY <1>1, <1>2, <1>3, <1>4, <1>5, <1>6 DEF IInv

LEMMA ProgramMainIInv ==
    ASSUME IInv, NEW t \in Thread, ProgramMain(t) PROVE IInv'
<1> USE Marks, Areas DEF ProgramMain, At, Goto, Thread, Holding, Writing, Written
<1>1. TypeOK' BY DEF IInv, TypeOK, Contents, Pc
<1>2. Owner' BY DEF IInv, TypeOK, Owner
<1>3. BootInv' BY DEF IInv, TypeOK, Owner, BootInv, CmdInv, WriteInv, BothBad, AllGood, Valid
<1>4. CmdInv' BY DEF IInv, TypeOK, Owner, BootInv, CmdInv, WriteInv, AllGood, Valid
<1>5. WriteInv' BY DEF IInv, TypeOK, Owner, BootInv, CmdInv, WriteInv, Valid, BothBad
<1>6. RamIsSaved' BY DEF IInv, TypeOK, Owner, BootInv, CmdInv, WriteInv, RamIsSaved, Saved, AllGood, Valid, Correct
<1> QED BY <1>1, <1>2, <1>3, <1>4, <1>5, <1>6 DEF IInv

LEMMA ProgramBackupIInv ==
    ASSUME IInv, NEW t \in Thread, ProgramBackup(t) PROVE IInv'
<1> USE Marks, Areas DEF ProgramBackup, At, Goto, Thread, Holding, Writing, Written, Put, BackToLoop
<1>1. TypeOK'
  <2>1. ram \in Settings /\ Written = ram BY DEF IInv, WriteInv
  <2>2. copy' \in [Area -> Contents] BY <2>1 DEF IInv, TypeOK, Contents
  <2>3. pc' \in [Thread -> Pc] BY DEF IInv, TypeOK, Pc
  <2> QED BY <2>1, <2>2, <2>3 DEF IInv, TypeOK
<1>2. Owner' BY DEF IInv, TypeOK, Owner
<1>3. BootInv' BY DEF IInv, TypeOK, Owner, BootInv, CmdInv, WriteInv, BothBad, AllGood, Valid, Saved
<1>4. CmdInv' BY DEF IInv, TypeOK, Owner, BootInv, CmdInv, WriteInv, AllGood, Valid
<1>5. WriteInv' BY DEF IInv, TypeOK, Owner, BootInv, CmdInv, WriteInv, Valid, BothBad
<1>6. RamIsSaved' BY DEF IInv, TypeOK, Owner, BootInv, CmdInv, WriteInv, RamIsSaved, Saved, AllGood, Valid, Correct
<1> QED BY <1>1, <1>2, <1>3, <1>4, <1>5, <1>6 DEF IInv

LEMMA ProgramRepairIInv ==
    ASSUME IInv, NEW t \in Thread, ProgramRepair(t) PROVE IInv'
<1> USE Marks, Areas DEF ProgramRepair, At, Goto, Thread, Holding, Writing, Written
<1>1. TypeOK' BY DEF IInv, TypeOK, Contents, Pc
<1>2. Owner' BY DEF IInv, TypeOK, Owner
<1>3. BootInv' BY DEF IInv, TypeOK, Owner, BootInv, CmdInv, WriteInv, BothBad, AllGood, Valid
<1>4. CmdInv' BY DEF IInv, TypeOK, Owner, BootInv, CmdInv, WriteInv, AllGood, Valid
<1>5. WriteInv' BY DEF IInv, TypeOK, Owner, BootInv, CmdInv, WriteInv, Valid, BothBad
<1>6. RamIsSaved' BY DEF IInv, TypeOK, Owner, BootInv, CmdInv, WriteInv, RamIsSaved, Saved, AllGood, Valid, Correct
<1> QED BY <1>1, <1>2, <1>3, <1>4, <1>5, <1>6 DEF IInv

LEMMA ReadStartIInv ==
    ASSUME IInv, NEW t \in Thread, ReadStart(t) PROVE IInv'
<1> USE Marks, Areas DEF ReadStart, At, Goto, Thread, Holding, Writing, Take
<1>1. TypeOK' BY DEF IInv, TypeOK, Contents, Pc
<1>2. Owner' BY DEF IInv, TypeOK, Owner
<1>3. BootInv' BY DEF IInv, TypeOK, Owner, BootInv, CmdInv, WriteInv, BothBad, AllGood, Valid
<1>4. CmdInv' BY DEF IInv, TypeOK, Owner, BootInv, CmdInv, WriteInv, AllGood, Valid
<1>5. WriteInv' BY DEF IInv, TypeOK, Owner, BootInv, CmdInv, WriteInv, Valid, BothBad
<1>6. RamIsSaved' BY DEF IInv, TypeOK, Owner, BootInv, CmdInv, WriteInv, RamIsSaved, Saved, AllGood, Valid, Correct
<1> QED BY <1>1, <1>2, <1>3, <1>4, <1>5, <1>6 DEF IInv

LEMMA ReadBusyIInv ==
    ASSUME IInv, NEW t \in Thread, ReadBusy(t) PROVE IInv'
<1> USE Marks, Areas DEF ReadBusy, At, Goto, Thread, Holding, Writing, Busy, BackToLoop
<1>1. TypeOK' BY DEF IInv, TypeOK, Contents, Pc, Owner, BootInv, CmdInv, WriteInv, AllGood, Valid
<1>2. Owner' BY DEF IInv, TypeOK, Owner
<1>3. BootInv' BY DEF IInv, TypeOK, Owner, BootInv, CmdInv, WriteInv, BothBad, AllGood, Valid
<1>4. CmdInv' BY DEF IInv, TypeOK, Owner, BootInv, CmdInv, WriteInv, AllGood, Valid
<1>5. WriteInv' BY DEF IInv, TypeOK, Owner, BootInv, CmdInv, WriteInv, Valid, BothBad
<1>6. RamIsSaved' BY DEF IInv, TypeOK, Owner, BootInv, CmdInv, WriteInv, RamIsSaved, Saved, AllGood, Valid, Correct
<1> QED BY <1>1, <1>2, <1>3, <1>4, <1>5, <1>6 DEF IInv

LEMMA ReadMainIInv ==
    ASSUME IInv, NEW t \in Thread, ReadMain(t) PROVE IInv'
<1> USE Marks, Areas DEF ReadMain, At, Goto, Thread, Holding, Writing
<1>1. TypeOK' BY DEF IInv, TypeOK, Contents, Pc, Owner, BootInv, CmdInv, WriteInv, AllGood, Valid
<1>2. Owner' BY DEF IInv, TypeOK, Owner
<1>3. BootInv' BY DEF IInv, TypeOK, Owner, BootInv, CmdInv, WriteInv, BothBad, AllGood, Valid
<1>4. CmdInv' BY DEF IInv, TypeOK, Owner, BootInv, CmdInv, WriteInv, AllGood, Valid
<1>5. WriteInv' BY DEF IInv, TypeOK, Owner, BootInv, CmdInv, WriteInv, Valid, BothBad
<1>6. RamIsSaved' BY DEF IInv, TypeOK, Owner, BootInv, CmdInv, WriteInv, RamIsSaved, Saved, AllGood, Valid, Correct
<1> QED BY <1>1, <1>2, <1>3, <1>4, <1>5, <1>6 DEF IInv

LEMMA ReadKeepIInv ==
    ASSUME IInv, NEW t \in Thread, ReadKeep(t) PROVE IInv'
<1> USE Marks, Areas DEF ReadKeep, At, Goto, Thread, Holding, Writing, Put, BackToLoop, SomeBlank, AllGood, BothBad
<1>1. TypeOK' BY DEF IInv, TypeOK, Contents, Pc, Owner, BootInv, CmdInv, WriteInv, AllGood, Valid
<1>2. Owner' BY DEF IInv, TypeOK, Owner
<1>3. BootInv' BY DEF IInv, TypeOK, Owner, BootInv, CmdInv, WriteInv, BothBad, AllGood, Valid, Saved
<1>4. CmdInv' BY DEF IInv, TypeOK, Owner, BootInv, CmdInv, WriteInv, AllGood, Valid
<1>5. WriteInv' BY DEF IInv, TypeOK, Owner, BootInv, CmdInv, WriteInv, Valid, BothBad
<1>6. RamIsSaved' BY DEF IInv, TypeOK, Owner, BootInv, CmdInv, WriteInv, RamIsSaved, Saved, AllGood, Valid, Correct
<1> QED BY <1>1, <1>2, <1>3, <1>4, <1>5, <1>6 DEF IInv

LEMMA ReadRepairIInv ==
    ASSUME IInv, NEW t \in Thread, ReadRepair(t) PROVE IInv'
<1> USE Marks, Areas DEF ReadRepair, At, Goto, Thread, Holding, Writing, ToRepair
<1>1. TypeOK' BY DEF IInv, TypeOK, Contents, Pc, Owner, BootInv, CmdInv, WriteInv, AllGood, Valid
<1>2. Owner' BY DEF IInv, TypeOK, Owner
<1>3. BootInv' BY DEF IInv, TypeOK, Owner, BootInv, CmdInv, WriteInv, BothBad, AllGood, Valid
<1>4. CmdInv' BY DEF IInv, TypeOK, Owner, BootInv, CmdInv, WriteInv, AllGood, Valid
<1>5. WriteInv' BY DEF IInv, TypeOK, Owner, BootInv, CmdInv, WriteInv, Valid, BothBad
<1>6. RamIsSaved' BY DEF IInv, TypeOK, Owner, BootInv, CmdInv, WriteInv, RamIsSaved, Saved, AllGood, Valid, Correct
<1> QED BY <1>1, <1>2, <1>3, <1>4, <1>5, <1>6 DEF IInv

LEMMA ReadBlankIInv ==
    ASSUME IInv, NEW t \in Thread, ReadBlank(t) PROVE IInv'
<1> USE Marks, Areas DEF ReadBlank, At, Goto, Thread, Holding, Writing, Put, BothBad, SomeBlank
<1>1. TypeOK' BY DEF IInv, TypeOK, Contents, Pc, Owner, BootInv, CmdInv, WriteInv, AllGood, Valid
<1>2. Owner' BY DEF IInv, TypeOK, Owner
<1>3. BootInv' BY DEF IInv, TypeOK, Owner, BootInv, CmdInv, WriteInv, BothBad, AllGood, Valid
<1>4. CmdInv' BY DEF IInv, TypeOK, Owner, BootInv, CmdInv, WriteInv, AllGood, Valid
<1>5. WriteInv' BY DEF IInv, TypeOK, Owner, BootInv, CmdInv, WriteInv, Valid, BothBad
<1>6. RamIsSaved' BY DEF IInv, TypeOK, Owner, BootInv, CmdInv, WriteInv, RamIsSaved, Saved, AllGood, Valid, Correct
<1> QED BY <1>1, <1>2, <1>3, <1>4, <1>5, <1>6 DEF IInv

LEMMA RereadIInv ==
    ASSUME IInv, NEW t \in Thread, Reread(t) PROVE IInv'
<1> USE Marks, Areas DEF Reread, At, Goto, Thread, Holding, Writing, Put, BackToLoop
<1>1. TypeOK' BY DEF IInv, TypeOK, Contents, Pc, Owner, BootInv, CmdInv, WriteInv, AllGood, Valid
<1>2. Owner' BY DEF IInv, TypeOK, Owner
<1>3. BootInv' BY DEF IInv, TypeOK, Owner, BootInv, CmdInv, WriteInv, BothBad, AllGood, Valid, Saved
<1>4. CmdInv' BY DEF IInv, TypeOK, Owner, BootInv, CmdInv, WriteInv, AllGood, Valid
<1>5. WriteInv' BY DEF IInv, TypeOK, Owner, BootInv, CmdInv, WriteInv, Valid, BothBad
<1>6. RamIsSaved' BY DEF IInv, TypeOK, Owner, BootInv, CmdInv, WriteInv, RamIsSaved, Saved, AllGood, Valid, Correct
<1> QED BY <1>1, <1>2, <1>3, <1>4, <1>5, <1>6 DEF IInv

LEMMA DefaultIInv ==
    ASSUME IInv, NEW t \in Thread, Default(t) PROVE IInv'
<1> USE Marks, Areas DEF Default, At, Goto, Thread, Holding, Writing, Busy
<1>1. TypeOK' BY DEF IInv, TypeOK, Contents, Pc
<1>2. Owner' BY DEF IInv, TypeOK, Owner
<1>3. BootInv' BY DEF IInv, TypeOK, Owner, BootInv, CmdInv, WriteInv, BothBad, AllGood, Valid
<1>4. CmdInv' BY DEF IInv, TypeOK, Owner, BootInv, CmdInv, WriteInv, AllGood, Valid
<1>5. WriteInv' BY DEF IInv, TypeOK, Owner, BootInv, CmdInv, WriteInv, Valid, BothBad
<1>6. RamIsSaved' BY DEF IInv, TypeOK, Owner, BootInv, CmdInv, WriteInv, RamIsSaved, Saved, AllGood, Valid, Correct
<1> QED BY <1>1, <1>2, <1>3, <1>4, <1>5, <1>6 DEF IInv

LEMMA SetCommandIInv ==
    ASSUME IInv, NEW f \in Field, NEW v \in Value, NEW refused \in BOOLEAN,
           SetCommand(f, v, refused)
    PROVE IInv'
<1> USE Marks, Areas DEF SetCommand, At, Goto, Thread, Holding, Writing
<1>0. ram' \in Settings BY ChangeSettings DEF IInv, TypeOK
<1>1. TypeOK' BY <1>0 DEF IInv, TypeOK, Contents, Pc
<1>2. Owner' BY DEF IInv, TypeOK, Owner
<1>3. BootInv' BY DEF IInv, TypeOK, BootInv
<1>4. CmdInv' BY <1>0 DEF IInv, TypeOK, CmdInv, AllGood, Valid
<1>5. WriteInv' BY DEF IInv, TypeOK, Owner, BootInv, WriteInv
<1>6. RamIsSaved' BY DEF IInv, TypeOK, RamIsSaved
<1> QED BY <1>1, <1>2, <1>3, <1>4, <1>5, <1>6 DEF IInv

LEMMA CorrectStartIInv ==
    ASSUME IInv, CorrectStart PROVE IInv'
<1> USE Marks, Areas DEF CorrectStart, At, Thread, Holding, Writing
<1>0. ram \in Settings /\ ram = Saved /\ Saved' = Saved /\ ram' = Correct(Saved) /\ AllGood
  BY DEF IInv, BootInv, AllGood, Saved, Valid
<1>1. ram' \in Settings BY <1>0, CorrectSettings
<1>2. At("cmd", "off") BY DEF IInv, BootInv
<1>3. TypeOK' BY <1>1 DEF IInv, TypeOK, Contents, Pc
<1>4. Owner' BY <1>2 DEF IInv, TypeOK, Owner
<1>5. BootInv' BY DEF BootInv
<1>6. CmdInv' BY <1>0, <1>1 DEF CmdInv, AllGood, Valid
<1>7. WriteInv' BY DEF WriteInv
<1>8. RamIsSaved'
  <2> HIDE DEF CorrectStart
  <2>1. ram' = Correct(Saved') BY <1>0
  <2>2. Correct(Saved') = Correct(Saved)' BY DEF Correct, Valid
  <2> QED BY <2>1, <2>2 DEF RamIsSaved
<1> QED BY <1>3, <1>4, <1>5, <1>6, <1>7, <1>8 DEF IInv

LEMMA FactoryCommandIInv ==
    ASSUME IInv, FactoryCommand PROVE IInv'
<1> USE Marks, Areas DEF FactoryCommand, At, Goto, Thread, Holding, Writing
<1>1. CASE Busy("cmd")
  <2>1. UNCHANGED vars BY <1>1 DEF vars
  <2> QED BY <2>1, StutterIInv
<1>2. CASE ~Busy("cmd")
  <2> USE <1>2
  <2>1. ram' = Initial /\ pc' = [pc EXCEPT !["cmd"] = "rewriteDefault"] OBVIOUS
  <2>2. TypeOK' BY <2>1 DEF IInv, TypeOK, Pc, Contents
  <2>3. Owner' BY <2>1 DEF IInv, TypeOK, Owner
  <2>4. BootInv' BY <2>1 DEF IInv, TypeOK, BootInv
  <2>5. CmdInv' BY <2>1 DEF IInv, TypeOK, CmdInv, AllGood, Valid
  <2>6. WriteInv' BY <2>1 DEF IInv, TypeOK, Owner, BootInv, WriteInv
  <2>7. RamIsSaved' BY <2>1 DEF IInv, TypeOK, RamIsSaved
  <2> QED BY <2>2, <2>3, <2>4, <2>5, <2>6, <2>7 DEF IInv
<1> QED BY <1>1, <1>2

LEMMA OtherIInv ==
    ASSUME IInv, OtherTakes \/ OtherPuts PROVE IInv'
<1> USE Marks, Areas DEF OtherTakes, OtherPuts, Take, Put, At, Thread
<1>1. TypeOK' BY DEF IInv, TypeOK
<1>2. Owner' BY DEF IInv, Owner
<1>3. BootInv' BY DEF IInv, BootInv, BothBad, AllGood, Valid
<1>4. CmdInv' BY DEF IInv, CmdInv, AllGood, Valid
<1>5. WriteInv' BY DEF IInv, WriteInv, Valid
<1>6. RamIsSaved' BY DEF IInv, RamIsSaved, Saved, Valid, Correct
<1> QED BY <1>1, <1>2, <1>3, <1>4, <1>5, <1>6 DEF IInv

\* What the flash holds when the power fails is enough to start from.
LEMMA StopIInv ==
    ASSUME IInv, Stop PROVE IInv'
<1> USE Marks, Areas, StopsAssumption DEF Stop, Put, Boot, At, Thread, Holding, Writing
<1>1. TypeOK'
  <2>1. pc' \in [Thread -> Pc] BY DEF Pc
  <2>2. stops' \in 0 .. MaxStops BY DEF IInv, TypeOK
  <2> QED BY <2>1, <2>2 DEF IInv, TypeOK, Contents
<1>2. Owner' BY DEF Owner
<1>3. ~BothBad \/ copy["backup"] = Blank
  <2>1. CASE At("cmd", "off") /\ pc["system"] \notin Writing
    BY <2>1 DEF IInv, BootInv
  <2>2. CASE ~At("cmd", "off") /\ pc["cmd"] \notin Writing
    BY <2>2 DEF IInv, CmdInv, AllGood, BothBad
  <2>3. CASE \E t \in Thread : pc[t] \in Writing
    BY <2>3 DEF IInv, TypeOK, WriteInv, BothBad, Valid
  <2> QED BY <2>1, <2>2, <2>3
<1>4. BootInv' BY <1>3 DEF BootInv, BothBad, Valid
<1>5. CmdInv' /\ WriteInv' /\ RamIsSaved' BY DEF CmdInv, WriteInv, RamIsSaved
<1> QED BY <1>1, <1>2, <1>4, <1>5 DEF IInv

LEMMA StepIInv == IInv /\ [Next]_vars => IInv'
<1> SUFFICES ASSUME IInv, [Next]_vars PROVE IInv'
  OBVIOUS
<1>1. ASSUME NEW t \in Thread, Rewrite(t) PROVE IInv'
  BY <1>1, RewriteStartIInv, RewriteBusyIInv, EraseBeginIInv, EraseEndIInv,
     ProgramBeginIInv, ProgramMainIInv, ProgramBackupIInv, ProgramRepairIInv
     DEF Rewrite
<1>2. ASSUME NEW t \in Thread, Read(t) PROVE IInv'
  BY <1>2, ReadStartIInv, ReadBusyIInv, ReadMainIInv, ReadKeepIInv,
     ReadRepairIInv, ReadBlankIInv, RereadIInv, DefaultIInv DEF Read
<1> QED
  BY <1>1, <1>2, SetCommandIInv, FactoryCommandIInv, CorrectStartIInv,
     OtherIInv, StopIInv, StutterIInv DEF Next

LEMMA Invariant == Spec => []IInv
BY InitIInv, StepIInv, PTL DEF Spec

-----------------------------------------------------------------------------
(* The theorems.                                                           *)

\* my_config, the copies and the threads are well typed, and my_config holds
\* settings whenever a command may run.
THEOREM SettingsTypeCorrect == Spec => []TypeOK
BY Invariant, PTL DEF IInv

\* Wherever the power fails, one copy is good, or the unit was never set up:
\* read_repair_settings (Base.c:54) never meets two bad copies.
THEOREM OneCopyIsGood == Spec => []OneCopyGood
<1>1. IInv => OneCopyGood
  <2> USE Marks, Areas DEF At, Thread
  <2> SUFFICES ASSUME IInv, BothBad PROVE SomeBlank
    BY DEF OneCopyGood
  <2>1. CASE At("cmd", "off") /\ pc["system"] \notin Writing
    BY <2>1 DEF IInv, BootInv, SomeBlank
  <2>2. CASE ~At("cmd", "off") /\ pc["cmd"] \notin Writing
    BY <2>2 DEF IInv, CmdInv, AllGood, BothBad
  <2>3. CASE \E t \in Thread : pc[t] \in Writing
    BY <2>3 DEF IInv, TypeOK, WriteInv, BothBad, SomeBlank, Valid
  <2> QED BY <2>1, <2>2, <2>3
<1> QED BY <1>1, Invariant, PTL

\* The repair at the start, interrupted or not, leaves two good copies before
\* the first command runs.
THEOREM CopiesAreRepaired == Spec => []BothCopiesGood
<1>1. IInv => BothCopiesGood
  BY DEF IInv, BothCopiesGood, CmdInv, At, Writing
<1> QED BY <1>1, Invariant, PTL

\* A change that was refused or not saved leaves no trace in my_config, if the
\* read that undoes it got the mutex: my_config is then what the next start
\* would read, or what the start makes of that (system_thread_entry.c 296).
THEOREM RamFollowsFlash == Spec => []RamIsSaved
BY Invariant, PTL DEF IInv

-----------------------------------------------------------------------------
(* The two copies implement a register.                                    *)

\* The register's state.
asked == IF Rewriting THEN crc ELSE None
register == <<Saved, asked, stops>>

LEMMA InitRegister == Init => Register!Init
BY Marks DEF Init, Register!Init, Saved, Valid, Rewriting, Boot, Area, Thread

\* A rewrite asks for my_config, with its first step.
LEMMA RewriteStartAsks ==
    ASSUME IInv, NEW t \in Thread, RewriteStart(t) PROVE Register!Next
<1> USE Marks DEF RewriteStart, At, Goto, Take, Thread, Writing
<1>1. ram \in Settings BY DEF IInv, BootInv, CmdInv, Holding
<1>2. Saved' = Saved BY DEF Saved, Valid
<1>3. asked = None /\ asked' = ram BY DEF IInv, TypeOK, Rewriting, asked
<1> QED BY <1>1, <1>2, <1>3 DEF Register!Next, Register!Ask, asked

\* While it writes the main area the next start still finds what it found
\* before.
LEMMA MainKeepsSaved ==
    ASSUME IInv, NEW t \in Thread, pc[t] \in Writing, job # "repair", target = "main",
           EraseBegin(t) \/ EraseEnd(t) \/ ProgramBegin(t) \/ ProgramMain(t)
    PROVE UNCHANGED register
<1> USE Marks, Areas DEF EraseBegin, EraseEnd, ProgramBegin, ProgramMain, At, Goto,
                         Thread, Writing, Holding
<1>1. mutex = t /\ Rewriting /\ Rewriting'
  BY DEF IInv, TypeOK, Owner, Rewriting
<1>2. asked' = asked /\ stops' = stops BY <1>1 DEF asked
<1>3. Saved' = Saved
  BY DEF IInv, TypeOK, WriteInv, Saved, Valid, Written
<1> QED BY <1>2, <1>3 DEF register

\* From the first erase of the backup area on, it finds what is being saved.
LEMMA BackupCommits ==
    ASSUME IInv, NEW t \in Thread, pc[t] \in Writing, job # "repair", target = "backup",
           EraseBegin(t) \/ EraseEnd(t) \/ ProgramBegin(t)
    PROVE Register!Next
<1> USE Marks, Areas DEF EraseBegin, EraseEnd, ProgramBegin, At, Goto,
                         Thread, Writing, Holding
<1>1. mutex = t /\ Rewriting /\ Rewriting'
  BY DEF IInv, TypeOK, Owner, Rewriting
<1>2. asked' = asked /\ asked # None /\ stops' = stops
  BY <1>1 DEF asked, IInv, WriteInv
<1>3. Saved' = crc
  BY DEF IInv, TypeOK, WriteInv, Saved, Valid
<1> QED BY <1>1, <1>2, <1>3 DEF Register!Next, Register!Commit, asked

\* The rewrite returns with its settings saved.
LEMMA ProgramBackupReturns ==
    ASSUME IInv, NEW t \in Thread, ProgramBackup(t) PROVE Register!Next
<1> USE Marks, Areas DEF ProgramBackup, At, Goto, Put, Thread, Writing, Holding
<1>1. mutex = t /\ Rewriting /\ ~Rewriting'
  BY DEF IInv, TypeOK, Owner, Rewriting
<1>2. asked = crc /\ asked # None /\ asked' = None /\ stops' = stops
  BY <1>1 DEF asked, IInv, WriteInv
<1>3. Saved = crc /\ Saved' = crc
  BY DEF IInv, TypeOK, WriteInv, Saved, Valid, Written
<1> QED BY <1>2, <1>3 DEF Register!Next, Register!Return, asked

\* A repair makes a copy of what the next start would find without it.
LEMMA RepairKeepsSaved ==
    ASSUME IInv, NEW t \in Thread, pc[t] \in Writing, job = "repair",
           EraseBegin(t) \/ EraseEnd(t) \/ ProgramBegin(t) \/ ProgramRepair(t)
    PROVE UNCHANGED register
<1> USE Marks, Areas DEF EraseBegin, EraseEnd, ProgramBegin, ProgramRepair, At, Goto,
                         Thread, Writing, Holding
<1>1. ~Rewriting /\ ~Rewriting' BY DEF Rewriting
<1>2. asked' = asked /\ stops' = stops BY <1>1 DEF asked
<1>3. Saved' = Saved
  BY DEF IInv, TypeOK, WriteInv, Saved, Valid, Written
<1> QED BY <1>2, <1>3 DEF register

\* The other steps leave the flash as it is and no rewrite under way.
LEMMA OthersKeepRegister ==
    ASSUME IInv, NEW t \in Thread, Read(t) \/ RewriteBusy(t)
    PROVE UNCHANGED register
<1> USE Marks, Areas DEF At, Goto, Take, Put, Busy, BackToLoop, Thread, Writing, Holding
<1>1. copy' = copy /\ stops' = stops
  BY DEF Read, RewriteBusy, ReadStart, ReadBusy, ReadMain, ReadKeep, ReadRepair,
         ReadBlank, Reread, Default
<1>2. Saved' = Saved BY <1>1 DEF Saved, Valid
<1>3. asked' = asked
  <2>1. CASE RewriteBusy(t) \/ ReadBusy(t) \/ Default(t)
    BY <2>1 DEF RewriteBusy, ReadBusy, Default, asked, Rewriting, IInv, TypeOK, Owner
  <2>2. CASE ReadStart(t) \/ ReadMain(t) \/ ReadRepair(t)
    BY <2>2 DEF ReadStart, ReadMain, ReadRepair, asked, Rewriting, IInv, TypeOK, Owner
  <2>3. CASE ReadKeep(t) \/ ReadBlank(t) \/ Reread(t)
    BY <2>3 DEF ReadKeep, ReadBlank, Reread, asked, Rewriting, IInv, TypeOK, Owner
  <2> QED BY <2>1, <2>2, <2>3 DEF Read
<1> QED BY <1>1, <1>2, <1>3 DEF register

LEMMA EnvironmentKeepsRegister ==
    ASSUME IInv,
           \/ \E f \in Field, v \in Value, refused \in BOOLEAN : SetCommand(f, v, refused)
           \/ FactoryCommand \/ CorrectStart \/ OtherTakes \/ OtherPuts \/ UNCHANGED vars
    PROVE UNCHANGED register
<1> USE Marks DEF SetCommand, FactoryCommand, CorrectStart, Busy, OtherTakes, OtherPuts, vars, At, Goto,
                  Take, Put, Thread, Writing, Holding
<1>1. copy' = copy /\ stops' = stops /\ crc' = crc /\ job' = job OBVIOUS
<1>2. Saved' = Saved BY <1>1 DEF Saved, Valid
<1>3. Rewriting' = Rewriting
  <2>1. CASE CorrectStart
    BY <2>1 DEF Rewriting, IInv, TypeOK, Owner, BootInv
  <2>2. CASE FactoryCommand
    <3>1. pc' \in {pc, [pc EXCEPT !["cmd"] = "rewriteDefault"]} /\ mutex' = mutex
      BY <2>2
    <3>2. pc["cmd"] = "idle" BY <2>2
    <3> QED BY <3>1, <3>2, <1>1 DEF Rewriting, IInv, TypeOK, Owner
  <2>3. CASE OtherTakes \/ OtherPuts \/ UNCHANGED vars
    BY <2>3 DEF Rewriting, IInv, TypeOK, Owner
  <2>4. CASE \E f \in Field, v \in Value, refused \in BOOLEAN : SetCommand(f, v, refused)
    BY <2>4 DEF Rewriting, IInv, TypeOK, Owner
  <2> QED BY <2>1, <2>2, <2>3, <2>4
<1> QED BY <1>1, <1>2, <1>3 DEF register, asked

LEMMA StopIsStop == ASSUME IInv, Stop PROVE Register!Next
<1> USE Marks DEF Stop, Put, Thread
<1>1. Saved' = Saved BY DEF Saved, Valid
<1>2. asked' = None BY DEF asked, Rewriting
<1>3. stops' = stops + 1 OBVIOUS
<1> QED BY <1>1, <1>2, <1>3 DEF Register!Next, Register!Stop, asked

LEMMA StepRegister == IInv /\ [Next]_vars => [Register!Next]_(Register!vars)
<1> SUFFICES ASSUME IInv, [Next]_vars PROVE Register!Next \/ UNCHANGED register
  BY DEF Register!vars, register, asked
<1>1. ASSUME NEW t \in Thread, Rewrite(t)
      PROVE Register!Next \/ UNCHANGED register
  <2>1. CASE RewriteStart(t) BY <2>1, RewriteStartAsks
  <2>2. CASE RewriteBusy(t) BY <2>2, OthersKeepRegister
  <2>3. CASE ProgramBackup(t) BY <2>3, ProgramBackupReturns
  <2>4. CASE \/ EraseBegin(t) \/ EraseEnd(t) \/ ProgramBegin(t)
             \/ ProgramMain(t) \/ ProgramRepair(t)
    <3>1. pc[t] \in Writing
      BY <2>4 DEF EraseBegin, EraseEnd, ProgramBegin, ProgramMain, ProgramRepair,
                  At, Writing
    <3>2. target \in {"main", "backup"} BY DEF IInv, TypeOK, Area
    <3>3. CASE job = "repair"
      BY <2>4, <3>1, <3>3, RepairKeepsSaved DEF ProgramMain
    <3>4. CASE job # "repair" /\ target = "main"
      BY <2>4, <3>1, <3>4, MainKeepsSaved DEF ProgramRepair
    <3>5. CASE job # "repair" /\ target = "backup"
      BY <2>4, <3>1, <3>5, BackupCommits DEF ProgramMain, ProgramRepair
    <3> QED BY <3>2, <3>3, <3>4, <3>5
  <2> QED BY <1>1, <2>1, <2>2, <2>3, <2>4 DEF Rewrite
<1>2. ASSUME NEW t \in Thread, Read(t) PROVE UNCHANGED register
  BY <1>2, OthersKeepRegister
<1> QED BY <1>1, <1>2, EnvironmentKeepsRegister, StopIsStop DEF Next

\* The copies, their rewriting and their repair implement the register: a save
\* is atomic however often the power fails, and made when it returns.
THEOREM SettingsImplementRegister == Spec => ImplementsRegister
BY InitRegister, StepRegister, Invariant, PTL
   DEF Spec, ImplementsRegister, Register!Spec
=============================================================================
