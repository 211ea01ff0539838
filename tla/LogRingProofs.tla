--------------------------- MODULE LogRingProofs ---------------------------
(***************************************************************************)
(* Proofs about LogRing with a single logging thread, for every number of  *)
(* sectors, of lines in a sector and of log numbers, and any restarts.     *)
(*                                                                         *)
(* The file always has the shape Ring around one slot, End: blank there,   *)
(* no blank below, and above it either nothing or only sectors in use.     *)
(* That slot is what the scan finds (ScanFindsEnd), so a restart at any    *)
(* step, and a scan in the middle of the program's life, are harmless.     *)
(* KInv bounds the age of what is erased; Exact, until the first stop, is  *)
(* the file in closed form, with the number of each line.                  *)
(***************************************************************************)
EXTENDS LogRing, FiniteSetTheorems, TLAPS

\* The threads that log take turns: as if there were one.
ASSUME OneThread == Thread = {cmd}

p == pc[cmd]

\* In a sector the lines come first, then the blanks.
Packed(img) ==
    \A s \in Sector : \A i, j \in SlotsOf(s) :
        i < j /\ img[i] = Blank => img[j] = Blank

\* The sectors above w are all blank or all in use, except that the next one
\* may have been erased to go on there.
Above(img, w) ==
    \/ \A i \in Slot : i > w => img[i] = Blank
    \/ \A s \in Sector : s * Lines > w + 1 => img[s * Lines] # Blank

Ring(img, w) ==
    /\ Packed(img)
    /\ img[w] = Blank
    /\ \A i \in Slot : i < w => img[i] # Blank
    /\ Above(img, w)

\* Above w the lines are older than below it, and age falls with the slot.
Ordered(img, w) ==
    \A i, j \in Filled(img) :
        i < j => IF i < w /\ w <= j THEN img[j].id < img[i].id
                 ELSE img[i].id < img[j].id

\* Where the file's ring ends: at pWrite, but for the line just written, and
\* at 0 as soon as sector 0 or the whole log is erased.
End ==
    IF p = "clearInfo" THEN 0
    ELSE IF p = "advance" \/ (p \in {"copy", "store"} /\ info.pWrite = Slots - 1)
         THEN After(info.pWrite) ELSE info.pWrite

AtSectorEnd == After(info.pWrite) % Lines = 0
NextSector == SlotsOf(After(info.pWrite) \div Lines)

\* How the image differs from the file, step by step.
Image ==
    logData = CASE p = "eraseStore" -> Set(logFile, NextSector, Blank)
                [] p = "store" -> Set(logFile, {info.pWrite}, logLine)
                [] p = "clearStore" -> Erased
                [] OTHER -> logFile

\* What the steps of a PutLog have established for the next ones.
Writing ==
    /\ p = "eraseStore" => AtSectorEnd
    /\ p \in {"copy", "store"} =>
        /\ logFile[info.pWrite] = Blank
        /\ AtSectorEnd => \A i \in Slot :
                /\ i \in NextSector => logFile[i] = Blank
                /\ i < info.pWrite /\ i \notin NextSector => logFile[i] # Blank
    /\ p = "clearInfo" => logFile = Erased
    /\ p = "fill" => logFile = Erased /\ info = NoInfo

\* The line being written is newer than all in the file, and any line in it
\* at or after the cursor newer than the last one sent.
Ages ==
    /\ \A i \in Filled(logFile) : logFile[i].id <= puts
    /\ p \in {"erase", "eraseStore", "copy", "store", "advance"} =>
        logLine # Blank /\ logLine.id = puts
    /\ p \in {"erase", "eraseStore", "copy", "store"} =>
        \A i \in Filled(logFile) : logFile[i].id < puts

Cursor ==
    /\ sent <= puts
    /\ p \in {"erase", "eraseStore", "copy", "store"} => sent < puts
    /\ get.pRead \in Filled(logFile) => sent < logFile[get.pRead].id

IInv ==
    /\ TypeOK
    /\ Ring(logFile, End)
    /\ Ordered(logFile, End)
    /\ Image
    /\ Writing
    /\ Ages
    /\ Cursor

-----------------------------------------------------------------------------

Image_ == [Slot -> Line \cup {Blank}]

USE SectorsAssumption, LinesAssumption

\* Division with remainder.
LEMMA DivMod ==
    ASSUME NEW a \in Nat, NEW l \in Nat, l >= 1
    PROVE  /\ a \div l \in Nat
           /\ (a \div l) * l <= a /\ a < (a \div l) * l + l
           /\ a % l = 0 => a = (a \div l) * l
OBVIOUS

LEMMA ModRange == \A a \in Int, n \in Nat \ {0} : a % n \in 0 .. n - 1
OBVIOUS

LEMMA UInt16Facts == /\ \A n \in UInt16 : n \in Nat
                     /\ \A n \in Int : n % 65536 \in UInt16
                     /\ \A n \in UInt16 : n > 0 => n - 1 \in UInt16
                     /\ \A n \in UInt16 : n < MaxUInt16 => n + 1 \in UInt16
                     /\ 0 \in UInt16 /\ MaxUInt16 \in UInt16
<1>0. MaxUInt16 \in Nat
    BY DEF MaxUInt16
<1>1. \A n \in UInt16 : n \in Nat
    BY <1>0 DEF UInt16
<1>2. \A n \in Int : n % 65536 \in UInt16
    BY DEF UInt16, MaxUInt16
<1>3. \A n \in UInt16 : n > 0 => n - 1 \in UInt16
    BY <1>0 DEF UInt16
<1>4. \A n \in UInt16 : n < MaxUInt16 => n + 1 \in UInt16
    BY <1>0 DEF UInt16
<1>5. 0 \in UInt16 /\ MaxUInt16 \in UInt16
    BY <1>0 DEF UInt16
<1> QED BY <1>0, <1>1, <1>2, <1>3, <1>4, <1>5

\* Sectors are intervals of slots, one after the other.
LEMMA SectorFacts ==
    /\ Slots \in Nat /\ Slots >= 3 * Lines
    /\ 0 \in Slot /\ Slots - 1 \in Slot
    /\ \A s \in Sector : /\ s * Lines \in Slot
                         /\ SlotsOf(s) \subseteq Slot
                         /\ s * Lines \in SlotsOf(s)
                         /\ s * Lines + Lines - 1 \in SlotsOf(s)
    /\ \A r, s \in Sector : r < s => r * Lines + Lines <= s * Lines
    /\ \A i \in Slot : i \div Lines \in Sector /\ i \in SlotsOf(i \div Lines)
<1>1. Slots \in Nat /\ Slots >= 3 * Lines
    BY DEF Slots
<1>2. \A r, s \in Sector : r < s => r * Lines + Lines <= s * Lines
    <2> SUFFICES ASSUME NEW r \in Sector, NEW s \in Sector, r < s
                 PROVE  r * Lines + Lines <= s * Lines
        OBVIOUS
    <2>1. (r + 1) * Lines <= s * Lines
        BY DEF Sector
    <2> QED BY <2>1 DEF Sector
<1>3. \A s \in Sector : s * Lines \in Nat /\ s * Lines + Lines <= Slots
    <2> SUFFICES ASSUME NEW s \in Sector
                 PROVE  s * Lines \in Nat /\ s * Lines + Lines <= Slots
        OBVIOUS
    <2>1. (s + 1) * Lines <= Sectors * Lines
        BY DEF Sector
    <2> QED BY <2>1 DEF Sector, Slots
<1>4. \A i \in Slot : i \div Lines \in Sector /\ i \in SlotsOf(i \div Lines)
    <2> SUFFICES ASSUME NEW i \in Slot
                 PROVE  i \div Lines \in Sector /\ i \in SlotsOf(i \div Lines)
        OBVIOUS
    <2> DEFINE q == i \div Lines
    <2>1. q \in Nat /\ q * Lines <= i /\ i < q * Lines + Lines
        BY DivMod DEF Slot
    <2>2. q < Sectors
        <3> SUFFICES ASSUME q >= Sectors PROVE FALSE
            BY <2>1
        <3>1. q * Lines >= Sectors * Lines
            BY <2>1
        <3> QED BY <2>1, <3>1 DEF Slot, Slots
    <2>3. q \in Sector
        BY <2>1, <2>2 DEF Sector
    <2>4. i \in SlotsOf(q)
        BY <2>1 DEF SlotsOf, Slot
    <2> QED BY <2>3, <2>4
<1>5. 0 \in Slot /\ Slots - 1 \in Slot
    BY <1>1 DEF Slot
<1>6. ASSUME NEW s \in Sector
      PROVE  /\ s * Lines \in Slot /\ SlotsOf(s) \subseteq Slot
             /\ s * Lines \in SlotsOf(s)
             /\ s * Lines + Lines - 1 \in SlotsOf(s)
    <2>1. PICK b \in Nat : b = s * Lines /\ b + Lines <= Slots
        BY <1>3
    <2> QED BY <2>1, <1>1 DEF Slot, SlotsOf
<1> QED BY <1>1, <1>2, <1>4, <1>5, <1>6

\* Different sectors share no slot.
LEMMA SectorsApart ==
    ASSUME NEW r \in Sector, NEW s \in Sector, NEW i \in SlotsOf(r), i \in SlotsOf(s)
    PROVE  r = s
<1>1. s * Lines \in Nat /\ r * Lines \in Nat /\ i \in Nat
    BY SectorFacts DEF Slot
<1>2. ~(r < s)
    BY <1>1, SectorFacts DEF SlotsOf
<1>3. ~(s < r)
    BY <1>1, SectorFacts DEF SlotsOf
<1> QED BY <1>2, <1>3 DEF Sector

\* The slot after w; where it begins a sector, the sector.
LEMMA AfterFacts ==
    ASSUME NEW w \in Slot
    PROVE  /\ After(w) \in Slot
           /\ w < Slots - 1 => After(w) = w + 1
           /\ w = Slots - 1 => After(w) = 0 /\ After(w) % Lines = 0
           /\ After(w) % Lines = 0 =>
                /\ After(w) \div Lines \in Sector
                /\ (After(w) \div Lines) * Lines = After(w)
           /\ \A s \in Sector : s * Lines = w + 1 => After(w) % Lines = 0
<1>1. /\ After(w) \in Slot
      /\ w < Slots - 1 => After(w) = w + 1
      /\ w = Slots - 1 => After(w) = 0
    <2>1. w \in Nat /\ w < Slots /\ Slots \in Nat /\ Slots > 0
        BY SectorFacts DEF Slot
    <2>2. CASE w < Slots - 1
        BY <2>1, <2>2 DEF After, Slot
    <2>3. CASE w = Slots - 1
        <3>1. w + 1 = Slots
            BY <2>1, <2>3
        <3>2. Slots % Slots = 0
            BY <2>1
        <3> QED BY <2>1, <2>3, <3>1, <3>2 DEF After, Slot
    <2> QED BY <2>1, <2>2, <2>3
<1>2. After(w) \in Nat /\ After(w) \div Lines \in Sector
    BY <1>1, SectorFacts DEF Slot
<1>3. After(w) % Lines = 0 => After(w) = (After(w) \div Lines) * Lines
    BY <1>2, DivMod
<1>4. 0 % Lines = 0
    OBVIOUS
<1>5. ASSUME NEW s \in Sector, s * Lines = w + 1
      PROVE  After(w) % Lines = 0
    <2>1. After(w) = s * Lines
        BY <1>1, <1>5, SectorFacts DEF Slot
    <2>2. (s * Lines) % Lines = 0
        BY DEF Sector
    <2> QED BY <2>1, <2>2
<1> QED BY <1>1, <1>2, <1>3, <1>4, <1>5 DEF Sector

LEMMA SetFacts ==
    ASSUME NEW img \in Image_, NEW slots \in SUBSET Slot, NEW l \in Line \cup {Blank}
    PROVE  /\ Set(img, slots, l) \in Image_
           /\ \A i \in Slot : Set(img, slots, l)[i] = IF i \in slots THEN l ELSE img[i]
BY DEF Set, Image_

LEMMA NotBlank == \A l \in Line : l # Blank /\ l.id \in Nat /\ l.id > 0
<1> SUFFICES ASSUME NEW l \in Line PROVE l # Blank /\ l.id \in Nat /\ l.id > 0
    OBVIOUS
<1>1. l.id \in Nat \ {0}
    BY DEF Line
<1>2. Blank.id = 0
    BY DEF Blank
<1> QED BY <1>1, <1>2

\* Where the ring ends once the sector after w is erased.
ErasedEnd(w) == IF w = Slots - 1 THEN 0 ELSE w

\* Erasing the next sector keeps the ring, which ends at 0 if the next sector
\* is the first.
LEMMA EraseRing ==
    ASSUME NEW img \in Image_, NEW w \in Slot,
           Ring(img, w), Ordered(img, w), After(w) % Lines = 0
    PROVE  LET next == SlotsOf(After(w) \div Lines)
               img2 == Set(img, next, Blank)
           IN  /\ Ring(img2, ErasedEnd(w)) /\ Ordered(img2, ErasedEnd(w))
               /\ img2[w] = Blank
               /\ \A i \in Slot : /\ i \in next => img2[i] = Blank
                                  /\ i < w /\ i \notin next => img2[i] # Blank
<1> DEFINE r == After(w) \div Lines
           next == SlotsOf(r)
           img2 == Set(img, next, Blank)
           e == ErasedEnd(w)
<1>1. /\ r \in Sector /\ r * Lines = After(w) /\ next \subseteq Slot
      /\ w < Slots - 1 => After(w) = w + 1
      /\ w = Slots - 1 => After(w) = 0
    BY AfterFacts, SectorFacts
<1>2. \A i \in Slot : img2[i] = IF i \in next THEN Blank ELSE img[i]
    BY <1>1, SetFacts
<1>3. w \in Nat /\ w < Slots /\ Slots \in Nat /\ e \in Slot /\ e <= w
    BY SectorFacts DEF Slot, ErasedEnd
<1>4. \A i \in next : i >= After(w)
    BY <1>1 DEF SlotsOf
<1> HIDE DEF r, next, img2, e
<1>5. Packed(img2)
    <2> SUFFICES ASSUME NEW s \in Sector, NEW i \in SlotsOf(s), NEW j \in SlotsOf(s),
                        i < j, img2[i] = Blank
                 PROVE  img2[j] = Blank
        BY DEF Packed
    <2>1. i \in Slot /\ j \in Slot
        BY SectorFacts
    <2>2. CASE i \in next
        <3>1. s = r
            BY <1>1, <2>2, SectorsApart DEF next
        <3> QED BY <3>1, <2>1, <1>2 DEF next
    <2>3. CASE i \notin next
        BY <2>1, <2>3, <1>2 DEF Ring, Packed
    <2> QED BY <2>2, <2>3
<1>6. img2[w] = Blank
    BY <1>2 DEF Ring
<1>7. \A i \in Slot : /\ i \in next => img2[i] = Blank
                      /\ i < w /\ i \notin next => img2[i] # Blank
    BY <1>2 DEF Ring
<1>8. img2[e] = Blank
    <2>1. CASE w = Slots - 1
        <3>1. 0 \in next
            BY <1>1, <2>1, SectorFacts DEF next
        <3> QED BY <3>1, <1>7, <2>1, SectorFacts DEF e, ErasedEnd
    <2>2. CASE w # Slots - 1
        BY <1>6, <2>2 DEF e, ErasedEnd
    <2> QED BY <2>1, <2>2
<1>9. \A i \in Slot : i < e => img2[i] # Blank
    <2> SUFFICES ASSUME NEW i \in Slot, i < e PROVE img2[i] # Blank
        OBVIOUS
    <2>1. i \in Nat /\ w # Slots - 1 /\ e = w
        BY DEF e, ErasedEnd, Slot
    <2>2. i \notin next
        BY <2>1, <1>1, <1>3, <1>4
    <2> QED BY <2>1, <2>2, <1>7
<1>10. Above(img2, e)
    <2>1. CASE w = Slots - 1
        <3> SUFFICES ASSUME NEW s \in Sector, s * Lines > e + 1
                     PROVE  img2[s * Lines] # Blank
            BY DEF Above
        <3>1. e = 0 /\ s * Lines \in Slot /\ s * Lines \in SlotsOf(s)
            BY <2>1, SectorFacts DEF e, ErasedEnd
        <3>2. s * Lines # 0 /\ s * Lines + Lines <= Slots /\ s * Lines \in Nat
            <4>1. s * Lines + Lines - 1 \in Slot
                BY SectorFacts
            <4>2. s * Lines \in Nat
                BY <3>1 DEF Slot
            <4>3. s * Lines + Lines - 1 <= Slots - 1
                BY <4>1 DEF Slot
            <4> QED BY <4>2, <4>3, <3>1, <1>3
        <3>3. s * Lines < w
            BY <3>2, <2>1, <1>3
        <3>4. s * Lines \notin next
            BY <3>1, <3>2, <1>1, <2>1, SectorsApart DEF next
        <3> QED BY <3>1, <3>3, <3>4, <1>7
    <2>2. CASE w # Slots - 1 /\ \A i \in Slot : i > w => img[i] = Blank
        BY <2>2, <1>2 DEF Above, e, ErasedEnd
    <2>3. CASE w # Slots - 1 /\ \A s \in Sector : s * Lines > w + 1 => img[s * Lines] # Blank
        <3> SUFFICES ASSUME NEW s \in Sector, s * Lines > w + 1
                     PROVE  img2[s * Lines] # Blank
            BY <2>3 DEF Above, e, ErasedEnd
        <3>1. s * Lines \in Slot /\ s * Lines \in SlotsOf(s) /\ s * Lines # After(w)
            BY <2>3, <1>1, <1>3, SectorFacts DEF Slot
        <3>2. s * Lines \notin next
            BY <3>1, <1>1, SectorsApart DEF next
        <3> QED BY <2>3, <3>1, <3>2, <1>2
    <2> QED BY <2>1, <2>2, <2>3 DEF Ring, Above
<1>11. Ordered(img2, e)
    <2> SUFFICES ASSUME NEW i \in Filled(img2), NEW j \in Filled(img2), i < j
                 PROVE  IF i < e /\ e <= j THEN img2[j].id < img2[i].id
                        ELSE img2[i].id < img2[j].id
        BY DEF Ordered
    <2>1. /\ i \in Slot /\ j \in Slot /\ i \in Filled(img) /\ j \in Filled(img)
          /\ img2[i] = img[i] /\ img2[j] = img[j] /\ j # w
        BY <1>2, <1>6 DEF Filled
    <2>2. IF i < w /\ w <= j THEN img2[j].id < img2[i].id
          ELSE img2[i].id < img2[j].id
        BY <2>1 DEF Ordered
    <2>3. CASE w = Slots - 1
        BY <2>1, <2>2, <2>3, <1>3 DEF e, ErasedEnd, Slot
    <2>4. CASE w # Slots - 1
        BY <2>2, <2>4 DEF e, ErasedEnd
    <2> QED BY <2>3, <2>4
<1> QED BY <1>5, <1>6, <1>7, <1>8, <1>9, <1>10, <1>11 DEF Ring, r, next, img2, e

\* Writing a line at w, newer than all others, moves the end of the ring on.
LEMMA WriteRing ==
    ASSUME NEW img \in Image_, NEW w \in Slot, NEW l \in Line,
           Ring(img, ErasedEnd(w)), Ordered(img, ErasedEnd(w)), img[w] = Blank,
           After(w) % Lines = 0 => \A i \in Slot :
                /\ i \in SlotsOf(After(w) \div Lines) => img[i] = Blank
                /\ i < w /\ i \notin SlotsOf(After(w) \div Lines) => img[i] # Blank,
           \A i \in Filled(img) : img[i].id \in Nat /\ img[i].id < l.id
    PROVE  LET img2 == Set(img, {w}, l)
           IN  Ring(img2, After(w)) /\ Ordered(img2, After(w))
<1> DEFINE next == SlotsOf(After(w) \div Lines)
           img2 == Set(img, {w}, l)
           e == After(w)
<1>1. \A i \in Slot : img2[i] = IF i = w THEN l ELSE img[i]
    BY SetFacts
<1>2. l # Blank /\ l.id \in Nat
    BY NotBlank
<1>3. w \in Nat /\ w < Slots /\ Slots \in Nat /\ e \in Slot /\ e \in Nat
    BY SectorFacts, AfterFacts DEF Slot
<1>4. /\ w < Slots - 1 => e = w + 1 /\ ErasedEnd(w) = w
      /\ w = Slots - 1 => e = 0 /\ ErasedEnd(w) = 0 /\ e % Lines = 0
    BY <1>3, AfterFacts DEF ErasedEnd
<1>5. e % Lines = 0 => /\ e \div Lines \in Sector /\ (e \div Lines) * Lines = e
                       /\ e \in next /\ \A i \in next : i >= e /\ i < e + Lines
    <2> SUFFICES ASSUME e % Lines = 0
                 PROVE  /\ e \div Lines \in Sector /\ (e \div Lines) * Lines = e
                        /\ e \in next /\ \A i \in next : i >= e /\ i < e + Lines
        OBVIOUS
    <2>1. e \div Lines \in Sector /\ (e \div Lines) * Lines = e
        BY AfterFacts
    <2> QED BY <2>1, <1>3 DEF SlotsOf
<1> HIDE DEF next, img2, e
<1>6. \A s \in Sector : \A i, j \in SlotsOf(s) : i < j /\ j = w => img[i] # Blank
    <2> SUFFICES ASSUME NEW s \in Sector, NEW i \in SlotsOf(s), w \in SlotsOf(s), i < w
                 PROVE  img[i] # Blank
        OBVIOUS
    <2>1. i \in Slot /\ i \in Nat
        BY SectorFacts DEF Slot
    <2>2. CASE w < Slots - 1
        BY <2>1, <2>2, <1>4 DEF Ring
    <2>3. CASE w = Slots - 1
        <3>1. 0 \in Sector /\ 0 \in next /\ next = SlotsOf(0)
            BY <2>3, <1>4, <1>5, SectorFacts DEF next, e, Sector
        <3>2. w \notin next
            <4>1. e = 0 /\ \A j \in next : j < e + Lines
                BY <2>3, <1>4, <1>5
            <4>2. w >= Lines
                BY <2>3, <1>3, SectorFacts
            <4> QED BY <4>1, <4>2, <1>3
        <3>3. i \notin next
            BY <3>1, <3>2, SectorsApart
        <3> QED BY <2>1, <2>3, <3>3, <1>4 DEF next, e
    <2> QED BY <2>2, <2>3, <1>3
<1>7. Packed(img2)
    <2> SUFFICES ASSUME NEW s \in Sector, NEW i \in SlotsOf(s), NEW j \in SlotsOf(s),
                        i < j, img2[i] = Blank
                 PROVE  img2[j] = Blank
        BY DEF Packed
    <2>1. i \in Slot /\ j \in Slot
        BY SectorFacts
    <2>2. i # w /\ img[i] = Blank
        BY <2>1, <1>1, <1>2
    <2>3. img[j] = Blank /\ j # w
        BY <2>2, <1>6 DEF Ring, Packed
    <2> QED BY <2>1, <2>3, <1>1
<1>8. img2[e] = Blank
    <2>1. e # w
        BY <1>3, <1>4, SectorFacts
    <2>2. CASE e % Lines = 0
        BY <2>1, <2>2, <1>1, <1>3, <1>5 DEF next, e
    <2>3. CASE e % Lines # 0
        <3> DEFINE s == w \div Lines
        <3>1. s \in Sector /\ w \in SlotsOf(s) /\ e = w + 1
            BY <2>3, <1>3, <1>4, SectorFacts
        <3>2. s + 1 \in Nat /\ (s + 1) * Lines = s * Lines + Lines /\ s * Lines \in Nat
            BY <3>1, SectorFacts DEF Sector, Slot
        <3>3. e # s * Lines + Lines
            <4> SUFFICES ASSUME e = s * Lines + Lines PROVE FALSE
                OBVIOUS
            <4>1. s + 1 \in Sector
                <5> SUFFICES ASSUME s + 1 = Sectors PROVE FALSE
                    BY <3>1 DEF Sector
                <5>1. s * Lines + Lines = Slots
                    BY <3>2 DEF Slots
                <5> QED BY <5>1, <1>3 DEF Slot
            <4>2. (s + 1) * Lines = w + 1
                BY <3>1, <3>2
            <4> QED BY <4>1, <4>2, <2>3, AfterFacts DEF e
        <3>4. e \in SlotsOf(s)
            BY <3>1, <3>2, <3>3, <1>3 DEF SlotsOf
        <3>5. img[e] = Blank
            BY <3>1, <3>4, <1>3 DEF Ring, Packed
        <3> QED BY <3>5, <2>1, <1>1, <1>3
    <2> QED BY <2>2, <2>3
<1>9. \A i \in Slot : i < e => img2[i] # Blank
    <2> SUFFICES ASSUME NEW i \in Slot, i < e PROVE img2[i] # Blank
        OBVIOUS
    <2>1. i \in Nat
        BY DEF Slot
    <2>2. w < Slots - 1 /\ i <= w
        BY <2>1, <1>3, <1>4
    <2> QED BY <2>1, <2>2, <1>1, <1>2, <1>3, <1>4 DEF Ring
<1>10. Above(img2, e)
    <2>1. CASE w < Slots - 1
        <3>1. CASE \A i \in Slot : i > w => img[i] = Blank
            <4>1. \A i \in Slot : i > e => img2[i] = Blank
                BY <3>1, <2>1, <1>1, <1>3, <1>4 DEF Slot
            <4> QED BY <4>1 DEF Above
        <3>2. CASE \A s \in Sector : s * Lines > w + 1 => img[s * Lines] # Blank
            <4>1. \A s \in Sector : s * Lines \in Slot /\ s * Lines \in Nat
                BY SectorFacts DEF Slot
            <4>2. \A s \in Sector : s * Lines > e + 1 => img2[s * Lines] # Blank
                BY <3>2, <4>1, <2>1, <1>1, <1>2, <1>3, <1>4
            <4> QED BY <4>2 DEF Above
        <3> QED BY <2>1, <3>1, <3>2, <1>4 DEF Ring, Above
    <2>2. CASE w = Slots - 1
        <3> SUFFICES ASSUME NEW s \in Sector, s * Lines > e + 1
                     PROVE  img2[s * Lines] # Blank
            BY DEF Above
        <3>1. e = 0 /\ s * Lines \in Slot /\ s * Lines \in SlotsOf(s) /\ s * Lines \in Nat
            BY <2>2, <1>4, SectorFacts DEF Slot
        <3>2. s * Lines \notin next
            <4>1. 0 \in next /\ 0 \in Sector /\ next = SlotsOf(0)
                BY <2>2, <1>4, <1>5, SectorFacts DEF next, e, Sector
            <4>2. s # 0
                BY <3>1
            <4> QED BY <4>1, <4>2, <3>1, SectorsApart
        <3>3. s * Lines <= w
            BY <3>1, <2>2 DEF Slot
        <3> QED BY <3>1, <3>2, <3>3, <2>2, <1>1, <1>2, <1>3, <1>4 DEF next, e
    <2> QED BY <2>1, <2>2, <1>3
<1>11. Ordered(img2, e)
    <2> SUFFICES ASSUME NEW i \in Filled(img2), NEW j \in Filled(img2), i < j
                 PROVE  IF i < e /\ e <= j THEN img2[j].id < img2[i].id
                        ELSE img2[i].id < img2[j].id
        BY DEF Ordered
    <2>1. /\ i \in Slot /\ j \in Slot /\ i \in Nat /\ j \in Nat
          /\ i # w => i \in Filled(img) /\ img2[i] = img[i]
          /\ j # w => j \in Filled(img) /\ img2[j] = img[j]
          /\ i = w => img2[i] = l
          /\ j = w => img2[j] = l
        BY <1>1 DEF Filled, Slot
    <2>2. CASE i = w
        BY <2>1, <2>2, <1>3, <1>4 DEF Slot
    <2>3. CASE j = w
        BY <2>1, <2>3, <1>3, <1>4 DEF Slot
    <2>4. CASE i # w /\ j # w
        <3>1. IF i < ErasedEnd(w) /\ ErasedEnd(w) <= j THEN img[j].id < img[i].id
              ELSE img[i].id < img[j].id
            BY <2>1, <2>4 DEF Ordered
        <3> QED BY <2>1, <2>4, <3>1, <1>3, <1>4
    <2> QED BY <2>2, <2>3, <2>4
<1> QED BY <1>7, <1>8, <1>9, <1>10, <1>11 DEF Ring, img2, e

\* The write sector and its end are those of w.  With sector 0 blank the ring
\* is empty, or more than one sector is in use.
LEMMA ScanSector ==
    ASSUME NEW img \in Image_, NEW w \in Slot, Ring(img, w)
    PROVE  /\ Open(img) # {}
           /\ WriteSector(img) = w \div Lines
           /\ EndOf(img, w \div Lines) = w
           /\ 0 \notin Used(img) => w = 0
           /\ ~(Used(img) # {} /\ Cardinality(Used(img)) = 1 /\ 0 \notin Used(img))
<1> DEFINE s == w \div Lines
<1>0. s \in Sector /\ w \in SlotsOf(s) /\ w \in Nat
    BY SectorFacts DEF Slot
<1> HIDE DEF s
<1>1. /\ s \in Sector /\ w \in SlotsOf(s) /\ SlotsOf(s) \subseteq Slot
      /\ s * Lines \in Slot /\ s * Lines \in SlotsOf(s)
      /\ s * Lines + Lines - 1 \in SlotsOf(s)
      /\ w \in Nat /\ s * Lines \in Nat /\ s * Lines <= w
    <2>1. /\ SlotsOf(s) \subseteq Slot /\ s * Lines \in Slot
          /\ s * Lines \in SlotsOf(s) /\ s * Lines + Lines - 1 \in SlotsOf(s)
        BY <1>0, SectorFacts
    <2>2. s * Lines \in Nat
        BY <2>1 DEF Slot
    <2> QED BY <1>0, <2>1, <2>2 DEF SlotsOf
<1>2. s \in Open(img)
    <2>1. w = s * Lines + Lines - 1 \/ w < s * Lines + Lines - 1
        BY <1>1 DEF SlotsOf
    <2>2. img[s * Lines + Lines - 1] = Blank
        BY <1>1, <2>1 DEF Ring, Packed
    <2> QED BY <1>1, <2>2 DEF Open
<1>3. \A q \in Open(img) : s <= q
    <2> SUFFICES ASSUME NEW q \in Open(img), q < s PROVE FALSE
        BY <1>1 DEF Open, Sector
    <2>1. /\ q \in Sector /\ q * Lines \in Slot /\ q * Lines + Lines - 1 \in Slot
          /\ q * Lines + Lines <= s * Lines /\ q * Lines \in Nat
        BY <1>1, SectorFacts DEF Open, Slot
    <2>2. q * Lines < w /\ q * Lines + Lines - 1 < w
        BY <2>1, <1>1
    <2>3. img[q * Lines] # Blank /\ img[q * Lines + Lines - 1] # Blank
        BY <2>1, <2>2 DEF Ring
    <2> QED BY <2>3 DEF Open
<1>4. WriteSector(img) = s
    <2>1. \A q \in Open(img) : q \in Sector
        BY DEF Open
    <2>2. \A q \in Open(img) : (\A u \in Open(img) : q <= u) => q = s
        BY <1>1, <1>2, <1>3, <2>1 DEF Sector
    <2> QED BY <1>2, <1>3, <2>2 DEF WriteSector
<1>5. EndOf(img, s) = w
    <2>1. CASE img[s * Lines] = Blank
        <3>1. ~(s * Lines < w)
            BY <2>1, <1>1 DEF Ring
        <3> QED BY <2>1, <3>1, <1>1 DEF EndOf
    <2>2. CASE img[s * Lines] # Blank
        <3> DEFINE Last(i) == /\ img[i] # Blank
                              /\ \A j \in SlotsOf(s) : j > i => img[j] = Blank
        <3>1. s * Lines < w
            BY <2>2, <1>1 DEF Ring
        <3>2. w - 1 \in SlotsOf(s) /\ w - 1 \in Slot /\ w - 1 < w
            BY <3>1, <1>1 DEF SlotsOf, Slot
        <3>3. Last(w - 1)
            <4>1. img[w - 1] # Blank
                BY <3>2 DEF Ring
            <4>2. ASSUME NEW j \in SlotsOf(s), j > w - 1 PROVE img[j] = Blank
                <5>1. j = w \/ j > w
                    BY <4>2, <1>1 DEF SlotsOf
                <5> QED BY <5>1, <1>1 DEF Ring, Packed
            <4> QED BY <4>1, <4>2
        <3>4. ASSUME NEW i \in SlotsOf(s), Last(i) PROVE i = w - 1
            <4>1. i \in Nat /\ i # w
                BY <1>1, <3>4 DEF Ring, SlotsOf
            <4>2. ~(i > w)
                BY <3>4, <1>1 DEF Ring, Packed
            <4>3. ~(i < w - 1)
                BY <3>2, <3>3, <3>4
            <4> QED BY <4>1, <4>2, <4>3, <1>1
        <3> DEFINE last == CHOOSE i \in SlotsOf(s) : Last(i)
        <3>5. last = w - 1
            BY <3>2, <3>3, <3>4
        <3>6. EndOf(img, s) = 1 + last
            BY <2>2, Zenon DEF EndOf
        <3> HIDE DEF last
        <3> QED BY <3>5, <3>6, <1>1
    <2> QED BY <2>1, <2>2
<1>6. 0 \notin Used(img) => w = 0
    <2> SUFFICES ASSUME w > 0 PROVE 0 \in Used(img)
        BY <1>1
    <2>1. 0 \in Sector /\ 0 * Lines = 0
        BY DEF Sector
    <2> QED BY <2>1, SectorFacts DEF Ring, Used
<1>7. ~(Used(img) # {} /\ Cardinality(Used(img)) = 1 /\ 0 \notin Used(img))
    <2> SUFFICES ASSUME Used(img) # {}, Cardinality(Used(img)) = 1, 0 \notin Used(img)
                 PROVE  FALSE
        OBVIOUS
    <2>1. w = 0
        BY <1>6
    <2>2. PICK u \in Used(img) : u \in Sector /\ u # 0 /\ img[u * Lines] # Blank
        BY DEF Used
    <2>3. u * Lines \in Slot /\ u * Lines > 0
        <3>1. 0 \in Sector /\ 0 < u
            BY <2>2 DEF Sector
        <3>2. 0 * Lines + Lines <= u * Lines
            BY <2>2, <3>1, SectorFacts
        <3> QED BY <3>2, <2>2, SectorFacts DEF Slot
    <2>4. \A q \in Sector : q * Lines > 1 => q \in Used(img)
        BY <2>1, <2>2, <2>3 DEF Ring, Above, Used
    <2>5. 1 \in Used(img) /\ 2 \in Used(img)
        BY <2>4 DEF Sector
    <2>6. IsFiniteSet(Used(img))
        <3>1. IsFiniteSet(Sector)
            BY FS_Interval DEF Sector
        <3> QED BY <3>1, FS_Subset DEF Used
    <2>7. PICK x : Used(img) = {x}
        BY <2>6, FS_Singleton
    <2> QED BY <2>5, <2>7
<1> QED BY <1>2, <1>4, <1>5, <1>6, <1>7 DEF s

\* The scan finds the end of the ring.
LEMMA ScanFindsEnd ==
    ASSUME NEW img \in Image_, NEW w \in Slot, Ring(img, w),
           NEW old, NEW r \in GetLogInfo(img, old)
    PROVE  r \in Info /\ r.pWrite = w
<1> DEFINE s == w \div Lines
<1>0. s \in Sector /\ w \in Nat
    BY SectorFacts DEF Slot
<1>1. /\ Open(img) # {} /\ WriteSector(img) = s /\ EndOf(img, s) = w
      /\ 0 \notin Used(img) => w = 0
      /\ ~(Used(img) # {} /\ Cardinality(Used(img)) = 1 /\ 0 \notin Used(img))
    BY ScanSector
<1> HIDE DEF s
<1>2. ASSUME NEW lapped
      PROVE  /\ ScanResult(img, old, lapped) \in Info
             /\ ScanResult(img, old, lapped).pWrite = w
    <2>1. CASE Used(img) = {}
        <3>1. ScanResult(img, old, lapped) = NoInfo
            BY <2>1 DEF ScanResult
        <3>2. NoInfo \in Info /\ NoInfo.pWrite = 0
            BY SectorFacts, UInt16Facts DEF NoInfo, Info
        <3> QED BY <2>1, <3>1, <3>2, <1>1
    <2>2. CASE Used(img) # {}
        <3> DEFINE next == (img[Before(w)].num + 1) % 65536
                   start == IF lapped THEN AfterSector(s) ELSE 0
                   first == IF lapped THEN img[start].num ELSE 0
        <3>1. ScanResult(img, old, lapped) =
                [pStart |-> start, pWrite |-> w, next |-> next,
                 first |-> first, count |-> CountOf(next, first)]
            BY <2>2, <1>1 DEF ScanResult
        <3>2. \A i \in Slot : img[i].num \in UInt16
            <4> SUFFICES ASSUME NEW i \in Slot PROVE img[i].num \in UInt16
                OBVIOUS
            <4>1. img[i] \in Line \/ img[i] = Blank
                BY DEF Image_
            <4>2. \A l \in Line : l.num \in UInt16
                BY DEF Line
            <4>3. Blank.num \in UInt16
                BY UInt16Facts DEF Blank
            <4> QED BY <4>1, <4>2, <4>3
        <3>3. Before(w) \in Slot /\ next \in UInt16
            <4>1. Before(w) \in Slot
                <5>1. w + Slots - 1 \in Int /\ Slots \in Nat \ {0}
                    BY <1>0, SectorFacts
                <5> QED BY <5>1, ModRange DEF Before, Slot
            <4>2. img[Before(w)].num \in UInt16
                BY <4>1, <3>2
            <4>3. \A n \in UInt16 : (n + 1) % 65536 \in UInt16
                BY UInt16Facts
            <4> QED BY <4>1, <4>2, <4>3
        <3>4. start \in Slot
            <4>1. (s + 1) % Sectors \in Sector
                BY <1>0 DEF Sector
            <4> QED BY <4>1, SectorFacts DEF AfterSector
        <3>5. first \in UInt16
            <4>1. 0 \in UInt16
                BY UInt16Facts
            <4> QED BY <3>2, <3>4, <4>1
        <3> HIDE DEF next, start, first
        <3>6. CountOf(next, first) \in UInt16
            <4>1. Numbers \in Nat
                BY NumbersAssumption
            <4>2. \A n \in Int : n % 65536 \in UInt16
                BY UInt16Facts
            <4>3. next \in Nat /\ first \in Nat
                BY <3>3, <3>5, UInt16Facts
            <4>4. (IF next >= first THEN next - first ELSE Numbers - (first - next)) \in Int
                BY <4>1, <4>3
            <4> QED BY <4>2, <4>4 DEF CountOf
        <3> QED BY <3>1, <3>3, <3>4, <3>5, <3>6 DEF Info
    <2> QED BY <2>1, <2>2
<1>3. PICK lapped : r = ScanResult(img, old, lapped)
    BY DEF GetLogInfo
<1> QED BY <1>2, <1>3

-----------------------------------------------------------------------------
(* The steps.                                                              *)

LEMMA ErasedRing == Erased \in Image_ /\ Ring(Erased, 0) /\ Ordered(Erased, 0)
<1>1. Erased \in Image_ /\ \A i \in Slot : Erased[i] = Blank
    BY DEF Erased, Image_
<1>2. Filled(Erased) = {}
    BY <1>1 DEF Filled
<1>3. \A s \in Sector : SlotsOf(s) \subseteq Slot
    BY SectorFacts
<1>4. Packed(Erased)
    BY <1>1, <1>3 DEF Packed
<1>5. Erased[0] = Blank /\ \A i \in Slot : ~(i < 0)
    BY <1>1, SectorFacts DEF Slot
<1>6. Above(Erased, 0)
    BY <1>1 DEF Above
<1>7. Ordered(Erased, 0)
    BY <1>2 DEF Ordered
<1> QED BY <1>1, <1>4, <1>5, <1>6, <1>7 DEF Ring

LEMMA InitIInv == Init => IInv
<1> SUFFICES ASSUME Init PROVE IInv
    OBVIOUS
<1>1. p = "idle" /\ End = 0
    BY OneThread DEF Init, p, End, NoInfo
<1>2. TypeOK
    <2>1. NoInfo \in Info /\ 0 \in UInt16
        BY SectorFacts, UInt16Facts DEF NoInfo, Info
    <2>2. logData \in [Slot -> Line \cup {Blank}] /\ logFile \in [Slot -> Line \cup {Blank}]
        BY ErasedRing DEF Init, Image_
    <2>3. get \in [pRead : Slot, left : UInt16]
        BY <2>1, SectorFacts DEF Init
    <2> QED BY <2>1, <2>2, <2>3 DEF Init, TypeOK, Pc
<1>3. Ring(logFile, End) /\ Ordered(logFile, End)
    BY <1>1, ErasedRing DEF Init
<1>4. Filled(logFile) = {}
    BY DEF Init, Filled, Erased
<1> QED BY <1>1, <1>2, <1>3, <1>4 DEF Init, IInv, Image, Writing, Ages, Cursor

\* The types the steps rely on.
LEMMA Types ==
    ASSUME IInv
    PROVE  /\ cmd \in Thread /\ p \in Pc /\ logFile \in Image_ /\ logData \in Image_
           /\ info \in Info /\ info.pWrite \in Slot /\ End \in Slot
           /\ puts \in Nat /\ sent \in Nat /\ crashes \in Nat
           /\ get.pRead \in Slot /\ get.left \in UInt16
           /\ p \notin {"clearInfo", "copy", "store", "advance"} => End = info.pWrite
           /\ p = "clearInfo" => End = 0
           /\ p \in {"copy", "store"} => End = ErasedEnd(info.pWrite)
           /\ p = "advance" => End = After(info.pWrite)
           /\ \A i \in Filled(logFile) : logFile[i] \in Line
<1>1. /\ cmd \in Thread /\ p \in Pc /\ logFile \in Image_ /\ logData \in Image_
      /\ info \in Info /\ info.pWrite \in Slot
      /\ puts \in Nat /\ sent \in Nat /\ crashes \in Nat
      /\ get.pRead \in Slot /\ get.left \in UInt16
    BY OneThread DEF IInv, TypeOK, p, Image_, Info
<1>2. /\ p \notin {"clearInfo", "copy", "store", "advance"} => End = info.pWrite
      /\ p = "clearInfo" => End = 0
      /\ p \in {"copy", "store"} => End = ErasedEnd(info.pWrite)
      /\ p = "advance" => End = After(info.pWrite)
    BY <1>1, AfterFacts DEF End, ErasedEnd
<1>3. End \in Slot
    BY <1>1, AfterFacts, SectorFacts DEF End
<1>4. \A i \in Filled(logFile) : logFile[i] \in Line
    BY <1>1 DEF Filled, Image_
<1> QED BY <1>1, <1>2, <1>3, <1>4

\* A step of the only thread is a step of the one program counter.
LEMMA MovesTo ==
    ASSUME IInv, NEW x \in Pc, pc' = [pc EXCEPT ![cmd] = x]
    PROVE  p' = x /\ pc' \in [Thread -> Pc]
BY OneThread DEF IInv, TypeOK, p

LEMMA FillLineIInv == IInv /\ FillLine(cmd) => IInv'
<1> SUFFICES ASSUME IInv, FillLine(cmd) PROVE IInv'
    OBVIOUS
<1>0. "erase" \in Pc
    BY DEF Pc
<1>1. p \in {"idle", "fill"} /\ p' = "erase" /\ pc' \in [Thread -> Pc]
    BY <1>0, MovesTo DEF FillLine, p
<1>2. /\ End' = End /\ logFile' = logFile /\ logData' = logData /\ info' = info
      /\ get' = get /\ sent' = sent /\ puts' = puts + 1
      /\ logLine' \in Line /\ logLine'.id = puts + 1
    <2>1. puts + 1 \in Nat \ {0} /\ info.next \in UInt16
        BY Types DEF Info
    <2> QED BY <1>1, <2>1 DEF FillLine, log, End, Line
<1>3. TypeOK'
    BY <1>1, <1>2, Types DEF FillLine, IInv, TypeOK
<1>4. Image'
    BY <1>1, <1>2 DEF IInv, Image
<1>5. Ages'
    BY <1>1, <1>2, Types, NotBlank DEF IInv, Ages, Filled, Line
<1>6. Cursor'
    BY <1>1, <1>2, Types DEF IInv, Cursor, Filled
<1>7. Writing'
    BY <1>1 DEF Writing
<1>8. Ring(logFile, End)' /\ Ordered(logFile, End)'
    BY <1>2 DEF IInv, Ring, Packed, Above, Ordered, Filled
<1> QED BY <1>3, <1>4, <1>5, <1>6, <1>7, <1>8 DEF IInv

LEMMA EraseAheadIInv == IInv /\ EraseAhead(cmd) => IInv'
<1> SUFFICES ASSUME IInv, EraseAhead(cmd) PROVE IInv'
    OBVIOUS
<1>0. {"eraseStore", "copy"} \subseteq Pc
    BY DEF Pc
<1>1. p = "erase" /\ p' = (IF AtSectorEnd THEN "eraseStore" ELSE "copy")
      /\ pc' \in [Thread -> Pc]
    BY <1>0, MovesTo DEF EraseAhead, AtSectorEnd, p
<1>2. /\ logFile' = logFile /\ info' = info /\ logLine' = logLine
      /\ get' = get /\ sent' = sent /\ puts' = puts /\ done' = done /\ crashes' = crashes
    BY DEF EraseAhead, hist
<1>3. info.pWrite = Slots - 1 => AtSectorEnd
    BY Types, AfterFacts DEF AtSectorEnd
<1>4. End' = End /\ End = info.pWrite
    BY <1>1, <1>2, <1>3, Types DEF End
<1>5. Image' /\ logData' \in Image_
    <2>1. CASE AtSectorEnd
        <3>1. NextSector \in SUBSET Slot
            BY <2>1, Types, AfterFacts, SectorFacts DEF NextSector, AtSectorEnd
        <3>2. logData' = Set(logFile, NextSector, Blank)
            BY <2>1, <1>1 DEF EraseAhead, AtSectorEnd, NextSector, IInv, Image
        <3>3. logData' \in Image_
            BY <3>1, <3>2, Types, SetFacts
        <3> QED BY <2>1, <3>2, <3>3, <1>1, <1>2 DEF Image, NextSector
    <2>2. CASE ~AtSectorEnd
        BY <2>2, <1>1, <1>2, Types DEF EraseAhead, AtSectorEnd, IInv, Image
    <2> QED BY <2>1, <2>2
<1>6. TypeOK'
    BY <1>1, <1>2, <1>5 DEF IInv, TypeOK, Image_
<1>7. Writing'
    <2>1. logFile[info.pWrite] = Blank
        BY <1>4 DEF IInv, Ring
    <2> QED BY <2>1, <1>1, <1>2 DEF Writing, AtSectorEnd
<1>8. Ages' /\ Cursor'
    BY <1>1, <1>2 DEF IInv, Ages, Cursor, Filled
<1>9. Ring(logFile, End)' /\ Ordered(logFile, End)'
    BY <1>2, <1>4 DEF IInv, Ring, Packed, Above, Ordered, Filled
<1> QED BY <1>5, <1>6, <1>7, <1>8, <1>9 DEF IInv

LEMMA StoreEraseIInv == IInv /\ StoreErase(cmd) => IInv'
<1> SUFFICES ASSUME IInv, StoreErase(cmd) PROVE IInv'
    OBVIOUS
<1> DEFINE w == info.pWrite
<1>0. "copy" \in Pc
    BY DEF Pc
<1>1. p = "eraseStore" /\ p' = "copy" /\ pc' \in [Thread -> Pc]
    BY <1>0, MovesTo DEF StoreErase, Store, p
<1>2. /\ logData' = logData /\ info' = info /\ logLine' = logLine /\ get' = get
      /\ sent' = sent /\ puts' = puts /\ done' = done /\ crashes' = crashes
      /\ logFile' = Set(logFile, NextSector, Blank) /\ logFile' = logData'
    BY <1>1 DEF StoreErase, Store, hist, IInv, Image
<1>3. /\ AtSectorEnd /\ Ring(logFile, w) /\ Ordered(logFile, w)
      /\ w \in Slot /\ logFile \in Image_ /\ NextSector \in SUBSET Slot
    <2>1. AtSectorEnd
        BY <1>1 DEF IInv, Writing
    <2>2. NextSector \in SUBSET Slot
        BY <2>1, Types, AfterFacts, SectorFacts DEF NextSector, AtSectorEnd
    <2> QED BY <2>1, <2>2, <1>1, Types DEF IInv
<1>4. /\ Ring(logFile', ErasedEnd(w)) /\ Ordered(logFile', ErasedEnd(w))
      /\ logFile'[w] = Blank
      /\ \A i \in Slot : /\ i \in NextSector => logFile'[i] = Blank
                         /\ i < w /\ i \notin NextSector => logFile'[i] # Blank
    BY <1>2, <1>3, EraseRing DEF AtSectorEnd, NextSector
<1>5. End' = ErasedEnd(w)
    BY <1>1, <1>2, <1>3, AfterFacts DEF End, ErasedEnd
<1>6. Ring(logFile, End)' /\ Ordered(logFile, End)'
    BY <1>4, <1>5 DEF Ring, Packed, Above, Ordered, Filled
<1>7. /\ logFile' \in Image_
      /\ \A i \in Filled(logFile') : i \in Filled(logFile) /\ logFile'[i] = logFile[i]
    <2>1. Blank \in Line \cup {Blank}
        OBVIOUS
    <2>2. /\ logFile' \in Image_
          /\ \A i \in Slot : logFile'[i] = IF i \in NextSector THEN Blank ELSE logFile[i]
        BY <2>1, <1>2, <1>3 DEF Set, Image_
    <2> QED BY <2>2 DEF Filled
<1>8. TypeOK'
    BY <1>1, <1>2, <1>7 DEF IInv, TypeOK, Image_
<1>9. Writing'
    BY <1>1, <1>2, <1>4 DEF Writing, AtSectorEnd, NextSector
<1>10. Ages' /\ Cursor'
    BY <1>1, <1>2, <1>7 DEF IInv, Ages, Cursor, Filled
<1>11. Image'
    BY <1>1, <1>2 DEF Image
<1> QED BY <1>6, <1>8, <1>9, <1>10, <1>11 DEF IInv

LEMMA CopyLineIInv == IInv /\ CopyLine(cmd) => IInv'
<1> SUFFICES ASSUME IInv, CopyLine(cmd) PROVE IInv'
    OBVIOUS
<1>0. "store" \in Pc
    BY DEF Pc
<1>1. p = "copy" /\ p' = "store" /\ pc' \in [Thread -> Pc]
    BY <1>0, MovesTo DEF CopyLine, p
<1>2. /\ logFile' = logFile /\ info' = info /\ logLine' = logLine /\ get' = get
      /\ sent' = sent /\ puts' = puts /\ done' = done /\ crashes' = crashes
      /\ logData' = Set(logFile, {info.pWrite}, logLine)
    BY <1>1 DEF CopyLine, hist, IInv, Image
<1>3. logData' \in Image_
    <2>1. logLine \in Line \cup {Blank} /\ {info.pWrite} \in SUBSET Slot
        BY Types DEF IInv, TypeOK
    <2> QED BY <2>1, <1>2, Types, SetFacts
<1>4. TypeOK'
    BY <1>1, <1>2, <1>3 DEF IInv, TypeOK, Image_
<1>5. End' = End
    BY <1>1, <1>2 DEF End
<1>6. Image'
    BY <1>1, <1>2 DEF Image
<1>7. Writing'
    BY <1>1, <1>2 DEF IInv, Writing, AtSectorEnd, NextSector
<1>8. Ages' /\ Cursor'
    BY <1>1, <1>2 DEF IInv, Ages, Cursor, Filled
<1>9. Ring(logFile, End)' /\ Ordered(logFile, End)'
    BY <1>2, <1>5 DEF IInv, Ring, Packed, Above, Ordered, Filled
<1> QED BY <1>4, <1>6, <1>7, <1>8, <1>9 DEF IInv

LEMMA StoreLineIInv == IInv /\ StoreLine(cmd) => IInv'
<1> SUFFICES ASSUME IInv, StoreLine(cmd) PROVE IInv'
    OBVIOUS
<1> DEFINE w == info.pWrite
<1>0. "advance" \in Pc
    BY DEF Pc
<1>1. p = "store" /\ p' = "advance" /\ pc' \in [Thread -> Pc]
    BY <1>0, MovesTo DEF StoreLine, Store, p
<1>2. /\ logData' = logData /\ info' = info /\ logLine' = logLine /\ get' = get
      /\ sent' = sent /\ puts' = puts /\ done' = done /\ crashes' = crashes
      /\ logFile' = Set(logFile, {w}, logLine) /\ logFile' = logData'
    BY <1>1 DEF StoreLine, Store, hist, IInv, Image
<1>3. /\ logLine \in Line /\ logLine.id = puts /\ puts \in Nat /\ w \in Slot
      /\ {w} \in SUBSET Slot /\ logFile \in Image_ /\ logFile[w] = Blank
    BY <1>1, Types DEF IInv, TypeOK, Ages, Writing
<1>4. \A i \in Filled(logFile) : logFile[i].id \in Nat /\ logFile[i].id < logLine.id
    BY <1>1, <1>3, Types, NotBlank DEF IInv, Ages
<1>5. /\ logFile' \in Image_
      /\ \A i \in Slot : logFile'[i] = IF i = w THEN logLine ELSE logFile[i]
    BY <1>2, <1>3 DEF Set, Image_
<1>6. Ring(logFile', After(w)) /\ Ordered(logFile', After(w))
    <2>1. Ring(logFile, ErasedEnd(w)) /\ Ordered(logFile, ErasedEnd(w))
        BY <1>1, Types DEF IInv
    <2>2. After(w) % Lines = 0 => \A i \in Slot :
                /\ i \in SlotsOf(After(w) \div Lines) => logFile[i] = Blank
                /\ i < w /\ i \notin SlotsOf(After(w) \div Lines) => logFile[i] # Blank
        BY <1>1 DEF IInv, Writing, AtSectorEnd, NextSector
    <2> QED BY <2>1, <2>2, <1>2, <1>3, <1>4, WriteRing
<1>7. End' = After(w)
    BY <1>1, <1>2 DEF End
<1>8. Ring(logFile, End)' /\ Ordered(logFile, End)'
    BY <1>6, <1>7 DEF Ring, Packed, Above, Ordered, Filled
<1>9. TypeOK'
    BY <1>1, <1>2, <1>5 DEF IInv, TypeOK, Image_
<1>10. Image' /\ Writing'
    BY <1>1, <1>2 DEF Image, Writing
<1>11. Ages'
    <2>1. \A i \in Filled(logFile') : logFile'[i].id <= puts
        BY <1>3, <1>4, <1>5 DEF Filled
    <2>2. logLine # Blank
        BY <1>3, NotBlank
    <2> QED BY <2>1, <2>2, <1>1, <1>2, <1>3 DEF Ages
<1>12. Cursor'
    BY <1>1, <1>2, <1>3, <1>5, Types DEF IInv, Cursor, Filled
<1> QED BY <1>8, <1>9, <1>10, <1>11, <1>12 DEF IInv

LEMMA AdvanceIInv == IInv /\ Advance(cmd) => IInv'
<1> SUFFICES ASSUME IInv, Advance(cmd) PROVE IInv'
    OBVIOUS
<1>0. "idle" \in Pc
    BY DEF Pc
<1>1. p = "advance" /\ p' = "idle" /\ pc' \in [Thread -> Pc]
    BY <1>0, MovesTo DEF Advance, p
<1>2. /\ logFile' = logFile /\ logData' = logData /\ logLine' = logLine /\ get' = get
      /\ sent' = sent /\ puts' = puts /\ crashes' = crashes
      /\ done' = done \cup {logLine.id}
    BY DEF Advance, log
<1>3. info' \in Info /\ info'.pWrite = After(info.pWrite)
    <2> DEFINE next == IF info.next + 1 >= Numbers THEN 0 ELSE info.next + 1
    <2>1. next \in UInt16
        <3>1. info.next \in UInt16
            BY Types DEF Info
        <3>2. ASSUME NEW n \in UInt16 PROVE (IF n + 1 >= Numbers THEN 0 ELSE n + 1) \in UInt16
            <4>1. n \in Nat /\ Numbers \in Nat /\ Numbers < 65535
                BY NumbersAssumption, UInt16Facts
            <4>2. CASE n + 1 >= Numbers
                BY <4>2, UInt16Facts
            <4>3. CASE ~(n + 1 >= Numbers)
                <5>1. n < MaxUInt16
                    BY <4>1, <4>3 DEF MaxUInt16
                <5> QED BY <4>3, <5>1, UInt16Facts
            <4> QED BY <4>2, <4>3
        <3> QED BY <3>1, <3>2
    <2>2. After(info.pWrite) \in Slot
        BY Types, AfterFacts
    <2>3. info' = [info EXCEPT !.pWrite = After(info.pWrite), !.next = next]
        BY DEF Advance
    <2> HIDE DEF next
    <2> QED BY <2>1, <2>2, <2>3, Types DEF Info
<1>4. TypeOK'
    <2>1. logLine.id = puts /\ logLine \in Line
        BY <1>1 DEF IInv, Ages, TypeOK
    <2>2. puts \in 1 .. puts
        BY <2>1, NotBlank, Types
    <2> QED BY <2>1, <2>2, <1>1, <1>2, <1>3 DEF IInv, TypeOK
<1>5. End' = End
    BY <1>1, <1>3, Types DEF End
<1>6. Ring(logFile, End)' /\ Ordered(logFile, End)'
    BY <1>2, <1>5 DEF IInv, Ring, Packed, Above, Ordered, Filled
<1>7. Image' /\ Writing'
    BY <1>1, <1>2 DEF IInv, Image, Writing
<1>8. Ages' /\ Cursor'
    BY <1>1, <1>2 DEF IInv, Ages, Cursor, Filled
<1> QED BY <1>4, <1>6, <1>7, <1>8 DEF IInv

LEMMA ClearIInv == IInv /\ Clear => IInv'
<1> SUFFICES ASSUME IInv, Clear PROVE IInv'
    OBVIOUS
<1>0. "clearStore" \in Pc
    BY DEF Pc
<1>1. p = "idle" /\ p' = "clearStore" /\ pc' \in [Thread -> Pc]
    BY <1>0, MovesTo DEF Clear, p
<1>2. /\ logFile' = logFile /\ logData' = Erased /\ info' = info /\ logLine' = logLine
      /\ get' = get /\ sent' = sent /\ puts' = puts /\ done' = done /\ crashes' = crashes
    BY DEF Clear, hist
<1>3. TypeOK'
    BY <1>1, <1>2, ErasedRing DEF IInv, TypeOK, Image_
<1>4. End' = End
    BY <1>1, <1>2, Types DEF End
<1>5. Ring(logFile, End)' /\ Ordered(logFile, End)'
    BY <1>2, <1>4 DEF IInv, Ring, Packed, Above, Ordered, Filled
<1>6. Image' /\ Writing'
    BY <1>1, <1>2 DEF Image, Writing
<1>7. Ages' /\ Cursor'
    BY <1>1, <1>2 DEF IInv, Ages, Cursor, Filled
<1> QED BY <1>3, <1>5, <1>6, <1>7 DEF IInv

LEMMA StoreClearIInv == IInv /\ StoreClear => IInv'
<1> SUFFICES ASSUME IInv, StoreClear PROVE IInv'
    OBVIOUS
<1>0. "clearInfo" \in Pc
    BY DEF Pc
<1>1. p = "clearStore" /\ p' = "clearInfo" /\ pc' \in [Thread -> Pc]
    BY <1>0, MovesTo DEF StoreClear, Store, p
<1>2. /\ logFile' = Erased /\ logData' = Erased /\ info' = info /\ logLine' = logLine
      /\ get' = get /\ sent' = sent /\ puts' = puts /\ done' = done /\ crashes' = crashes
    BY <1>1 DEF StoreClear, Store, hist, IInv, Image
<1>3. Filled(logFile') = {}
    BY <1>2 DEF Filled, Erased
<1>4. TypeOK'
    BY <1>1, <1>2, ErasedRing DEF IInv, TypeOK, Image_
<1>5. End' = 0
    BY <1>1 DEF End
<1>6. Ring(logFile, End)' /\ Ordered(logFile, End)'
    BY <1>2, <1>5, ErasedRing DEF Ring, Packed, Above, Ordered, Filled
<1>7. Image' /\ Writing'
    BY <1>1, <1>2 DEF Image, Writing, Erased
<1>8. Ages' /\ Cursor'
    BY <1>1, <1>2, <1>3 DEF IInv, Ages, Cursor, Filled
<1> QED BY <1>4, <1>6, <1>7, <1>8 DEF IInv

LEMMA ClearInfoIInv == IInv /\ ClearInfo => IInv'
<1> SUFFICES ASSUME IInv, ClearInfo PROVE IInv'
    OBVIOUS
<1>0. "fill" \in Pc
    BY DEF Pc
<1>1. p = "clearInfo" /\ p' = "fill" /\ pc' \in [Thread -> Pc]
    BY <1>0, MovesTo DEF ClearInfo, p
<1>2. /\ logFile' = logFile /\ logData' = logData /\ info' = NoInfo
      /\ logLine' = logLine /\ puts' = puts /\ crashes' = crashes
      /\ get' = [pRead |-> 0, left |-> 0] /\ sent' = 0 /\ done' = {}
    BY DEF ClearInfo, log
<1>3. logFile = Erased /\ logData = logFile
    BY <1>1 DEF IInv, Writing, Image
<1>4. Filled(logFile) = {}
    BY <1>3 DEF Filled, Erased
<1>5. TypeOK'
    <2>1. NoInfo \in Info /\ get' \in [pRead : Slot, left : UInt16]
        BY <1>2, SectorFacts, UInt16Facts DEF NoInfo, Info
    <2> QED BY <2>1, <1>1, <1>2 DEF IInv, TypeOK
<1>6. End' = End
    BY <1>1, <1>2, Types DEF End, NoInfo
<1>7. Ring(logFile, End)' /\ Ordered(logFile, End)'
    BY <1>2, <1>6 DEF IInv, Ring, Packed, Above, Ordered, Filled
<1>8. Image' /\ Writing'
    BY <1>1, <1>2, <1>3 DEF Image, Writing
<1>9. Ages' /\ Cursor'
    BY <1>1, <1>2, <1>4, Types DEF IInv, Ages, Cursor, Filled
<1> QED BY <1>5, <1>7, <1>8, <1>9 DEF IInv

LEMMA DumpIInv == IInv /\ Dump => IInv'
<1> SUFFICES ASSUME IInv, Dump PROVE IInv'
    OBVIOUS
<1>0. "read" \in Pc
    BY DEF Pc
<1>1. p = "idle" /\ p' = "read" /\ pc' \in [Thread -> Pc]
    BY <1>0, MovesTo DEF Dump, p
<1>2. /\ logFile' = logFile /\ logData' = logFile /\ logLine' = logLine
      /\ puts' = puts /\ done' = done /\ crashes' = crashes /\ sent' = 0
      /\ info' \in GetLogInfo(logFile, info)
      /\ get' = [pRead |-> info'.pStart, left |-> info'.count]
    BY DEF Dump, hist
<1>3. info' \in Info /\ info'.pWrite = End
    <2>1. Ring(logFile, End) /\ End \in Slot /\ logFile \in Image_
        BY Types DEF IInv
    <2> QED BY <2>1, <1>2, ScanFindsEnd
<1>4. TypeOK'
    <2>1. info'.pStart \in Slot /\ info'.count \in UInt16
        BY <1>3 DEF Info
    <2>2. get' \in [pRead : Slot, left : UInt16]
        BY <2>1, <1>2
    <2> QED BY <2>2, <1>1, <1>2, <1>3 DEF IInv, TypeOK
<1>5. End' = End
    BY <1>1, <1>3 DEF End
<1>6. Ring(logFile, End)' /\ Ordered(logFile, End)'
    BY <1>2, <1>5 DEF IInv, Ring, Packed, Above, Ordered, Filled
<1>7. Image' /\ Writing'
    BY <1>1, <1>2 DEF Image, Writing
<1>8. Ages'
    BY <1>1, <1>2 DEF IInv, Ages, Filled
<1>9. Cursor'
    BY <1>1, <1>2, <1>4, Types, NotBlank DEF Cursor, Filled
<1> QED BY <1>4, <1>6, <1>7, <1>8, <1>9 DEF IInv

LEMMA DumpMoreIInv == IInv /\ (DumpMore \/ ReadEnd) => IInv'
<1> SUFFICES ASSUME IInv, DumpMore \/ ReadEnd PROVE IInv'
    OBVIOUS
<1>0. {"read", "idle"} \subseteq Pc
    BY DEF Pc
<1>1. p \in {"idle", "read"} /\ p' \in {"idle", "read"} /\ pc' \in [Thread -> Pc]
    BY <1>0, MovesTo DEF DumpMore, ReadEnd, p
<1>2. /\ logFile' = logFile /\ logData' = logData /\ info' = info /\ logLine' = logLine
      /\ get' = get /\ sent' = sent /\ puts' = puts /\ done' = done /\ crashes' = crashes
    BY DEF DumpMore, ReadEnd, log, hist
<1>3. TypeOK' /\ End' = End
    BY <1>1, <1>2 DEF IInv, TypeOK, End
<1>4. Ring(logFile, End)' /\ Ordered(logFile, End)'
    BY <1>2, <1>3 DEF IInv, Ring, Packed, Above, Ordered, Filled
<1>5. Image' /\ Writing' /\ Ages' /\ Cursor'
    BY <1>1, <1>2 DEF IInv, Image, Writing, Ages, Cursor, Filled
<1> QED BY <1>3, <1>4, <1>5 DEF IInv

\* While the log is being read, the line after one in it is newer, or blank.
LEMMA NextIsNewer ==
    ASSUME IInv, p = "read", NEW i \in Filled(logFile), After(i) \in Filled(logFile)
    PROVE  logFile[i].id < logFile[After(i)].id
<1> DEFINE w == info.pWrite
           j == After(i)
<1>1. /\ Ordered(logFile, w) /\ w \in Nat /\ w < Slots /\ logFile[w] = Blank
      /\ i \in Slot /\ i \in Nat /\ i < Slots /\ Slots \in Nat
    BY Types, SectorFacts DEF IInv, Ring, Slot, Filled
<1>2. j # w /\ i # w /\ j \in Nat
    BY <1>1, AfterFacts DEF Filled, Slot
<1>3. (i < Slots - 1 => j = i + 1) /\ (i = Slots - 1 => j = 0) /\ j # i
    BY <1>1, AfterFacts, SectorFacts
<1> HIDE DEF w, j
<1>4. CASE i < Slots - 1
    <2>1. i < j /\ ~(i < w /\ w <= j)
        BY <1>1, <1>2, <1>3, <1>4
    <2> QED BY <2>1, <1>1 DEF Ordered, j
<1>5. CASE i = Slots - 1
    <2>1. j < i /\ j < w /\ w <= i
        BY <1>1, <1>2, <1>3, <1>5
    <2> QED BY <2>1, <1>1 DEF Ordered, j
<1> QED BY <1>1, <1>4, <1>5 DEF j

LEMMA ReadLineIInv == IInv /\ ReadLine => IInv'
<1> SUFFICES ASSUME IInv, ReadLine PROVE IInv'
    OBVIOUS
<1> DEFINE i == get.pRead
<1>0. {"read", "idle"} \subseteq Pc
    BY DEF Pc
<1>1. p = "read" /\ p' \in {"idle", "read"} /\ pc' \in [Thread -> Pc]
    BY <1>0, MovesTo DEF ReadLine, p
<1>2. /\ logFile' = logFile /\ logData' = logFile /\ info' = info
      /\ puts' = puts /\ done' = done /\ crashes' = crashes
      /\ logLine' = logFile[i] /\ sent' = logFile[i].id
      /\ get' = [pRead |-> After(i), left |-> get.left - 1]
    BY DEF ReadLine, hist
<1>3. /\ i \in Slot /\ i \in Filled(logFile) /\ logFile[i] \in Line
      /\ logFile[i].id \in Nat
    BY Types, NotBlank DEF ReadLine, Filled
<1>4. TypeOK'
    <2>1. get.left - 1 \in UInt16
        <3>1. get.left \in UInt16 /\ get.left > 0
            BY Types DEF ReadLine
        <3> QED BY <3>1, UInt16Facts
    <2>2. get' \in [pRead : Slot, left : UInt16]
        BY <2>1, <1>2, <1>3, AfterFacts
    <2> QED BY <2>2, <1>1, <1>2, <1>3 DEF IInv, TypeOK
<1>5. End' = End
    BY <1>1, <1>2, Types DEF End
<1>6. Ring(logFile, End)' /\ Ordered(logFile, End)'
    BY <1>2, <1>5 DEF IInv, Ring, Packed, Above, Ordered, Filled
<1>7. Image' /\ Writing' /\ Ages'
    BY <1>1, <1>2 DEF IInv, Image, Writing, Ages, Filled
<1>8. Cursor'
    <2>1. sent' <= puts
        BY <1>2, <1>3 DEF IInv, Ages
    <2>2. After(i) \in Filled(logFile) => logFile[i].id < logFile[After(i)].id
        BY <1>1, <1>3, NextIsNewer
    <2> QED BY <2>1, <2>2, <1>1, <1>2 DEF Cursor, Filled
<1> QED BY <1>4, <1>6, <1>7, <1>8 DEF IInv

LEMMA ReadBlankIInv == IInv /\ ReadBlank => IInv'
<1> SUFFICES ASSUME IInv, ReadBlank PROVE IInv'
    OBVIOUS
<1>0. "idle" \in Pc
    BY DEF Pc
<1>1. p = "read" /\ p' = "idle" /\ pc' \in [Thread -> Pc]
    BY <1>0, MovesTo DEF ReadBlank, p
<1>2. /\ logFile' = logFile /\ logData' = logFile /\ info' = info /\ logLine' = Blank
      /\ get' = get /\ sent' = sent /\ puts' = puts /\ done' = done /\ crashes' = crashes
    BY DEF ReadBlank, hist
<1>3. TypeOK' /\ End' = End
    BY <1>1, <1>2 DEF IInv, TypeOK, End
<1>4. Ring(logFile, End)' /\ Ordered(logFile, End)'
    BY <1>2, <1>3 DEF IInv, Ring, Packed, Above, Ordered, Filled
<1>5. Image' /\ Writing' /\ Ages' /\ Cursor'
    BY <1>1, <1>2 DEF IInv, Image, Writing, Ages, Cursor, Filled
<1> QED BY <1>3, <1>4, <1>5 DEF IInv

LEMMA RestartIInv == IInv /\ Restart => IInv'
<1> SUFFICES ASSUME IInv, Restart PROVE IInv'
    OBVIOUS
<1>1. p' = "idle" /\ pc' \in [Thread -> Pc]
    BY OneThread DEF Restart, p, Pc
<1>2. /\ logFile' = logFile /\ logData' = logFile /\ logLine' = Blank
      /\ puts' = puts /\ crashes' = crashes + 1 /\ sent' = 0
      /\ done' \subseteq done /\ info' \in GetLogInfo(logFile, NoInfo)
      /\ get' = [pRead |-> 0, left |-> 0]
    BY DEF Restart
<1>3. info' \in Info /\ info'.pWrite = End
    <2>1. Ring(logFile, End) /\ End \in Slot /\ logFile \in Image_
        BY Types DEF IInv
    <2> QED BY <2>1, <1>2, ScanFindsEnd
<1>4. TypeOK'
    <2>1. get' \in [pRead : Slot, left : UInt16]
        BY <1>2, SectorFacts, UInt16Facts
    <2> QED BY <2>1, <1>1, <1>2, <1>3, Types DEF IInv, TypeOK
<1>5. End' = End
    BY <1>1, <1>3 DEF End
<1>6. Ring(logFile, End)' /\ Ordered(logFile, End)'
    BY <1>2, <1>5 DEF IInv, Ring, Packed, Above, Ordered, Filled
<1>7. Image' /\ Writing'
    BY <1>1, <1>2 DEF Image, Writing
<1>8. Ages'
    BY <1>1, <1>2 DEF IInv, Ages, Filled
<1>9. Cursor'
    BY <1>1, <1>2, Types, NotBlank DEF Cursor, Filled
<1> QED BY <1>4, <1>6, <1>7, <1>8, <1>9 DEF IInv

LEMMA StepIInv == IInv /\ [Next]_vars => IInv'
<1> SUFFICES ASSUME IInv, [Next]_vars PROVE IInv'
    OBVIOUS
<1>1. CASE UNCHANGED vars
    <2>1. TypeOK' /\ p' = p /\ End' = End
        BY <1>1 DEF vars, IInv, TypeOK, p, End
    <2>2. Ring(logFile, End)' /\ Ordered(logFile, End)'
        BY <1>1, <2>1 DEF vars, IInv, Ring, Packed, Above, Ordered, Filled
    <2>3. Image' /\ Writing' /\ Ages' /\ Cursor'
        BY <1>1, <2>1 DEF vars, IInv, Image, Writing, AtSectorEnd, NextSector,
                          Ages, Cursor, Filled
    <2> QED BY <2>1, <2>2, <2>3 DEF IInv
<1>2. ASSUME NEW t \in Thread, PutLog(t) PROVE IInv'
    <2>1. PutLog(cmd)
        BY <1>2, OneThread
    <2> QED
        BY <2>1, FillLineIInv, EraseAheadIInv, StoreEraseIInv, CopyLineIInv,
           StoreLineIInv, AdvanceIInv DEF PutLog
<1>3. CASE Elogs
    BY <1>3, ClearIInv, StoreClearIInv, ClearInfoIInv, DumpIInv, DumpMoreIInv,
       ReadLineIInv, ReadBlankIInv DEF Elogs
<1>4. CASE Restart
    BY <1>4, RestartIInv
<1> QED BY <1>1, <1>2, <1>3, <1>4 DEF Next

LEMMA SpecIInv == Spec => []IInv
BY InitIInv, StepIInv, PTL DEF Spec

\* With one logging thread, the image, the file, the cursors and the line
\* buffer are well typed: pWrite and pRead always index a line of the ring,
\* also after a scan of what a stopped program left (GetLogInfo).
THEOREM LogTypeCorrect == Spec => []TypeOK
<1>1. IInv => TypeOK
    BY DEF IInv
<1> QED BY <1>1, SpecIInv, PTL

-----------------------------------------------------------------------------
(* What a step does to the file.                                           *)

LEMMA FileSteps ==
    ASSUME IInv, [Next]_vars
    PROVE  \/ logFile' = logFile
           \/ StoreErase(cmd)
           \/ StoreLine(cmd)
           \/ StoreClear
<1>1. CASE UNCHANGED vars
    BY <1>1 DEF vars
<1>2. ASSUME NEW t \in Thread, PutLog(t)
      PROVE  logFile' = logFile \/ StoreErase(cmd) \/ StoreLine(cmd)
    BY <1>2, OneThread DEF PutLog, FillLine, EraseAhead, CopyLine, Advance, log
<1>3. CASE Elogs
    BY <1>3 DEF Elogs, Clear, ClearInfo, Dump, DumpMore, ReadLine, ReadBlank,
                ReadEnd, log
<1>4. CASE Restart
    BY <1>4 DEF Restart
<1> QED BY <1>1, <1>2, <1>3, <1>4 DEF Next

\* The three stores, slot by slot.
LEMMA FileStores ==
    ASSUME IInv
    PROVE  /\ StoreErase(cmd) =>
                /\ AtSectorEnd /\ End = info.pWrite /\ NextSector \in SUBSET Slot
                /\ \A i \in Slot : logFile'[i] = IF i \in NextSector THEN Blank
                                                 ELSE logFile[i]
           /\ StoreLine(cmd) =>
                /\ logFile[info.pWrite] = Blank /\ logLine \in Line
                /\ logLine.id = puts
                /\ \A i \in Filled(logFile) : logFile[i].id < puts
                /\ \A i \in Slot : logFile'[i] = IF i = info.pWrite THEN logLine
                                                 ELSE logFile[i]
           /\ StoreClear => \A i \in Slot : logFile'[i] = Blank
<1>1. ASSUME StoreErase(cmd)
      PROVE  /\ AtSectorEnd /\ End = info.pWrite /\ NextSector \in SUBSET Slot
             /\ \A i \in Slot : logFile'[i] = IF i \in NextSector THEN Blank
                                              ELSE logFile[i]
    <2>1. p = "eraseStore" /\ logFile' = Set(logFile, NextSector, Blank)
        BY <1>1 DEF StoreErase, Store, IInv, Image, p
    <2>2. AtSectorEnd /\ End = info.pWrite
        BY <2>1, Types DEF IInv, Writing
    <2>3. NextSector \in SUBSET Slot
        BY <2>2, Types, AfterFacts, SectorFacts DEF NextSector, AtSectorEnd
    <2> QED BY <2>1, <2>2, <2>3 DEF Set
<1>2. ASSUME StoreLine(cmd)
      PROVE  /\ logFile[info.pWrite] = Blank /\ logLine \in Line
             /\ logLine.id = puts
             /\ \A i \in Filled(logFile) : logFile[i].id < puts
             /\ \A i \in Slot : logFile'[i] = IF i = info.pWrite THEN logLine
                                              ELSE logFile[i]
    <2>1. p = "store" /\ logFile' = Set(logFile, {info.pWrite}, logLine)
        BY <1>2 DEF StoreLine, Store, IInv, Image, p
    <2>2. /\ logFile[info.pWrite] = Blank /\ logLine \in Line /\ logLine.id = puts
          /\ \A i \in Filled(logFile) : logFile[i].id < puts
        BY <2>1 DEF IInv, TypeOK, Writing, Ages
    <2>3. \A i \in Slot : logFile'[i] = IF i = info.pWrite THEN logLine
                                        ELSE logFile[i]
        BY <2>1 DEF Set
    <2> QED BY <2>2, <2>3
<1>3. ASSUME StoreClear PROVE \A i \in Slot : logFile'[i] = Blank
    BY <1>3 DEF StoreClear, Store, IInv, Image, Erased, p
<1> QED BY <1>1, <1>2, <1>3

\* Where the ring is at the end of a sector, the next sector has the oldest
\* lines.
LEMMA NextSectorIsOldest ==
    ASSUME NEW img \in Image_, NEW w \in Slot, Ring(img, w), Ordered(img, w),
           After(w) % Lines = 0,
           NEW i \in Filled(img), i \in SlotsOf(After(w) \div Lines),
           NEW j \in Filled(img), j \notin SlotsOf(After(w) \div Lines)
    PROVE  img[i].id < img[j].id
<1> DEFINE e == After(w)
<1>1. /\ SlotsOf(e \div Lines) = e .. e + Lines - 1
      /\ i \in Slot /\ j \in Slot /\ i \in Nat /\ j \in Nat
      /\ w \in Nat /\ w < Slots /\ Slots \in Nat /\ e \in Nat
    <2>1. (e \div Lines) * Lines = e
        BY AfterFacts
    <2>2. e \in Slot
        BY AfterFacts
    <2> QED BY <2>1, <2>2, SectorFacts DEF SlotsOf, Slot, Filled
<1>2. i # w /\ j # w
    BY DEF Ring, Filled
<1>3. /\ w < Slots - 1 => e = w + 1
      /\ w = Slots - 1 => e = 0
    BY AfterFacts
<1> HIDE DEF e
<1>4. i >= e /\ i <= e + Lines - 1 /\ (j < e \/ j > e + Lines - 1)
    BY <1>1 DEF e
<1>5. CASE j < i
    <2>1. w < Slots - 1 /\ j < w /\ w <= i
        BY <1>1, <1>2, <1>3, <1>4, <1>5
    <2> QED BY <2>1, <1>5 DEF Ordered
<1>6. CASE i < j
    <2>1. ~(i < w /\ w <= j)
        BY <1>1, <1>2, <1>3, <1>4, <1>6 DEF Slot
    <2> QED BY <2>1, <1>6 DEF Ordered
<1> QED BY <1>1, <1>4, <1>5, <1>6

\* log_data.bin implements AppendLog whatever the number of sectors, lines
\* and restarts: a line is added at the new end or lost with the oldest
\* sector, and every other step leaves the lines as they are.
THEOREM LogImplementsAppendLog == Spec => ImplementsAppendLog
<1>1. Init => A!Init
    BY DEF Init, A!Init, Ids, Filled, Erased
<1>2. IInv /\ [Next]_vars => [A!Next]_(Ids(logFile))
    <2> SUFFICES ASSUME IInv, [Next]_vars PROVE [A!Next]_(Ids(logFile))
        OBVIOUS
    <2>1. CASE logFile' = logFile
        BY <2>1 DEF Ids, Filled
    <2>2. CASE StoreErase(cmd)
        <3>1. /\ AtSectorEnd /\ End = info.pWrite
              /\ \A i \in Slot : logFile'[i] = IF i \in NextSector THEN Blank
                                               ELSE logFile[i]
            BY <2>2, FileStores
        <3>2. Ids(logFile)' \subseteq Ids(logFile)
            BY <3>1 DEF Ids, Filled
        <3>3. ASSUME NEW g \in Ids(logFile) \ Ids(logFile)', NEW h \in Ids(logFile)'
              PROVE  g < h
            <4>1. PICK i \in Filled(logFile) : g = logFile[i].id
                BY DEF Ids
            <4>2. PICK j \in Filled(logFile') : h = logFile'[j].id
                BY DEF Ids, Filled
            <4>3. i \in NextSector
                BY <3>1, <4>1 DEF Ids, Filled
            <4>4. j \in Filled(logFile) /\ j \notin NextSector /\ logFile'[j] = logFile[j]
                BY <3>1, <4>2 DEF Filled
            <4> QED BY <3>1, <4>1, <4>2, <4>3, <4>4, Types, NextSectorIsOldest
                    DEF IInv, AtSectorEnd, NextSector
        <3>4. A!GiveUpOldest
            BY <3>2, <3>3 DEF A!GiveUpOldest
        <3> QED BY <3>4 DEF A!Next
    <2>3. CASE StoreLine(cmd)
        <3>1. /\ logFile[info.pWrite] = Blank /\ logLine # Blank /\ logLine.id = puts
              /\ \A i \in Filled(logFile) : logFile[i].id < puts
              /\ \A i \in Slot : logFile'[i] = IF i = info.pWrite THEN logLine
                                               ELSE logFile[i]
              /\ info.pWrite \in Slot
            BY <2>3, FileStores, Types, NotBlank
        <3>2. Ids(logFile)' = Ids(logFile) \cup {puts}
            BY <3>1 DEF Ids, Filled
        <3>3. \A h \in Ids(logFile) : h < puts
            BY <3>1 DEF Ids
        <3>4. A!Append
            BY <3>2, <3>3 DEF A!Append
        <3> QED BY <3>4 DEF A!Next
    <2>4. CASE StoreClear
        <3>1. Ids(logFile)' = {}
            BY <2>4, FileStores DEF Ids, Filled
        <3>2. A!GiveUpOldest
            BY <3>1 DEF A!GiveUpOldest
        <3> QED BY <3>2 DEF A!Next
    <2> QED BY <2>1, <2>2, <2>3, <2>4, FileSteps
<1> QED BY <1>1, <1>2, SpecIInv, PTL DEF Spec, A!Spec, ImplementsAppendLog

\* ELOGS sends a line only after all older ones of the same transfer, while
\* PutLog adds lines and erases sectors between its commands.
THEOREM DumpsInOrder == Spec => ReadsInOrder
<1>1. IInv /\ [Next]_vars => [sent' = 0 \/ sent' > sent]_<<sent, get.left>>
    <2> SUFFICES ASSUME IInv, [Next]_vars, <<sent, get.left>>' # <<sent, get.left>>
                 PROVE  sent' = 0 \/ sent' > sent
        OBVIOUS
    <2>1. ~(sent' = sent /\ get' = get)
        OBVIOUS
    <2>2. ClearInfo \/ Dump \/ ReadLine \/ Restart
        BY <2>1 DEF Next, vars, PutLog, FillLine, EraseAhead, StoreErase, Store,
                    CopyLine, StoreLine, Advance, Elogs, Clear, StoreClear,
                    DumpMore, ReadBlank, ReadEnd
    <2>3. CASE ReadLine
        <3>1. get.pRead \in Filled(logFile)
            BY <2>3, Types DEF ReadLine, Filled
        <3>2. sent < logFile[get.pRead].id
            BY <3>1 DEF IInv, Cursor
        <3>3. sent \in Nat /\ logFile[get.pRead].id \in Nat
            BY <3>1, Types, NotBlank
        <3> QED BY <2>3, <3>2, <3>3 DEF ReadLine
    <2> QED BY <2>2, <2>3 DEF ClearInfo, Dump, Restart
<1> QED BY <1>1, SpecIInv, PTL DEF Spec, ReadsInOrder
-----------------------------------------------------------------------------
(* How far a line is from the end of the ring, and how old it may be.      *)

\* The lines that were put from slot i on, up to w.
Dist(w, i) == IF i <= w THEN w - i ELSE w + Slots - i

\* Where the sector of w ends, and the next one begins.
SectorEnd(w) == (w \div Lines) * Lines + Lines

\* The line that comes to pWrite is begun.
InPut == p \in {"erase", "eraseStore", "copy", "store", "advance"}

\* Its number among all lines.
Coming == IF InPut THEN puts ELSE puts + 1

\* info and the file are of different logs while the log is cleared.
Clearing == p \in {"clearInfo", "fill"}

\* Each PutLog moves the end of the ring by one slot at most, also when the
\* program stops in it.
Aged == ~Clearing => \A i \in Filled(logFile) :
                         Dist(info.pWrite, i) <= Coming - logFile[i].id

\* A line is lost Slots - Lines lines after it was put, or later.
KeptDone == p # "clearInfo" =>
                \A d \in done : d \in Ids(logFile) \/ d <= puts - (Slots - Lines)

Stored == p = "advance" => logFile[info.pWrite] = logLine

KInv == Aged /\ KeptDone /\ Stored

LEMMA SectorEndFacts ==
    ASSUME NEW w \in Slot
    PROVE  /\ SectorEnd(w) \in Nat /\ w < SectorEnd(w) /\ SectorEnd(w) <= w + Lines
           /\ Lines <= SectorEnd(w) /\ SectorEnd(w) <= Slots
           /\ w \in Nat /\ w < Slots /\ Slots \in Nat
           /\ After(w) % Lines = 0 =>
                /\ SectorEnd(w) = w + 1
                /\ SlotsOf(After(w) \div Lines) = After(w) .. After(w) + Lines - 1
           /\ After(w) % Lines # 0 => SectorEnd(w) # w + 1
<1> DEFINE s == w \div Lines
<1>1. s \in Sector /\ w \in SlotsOf(s) /\ s * Lines + Lines - 1 \in Slot
    BY SectorFacts
<1>2. s * Lines \in Nat
    BY <1>1, SectorFacts DEF Slot
<1>3. w \in Nat /\ w < Slots /\ Slots \in Nat
    BY SectorFacts DEF Slot
<1>4. s * Lines <= w /\ w <= s * Lines + Lines - 1 /\ s * Lines + Lines <= Slots
    BY <1>1, <1>2, <1>3 DEF SlotsOf, Slot
<1>5. SectorEnd(w) = s * Lines + Lines
    BY DEF SectorEnd
<1> HIDE DEF s
<1>6. ASSUME After(w) % Lines = 0
      PROVE  /\ SectorEnd(w) = w + 1
             /\ SlotsOf(After(w) \div Lines) = After(w) .. After(w) + Lines - 1
    <2> DEFINE r == After(w) \div Lines
    <2>1. r \in Sector /\ r * Lines = After(w)
        BY <1>6, AfterFacts
    <2>2. CASE w = Slots - 1
        BY <2>1, <2>2, <1>2, <1>3, <1>4, <1>5, LinesAssumption DEF SlotsOf, r
    <2>3. CASE w # Slots - 1
        <3>1. After(w) = w + 1
            BY <2>3, <1>3, AfterFacts
        <3> HIDE DEF r
        <3>2. ~(r <= s)
            <4> SUFFICES ASSUME r <= s PROVE FALSE
                OBVIOUS
            <4>1. r = s \/ r < s
                BY <2>1, <1>1 DEF Sector
            <4>2. r < s => r * Lines + Lines <= s * Lines
                BY <2>1, <1>1, SectorFacts
            <4> QED BY <4>1, <4>2, <2>1, <3>1, <1>2, <1>3, <1>4
        <3>3. s * Lines + Lines <= r * Lines
            <4>1. s < r
                BY <3>2, <2>1, <1>1 DEF Sector
            <4> QED BY <4>1, <2>1, <1>1, SectorFacts
        <3>4. SectorEnd(w) = w + 1
            BY <3>1, <3>3, <2>1, <1>2, <1>3, <1>4, <1>5
        <3>5. SlotsOf(r) = After(w) .. After(w) + Lines - 1
            BY <2>1 DEF SlotsOf
        <3> QED BY <3>4, <3>5 DEF r
    <2> QED BY <2>2, <2>3
<1>7. ASSUME After(w) % Lines # 0 PROVE SectorEnd(w) # w + 1
    <2> SUFFICES ASSUME SectorEnd(w) = w + 1 PROVE FALSE
        OBVIOUS
    <2>1. w < Slots - 1
        BY <1>3, <1>7, AfterFacts
    <2>2. (s + 1) * Lines = w + 1
        BY <1>1, <1>5 DEF Sector
    <2>3. s + 1 \in Sector
        <3> SUFFICES ASSUME s + 1 >= Sectors PROVE FALSE
            BY <1>1 DEF Sector
        <3>1. (s + 1) * Lines >= Sectors * Lines
            BY <1>1 DEF Sector
        <3> QED BY <3>1, <2>1, <2>2, <1>3 DEF Slots
    <2> QED BY <2>2, <2>3, <1>7, AfterFacts
<1> QED BY <1>2, <1>3, <1>4, <1>5, <1>6, <1>7

\* As the end of the ring moves on, all lines but the one it meets are one
\* slot farther.
LEMMA DistFacts ==
    ASSUME NEW w \in Slot, NEW i \in Slot
    PROVE  /\ Dist(w, i) \in Nat /\ Dist(w, w) = 0
           /\ i # After(w) => Dist(After(w), i) = Dist(w, i) + 1
           /\ i # w => Dist(w, i) > 0
           /\ After(w) % Lines = 0 /\ i \in SlotsOf(After(w) \div Lines)
                => Dist(w, i) >= Slots - Lines
<1>1. /\ w \in Nat /\ w < Slots /\ Slots \in Nat /\ i \in Nat /\ i < Slots
      /\ w < Slots - 1 => After(w) = w + 1
      /\ w = Slots - 1 => After(w) = 0
    BY SectorFacts, AfterFacts DEF Slot
<1>2. Dist(w, i) \in Nat /\ Dist(w, w) = 0 /\ (i # w => Dist(w, i) > 0)
    BY <1>1 DEF Dist
<1>3. i # After(w) => Dist(After(w), i) = Dist(w, i) + 1
    BY <1>1 DEF Dist
<1>4. After(w) % Lines = 0 /\ i \in SlotsOf(After(w) \div Lines)
        => Dist(w, i) >= Slots - Lines
    BY <1>1, SectorEndFacts DEF Dist
<1> QED BY <1>2, <1>3, <1>4

\* Steps that change neither the file nor the end of the ring.
Quiet == \/ p = "idle" /\ FillLine(cmd)
         \/ EraseAhead(cmd) \/ CopyLine(cmd)
         \/ Clear \/ Dump \/ DumpMore \/ ReadLine \/ ReadBlank \/ ReadEnd

LEMMA QuietSteps ==
    ASSUME IInv, Quiet
    PROVE  /\ logFile' = logFile /\ info'.pWrite = info.pWrite /\ Coming' = Coming
           /\ done' = done /\ puts' \in Nat /\ puts' >= puts /\ crashes' = crashes
           /\ ~Clearing /\ ~Clearing' /\ p # "advance" /\ p' # "advance"
           /\ p \in Pc
<1>0. puts \in Nat /\ p \in Pc /\ puts + 1 \in Nat /\ puts + 1 >= puts
    BY Types
<1>1. CASE p = "idle" /\ FillLine(cmd)
    <2>1. p' = "erase"
        BY <1>1, MovesTo DEF FillLine, Pc
    <2> QED BY <1>0, <1>1, <2>1 DEF FillLine, log, Coming, InPut, Clearing
<1>2. CASE EraseAhead(cmd)
    <2>1. p = "erase" /\ p' \in {"eraseStore", "copy"}
        BY <1>2, MovesTo DEF EraseAhead, Pc, p
    <2> QED BY <1>0, <1>2, <2>1 DEF EraseAhead, hist, Coming, InPut, Clearing
<1>3. CASE CopyLine(cmd)
    <2>1. p = "copy" /\ p' = "store"
        BY <1>3, MovesTo DEF CopyLine, Pc, p
    <2> QED BY <1>0, <1>3, <2>1 DEF CopyLine, hist, Coming, InPut, Clearing
<1>4. CASE Clear
    <2>1. p = "idle" /\ p' = "clearStore"
        BY <1>4, MovesTo DEF Clear, Pc, p
    <2> QED BY <1>0, <1>4, <2>1 DEF Clear, hist, Coming, InPut, Clearing
<1>5. CASE Dump
    <2>1. p = "idle" /\ p' = "read"
        BY <1>5, MovesTo DEF Dump, Pc, p
    <2>2. info'.pWrite = info.pWrite
        <3>1. Ring(logFile, End) /\ End \in Slot /\ logFile \in Image_ /\ End = info.pWrite
            BY <2>1, Types DEF IInv
        <3>2. info' \in GetLogInfo(logFile, info)
            BY <1>5 DEF Dump
        <3> QED BY <3>1, <3>2, ScanFindsEnd
    <2> QED BY <1>0, <1>5, <2>1, <2>2 DEF Dump, hist, Coming, InPut, Clearing
<1>6. CASE DumpMore \/ ReadLine \/ ReadBlank \/ ReadEnd
    <2>1. p \in {"idle", "read"} /\ p' \in {"idle", "read"}
        BY <1>6, MovesTo DEF DumpMore, ReadLine, ReadBlank, ReadEnd, Pc, p
    <2> QED BY <1>0, <1>6, <2>1
            DEF DumpMore, ReadLine, ReadBlank, ReadEnd, log, hist, Coming, InPut, Clearing
<1> QED BY <1>1, <1>2, <1>3, <1>4, <1>5, <1>6 DEF Quiet

LEMMA StepCases ==
    ASSUME IInv, Next
    PROVE  \/ Quiet
           \/ p = "fill" /\ FillLine(cmd)
           \/ StoreErase(cmd) \/ StoreLine(cmd) \/ Advance(cmd)
           \/ StoreClear \/ ClearInfo \/ Restart
BY OneThread DEF Next, PutLog, Elogs, Quiet, FillLine, p

LEMMA ClearedFile == IInv /\ p \in {"clearInfo", "fill"} => Filled(logFile) = {}
BY DEF IInv, Writing, Filled, Erased

LEMMA StepKInv == IInv /\ KInv /\ [Next]_vars => KInv'
<1> SUFFICES ASSUME IInv, KInv, [Next]_vars PROVE KInv'
    OBVIOUS
<1> DEFINE w == info.pWrite
<1>0. /\ puts \in Nat /\ w \in Slot /\ p \in Pc /\ Slots \in Nat
      /\ \A i \in Filled(logFile) :
            /\ i \in Slot /\ logFile[i] \in Line /\ logFile[i].id \in Nat
            /\ Dist(w, i) \in Nat
    BY Types, NotBlank, DistFacts, SectorFacts DEF Filled
<1>1. CASE UNCHANGED vars
    BY <1>1 DEF vars, KInv, Aged, KeptDone, Stored, Coming, InPut, Clearing, p,
                Filled, Ids
<1>2. CASE Quiet
    <2>1. /\ logFile' = logFile /\ info'.pWrite = w /\ Coming' = Coming
          /\ done' = done /\ puts' \in Nat /\ puts' >= puts
          /\ ~Clearing /\ ~Clearing' /\ p' # "advance"
        BY <1>2, QuietSteps
    <2>2. Aged'
        BY <2>1 DEF KInv, Aged, Filled
    <2>3. KeptDone'
        <3>1. \A d \in done : d \in Ids(logFile) \/ d <= puts - (Slots - Lines)
            BY <2>1 DEF KInv, KeptDone, Clearing
        <3>2. puts \in Nat /\ puts' \in Nat /\ puts <= puts' /\ Slots - Lines \in Int
            BY <1>0, <2>1, LinesAssumption
        <3>3. \A d \in done : d \in Nat
            BY <1>0 DEF IInv, TypeOK
        <3>4. \A d \in done : d \in Ids(logFile) \/ d <= puts' - (Slots - Lines)
            BY <3>1, <3>2, <3>3
        <3> QED BY <2>1, <3>4 DEF KeptDone, Ids, Filled
    <2> QED BY <2>1, <2>2, <2>3 DEF KInv, Stored
<1>3. CASE p = "fill" /\ FillLine(cmd)
    <2>1. /\ p' = "erase" /\ logFile' = logFile /\ done' = done /\ puts' = puts + 1
        BY <1>3, MovesTo DEF FillLine, log, Pc
    <2>2. Filled(logFile') = {}
        BY <1>3, <2>1, ClearedFile
    <2>3. KeptDone'
        <3>1. \A d \in done : d \in Ids(logFile) \/ d <= puts - (Slots - Lines)
            BY <1>3 DEF KInv, KeptDone
        <3>2. \A d \in done : d \in Nat
            BY <1>0 DEF IInv, TypeOK
        <3>3. \A d \in done : d \in Ids(logFile) \/ d <= puts' - (Slots - Lines)
            BY <1>0, <2>1, <3>1, <3>2, LinesAssumption
        <3> QED BY <2>1, <3>3 DEF KeptDone, Ids, Filled
    <2> QED BY <2>1, <2>2, <2>3 DEF KInv, Aged, Stored, Filled
<1>4. CASE StoreErase(cmd)
    <2>1. /\ p = "eraseStore" /\ p' = "copy" /\ info' = info /\ done' = done /\ puts' = puts
        BY <1>4, MovesTo DEF StoreErase, Store, hist, Pc, p
    <2>2. /\ AtSectorEnd
          /\ \A i \in Slot : logFile'[i] = IF i \in NextSector THEN Blank ELSE logFile[i]
        BY <1>4, FileStores
    <2>3. Aged'
        BY <2>1, <2>2 DEF KInv, Aged, Clearing, Coming, InPut, Filled
    <2>4. ASSUME NEW i \in Filled(logFile), i \in NextSector
          PROVE  logFile[i].id <= puts - (Slots - Lines)
        <3>1. Dist(w, i) <= puts - logFile[i].id
            BY <2>1 DEF KInv, Aged, Clearing, Coming, InPut
        <3>2. Dist(w, i) >= Slots - Lines
            BY <1>0, <2>2, <2>4, DistFacts DEF AtSectorEnd, NextSector
        <3> QED BY <1>0, <3>1, <3>2, SectorFacts, LinesAssumption
    <2>5. \A d \in Ids(logFile) : d \in Ids(logFile)' \/ d <= puts - (Slots - Lines)
        BY <2>2, <2>4 DEF Ids, Filled
    <2>6. KeptDone'
        BY <2>1, <2>5 DEF KInv, KeptDone
    <2> QED BY <2>1, <2>3, <2>6 DEF KInv, Stored
<1>5. CASE StoreLine(cmd)
    <2>1. /\ p = "store" /\ p' = "advance" /\ info' = info /\ logLine' = logLine
          /\ done' = done /\ puts' = puts
        BY <1>5, MovesTo DEF StoreLine, Store, hist, Pc, p
    <2>2. /\ logFile[w] = Blank /\ logLine.id = puts /\ logLine # Blank
          /\ \A i \in Slot : logFile'[i] = IF i = w THEN logLine ELSE logFile[i]
        BY <1>5, FileStores, NotBlank
    <2>3. Stored'
        BY <1>0, <2>1, <2>2 DEF Stored
    <2>4. Aged'
        <3>1. \A i \in Filled(logFile) : Dist(w, i) <= puts - logFile[i].id
            BY <2>1 DEF KInv, Aged, Clearing, Coming, InPut
        <3>2. Dist(w, w) <= puts - logLine.id
            BY <1>0, <2>2, DistFacts
        <3> QED BY <2>1, <2>2, <3>1, <3>2 DEF Aged, Clearing, Coming, InPut, Filled
    <2>5. Ids(logFile) \subseteq Ids(logFile)'
        BY <2>2 DEF Ids, Filled
    <2>6. KeptDone'
        BY <2>1, <2>5 DEF KInv, KeptDone
    <2> QED BY <2>3, <2>4, <2>6 DEF KInv
<1>6. CASE Advance(cmd)
    <2>1. /\ p = "advance" /\ p' = "idle" /\ logFile' = logFile /\ info'.pWrite = After(w)
          /\ done' = done \cup {logLine.id} /\ puts' = puts
        BY <1>6, MovesTo, Types DEF Advance, log, Pc, p, Info
    <2>2. logFile[After(w)] = Blank
        BY <2>1, Types DEF IInv, Ring
    <2>3. Aged'
        <3>1. Coming' = puts + 1
            BY <2>1 DEF Coming, InPut
        <3>2. ASSUME NEW i \in Filled(logFile)
              PROVE  Dist(After(w), i) <= Coming' - logFile[i].id
            <4>1. Dist(w, i) <= puts - logFile[i].id
                BY <2>1 DEF KInv, Aged, Clearing, Coming, InPut
            <4>2. Dist(After(w), i) = Dist(w, i) + 1
                BY <1>0, <2>2, DistFacts DEF Filled
            <4> QED BY <1>0, <3>1, <4>1, <4>2
        <3> QED BY <2>1, <3>2 DEF Aged, Filled
    <2>4. logLine.id \in Ids(logFile)
        BY <1>0, <2>1 DEF KInv, Stored, IInv, Ages, Ids, Filled
    <2>5. KeptDone'
        BY <2>1, <2>4 DEF KInv, KeptDone, Ids, Filled
    <2> QED BY <2>1, <2>3, <2>5 DEF KInv, Stored
<1>7. CASE StoreClear \/ ClearInfo
    <2>1. /\ p' \in {"clearInfo", "fill"}
          /\ p' = "fill" => done' = {}
        BY <1>7, MovesTo DEF StoreClear, ClearInfo, Store, Pc
    <2> QED BY <2>1 DEF KInv, Aged, KeptDone, Stored, Clearing
<1>8. CASE Restart
    <2>1. /\ p' = "idle" /\ logFile' = logFile /\ puts' = puts
          /\ done' = IF Used(logFile) = {} THEN {} ELSE done
          /\ info' \in GetLogInfo(logFile, NoInfo)
        BY <1>8, OneThread DEF Restart, p
    <2>2. info'.pWrite = End
        <3>1. Ring(logFile, End) /\ End \in Slot /\ logFile \in Image_
            BY Types DEF IInv
        <3> QED BY <2>1, <3>1, ScanFindsEnd
    <2>3. Aged'
        <3>1. Coming' = puts + 1
            BY <2>1 DEF Coming, InPut
        <3>2. ASSUME NEW i \in Filled(logFile)
              PROVE  Dist(End, i) <= Coming' - logFile[i].id
            <4>1. ~Clearing
                BY ClearedFile DEF Clearing
            <4>2. Dist(w, i) <= Coming - logFile[i].id
                BY <4>1 DEF KInv, Aged
            <4>3. CASE End = w
                BY <1>0, <3>1, <4>2, <4>3 DEF Coming
            <4>4. CASE End # w
                <5>1. End = After(w) /\ InPut
                    BY <1>0, <4>1, <4>4, Types, AfterFacts DEF ErasedEnd, Clearing, InPut
                <5>2. i # After(w)
                    BY <5>1 DEF IInv, Ring, Filled
                <5>3. Dist(After(w), i) = Dist(w, i) + 1
                    BY <1>0, <5>2, DistFacts
                <5> QED BY <1>0, <3>1, <4>2, <5>1, <5>3 DEF Coming
            <4> QED BY <4>3, <4>4
        <3> QED BY <2>1, <2>2, <3>2 DEF Aged, Filled
    <2>4. KeptDone'
        <3>1. CASE p = "clearInfo"
            <4>1. Used(logFile) = {}
                BY <3>1, SectorFacts DEF IInv, Writing, Erased, Used
            <4> QED BY <2>1, <4>1 DEF KeptDone
        <3>2. CASE p # "clearInfo"
            BY <2>1, <3>2 DEF KInv, KeptDone, Ids, Filled
        <3> QED BY <3>1, <3>2
    <2> QED BY <2>1, <2>3, <2>4 DEF KInv, Stored
<1> QED BY <1>1, <1>2, <1>3, <1>4, <1>5, <1>6, <1>7, <1>8, StepCases

LEMMA SpecKInv == Spec => []KInv
<1>1. Init => KInv
    BY OneThread DEF Init, KInv, Aged, KeptDone, Stored, p, Filled, Erased
<1> QED BY <1>1, StepKInv, SpecIInv, PTL DEF Spec

\* Whenever no PutLog is under way, the file has the latest lines of those
\* whose PutLog returned: all but the last of its sectors full, restarts at
\* any step included (LOG_Write, GetLogInfo).
THEOREM LogKeepsRecent == Spec => []KeepsRecent
<1>1. IInv /\ KInv => KeepsRecent
    <2> SUFFICES ASSUME IInv, KInv, Idle, NEW d \in done,
                        d > puts - (Sectors - 1) * Lines
                 PROVE  d \in Ids(logFile)
        BY DEF KeepsRecent
    <2>1. p # "clearInfo"
        BY OneThread DEF Idle, p
    <2>2. (Sectors - 1) * Lines = Slots - Lines
        BY DEF Slots
    <2>3. d \in Nat /\ puts \in Nat /\ Slots \in Nat
        BY Types, SectorFacts DEF IInv, TypeOK
    <2> QED BY <2>1, <2>2, <2>3, LinesAssumption DEF KInv, KeptDone
<1> QED BY <1>1, SpecKInv, SpecIInv, PTL
-----------------------------------------------------------------------------
(* The numbers, until the first stop and before they wrap: the file is     *)
(* known slot by slot, and the scan finds all there is to know.            *)

\* Before the line n comes to w, the slots below w have lines and, once
\* around, those from the next sector on.
Held(w, n, i) == i < w \/ (n # w /\ i >= SectorEnd(w))

NextErased == AtSectorEnd /\ p \in {"copy", "store", "advance"}

Present(i) ==
    \/ p = "advance" /\ i = info.pWrite
    \/ Held(info.pWrite, info.next, i) /\ (NextErased => i \notin NextSector)

\* The line at i was put as many lines ago as its slot is away.
Exact ==
    /\ info.next < Coming
    /\ info.next = info.pWrite \/ info.next >= info.pWrite + Slots
    /\ \A i \in Slot : logFile[i] # Blank <=> Present(i)
    /\ \A i \in Filled(logFile) :
            /\ logFile[i].num = info.next - Dist(info.pWrite, i)
            /\ logFile[i].id = Coming - Dist(info.pWrite, i)

Counted ==
    crashes = 0 /\ puts < Numbers =>
        /\ InPut => logLine.num = info.next
        /\ ~Clearing => Exact

LEMMA SectorEndMoves ==
    ASSUME NEW w \in Slot
    PROVE  /\ After(w) % Lines = 0 => SectorEnd(After(w)) = After(w) + Lines
           /\ After(w) % Lines # 0 => SectorEnd(After(w)) = SectorEnd(w)
<1>1. ASSUME After(w) % Lines = 0
      PROVE  SectorEnd(After(w)) = After(w) + Lines
    BY <1>1, AfterFacts DEF SectorEnd
<1>2. ASSUME After(w) % Lines # 0
      PROVE  SectorEnd(After(w)) = SectorEnd(w)
    <2> DEFINE s == w \div Lines
               r == After(w) \div Lines
    <2>0. w \in Nat /\ s \in Sector /\ w \in SlotsOf(s)
        BY SectorFacts, SectorEndFacts
    <2>1. SectorEnd(w) = s * Lines + Lines
        BY DEF SectorEnd
    <2>2. r \in Sector /\ After(w) \in SlotsOf(r) /\ SectorEnd(After(w)) = r * Lines + Lines
        BY AfterFacts, SectorFacts DEF SectorEnd
    <2> HIDE DEF s, r
    <2>3. w # Slots - 1 /\ After(w) = w + 1
        BY <1>2, <2>0, SectorFacts, AfterFacts DEF Slot
    <2>4. w + 1 \in SlotsOf(s)
        <3>1. SectorEnd(w) \in Nat /\ w < SectorEnd(w) /\ SectorEnd(w) # w + 1
            BY <1>2, SectorEndFacts
        <3>2. s * Lines \in Nat
            BY <2>0, SectorFacts DEF Slot
        <3> QED BY <2>0, <2>1, <3>1, <3>2, LinesAssumption DEF SlotsOf
    <2>5. r = s
        BY <2>0, <2>2, <2>3, <2>4, SectorsApart
    <2> QED BY <2>1, <2>2, <2>5
<1> QED BY <1>1, <1>2

\* The slots with lines when the line at w has been stored and the next
\* sector erased for it.
LEMMA HeldMoves ==
    ASSUME NEW w \in Slot, NEW i \in Slot, NEW n \in Nat, n = w \/ n >= w + Slots
    PROVE  /\ n + 1 = After(w) \/ n + 1 >= After(w) + Slots
           /\ Held(After(w), n + 1, i) <=>
                \/ i = w
                \/ /\ Held(w, n, i)
                   /\ After(w) % Lines = 0 => i \notin SlotsOf(After(w) \div Lines)
<1> DEFINE e == SectorEnd(w)
           f == SectorEnd(After(w))
           a == After(w)
<1>1. /\ w \in Nat /\ w < Slots /\ Slots \in Nat /\ i \in Nat /\ i < Slots
      /\ Lines \in Nat /\ Lines >= 2 /\ Slots >= 3 * Lines
      /\ w < Slots - 1 => a = w + 1
      /\ w = Slots - 1 => a = 0 /\ a % Lines = 0
    BY SectorFacts, AfterFacts DEF Slot
<1>2. e \in Nat /\ w < e /\ e <= Slots
    BY SectorEndFacts
<1>3. a % Lines # 0 => e # w + 1 /\ f = e
    BY SectorEndFacts, SectorEndMoves
<1>4. a % Lines = 0 => /\ e = w + 1 /\ f = a + Lines
                       /\ SlotsOf(a \div Lines) = a .. a + Lines - 1
    BY SectorEndFacts, SectorEndMoves
<1>5. Held(a, n + 1, i) <=> i < a \/ (n + 1 # a /\ i >= f)
    BY DEF Held
<1>6. Held(w, n, i) <=> i < w \/ (n # w /\ i >= e)
    BY DEF Held
<1> HIDE DEF a, e, f
<1>7. n + 1 = a \/ n + 1 >= a + Slots
    BY <1>1
<1>8. CASE a % Lines # 0
    BY <1>1, <1>2, <1>3, <1>5, <1>6, <1>7, <1>8 DEF a
<1>9. CASE a % Lines = 0
    <2>1. a \in Nat /\ (i \in SlotsOf(a \div Lines) <=> a <= i /\ i < a + Lines)
        BY <1>1, <1>4, <1>9
    <2>2. CASE w = Slots - 1
        BY <2>1, <2>2, <1>1, <1>2, <1>4, <1>5, <1>6, <1>7, <1>9 DEF a
    <2>3. CASE w < Slots - 1
        BY <2>1, <2>3, <1>1, <1>2, <1>4, <1>5, <1>6, <1>7, <1>9 DEF a
    <2> QED BY <2>2, <2>3, <1>1
<1> QED BY <1>8, <1>9
\* The sectors in use: w's unless w begins it, those below it and, once
\* around, those above it.
LEMMA HeldSectors ==
    ASSUME NEW w \in Slot, NEW n \in Nat, n = w \/ n >= w + Slots,
           NEW img \in Image_, \A i \in Slot : img[i] # Blank <=> Held(w, n, i)
    PROVE  /\ 0 \in Used(img) <=> w > 0
           /\ w = 0 /\ n # w => 1 \in Used(img)
           /\ n # w => Used(img) # {} /\ ~(Cardinality(Used(img)) <= 1)
           /\ Used(img) = {} => w = 0 /\ n = 0
<1> DEFINE s == w \div Lines
<1>1. s \in Sector /\ SectorEnd(w) = s * Lines + Lines
    BY SectorFacts DEF SectorEnd
<1>2. /\ w \in Nat /\ w < SectorEnd(w) /\ SectorEnd(w) <= w + Lines
      /\ Lines <= SectorEnd(w) /\ Slots \in Nat /\ Slots >= 3 * Lines /\ SectorEnd(w) \in Nat
    BY SectorEndFacts, SectorFacts
<1> HIDE DEF s
<1>3. \A q \in Sector : q \in Used(img) <=> Held(w, n, q * Lines)
    BY SectorFacts DEF Used
<1>4. 0 \in Sector /\ 1 \in Sector /\ 2 \in Sector /\ 0 * Lines = 0 /\ 1 * Lines = Lines
    BY DEF Sector
<1>5. 0 \in Used(img) <=> w > 0
    BY <1>2, <1>3, <1>4 DEF Held
<1>6. ASSUME NEW q \in Sector, q # s, n # w PROVE q \in Used(img)
    <2>1. CASE q < s
        <3>1. q * Lines + Lines <= s * Lines
            BY <2>1, <1>1, SectorFacts
        <3>2. q * Lines \in Nat /\ s * Lines \in Nat
            BY <1>1 DEF Sector
        <3> QED BY <3>1, <3>2, <1>1, <1>2, <1>3 DEF Held
    <2>2. CASE s < q
        <3>1. s * Lines + Lines <= q * Lines
            BY <2>2, <1>1, SectorFacts
        <3> QED BY <3>1, <1>1, <1>3, <1>6 DEF Held
    <2> QED BY <2>1, <2>2, <1>1, <1>6 DEF Sector
<1>7. w = 0 => s # 1
    <2> SUFFICES ASSUME w = 0, s = 1 PROVE FALSE
        OBVIOUS
    <2> QED BY <1>1, <1>2, <1>4
<1>8. w = 0 /\ n # w => 1 \in Used(img)
    BY <1>4, <1>6, <1>7
<1>9. ASSUME n # w PROVE Used(img) # {} /\ ~(Cardinality(Used(img)) <= 1)
    <2>1. PICK x \in Used(img), y \in Used(img) : x # y
        <3>1. CASE s = 0
            BY <3>1, <1>4, <1>6, <1>9
        <3>2. CASE s = 1
            BY <3>2, <1>4, <1>6, <1>9
        <3>3. CASE s # 0 /\ s # 1
            BY <3>3, <1>4, <1>6, <1>9
        <3> QED BY <3>1, <3>2, <3>3
    <2>2. IsFiniteSet(Used(img))
        <3>1. IsFiniteSet(Sector)
            BY FS_Interval DEF Sector
        <3> QED BY <3>1, FS_Subset DEF Used
    <2>3. Cardinality(Used(img)) # 0
        BY <2>1, <2>2, FS_EmptySet
    <2>4. Cardinality(Used(img)) # 1
        <3> SUFFICES ASSUME Cardinality(Used(img)) = 1 PROVE FALSE
            OBVIOUS
        <3>1. PICK z : Used(img) = {z}
            BY <2>2, FS_Singleton
        <3> QED BY <2>1, <3>1
    <2> QED BY <2>1, <2>2, <2>3, <2>4, FS_CardinalityType
<1>10. Used(img) = {} => w = 0 /\ n = 0
    BY <1>2, <1>5, <1>9
<1> QED BY <1>5, <1>8, <1>9, <1>10

\* How many lines there are.
LEMMA HeldCount ==
    ASSUME NEW w \in Slot, NEW n \in Nat,
           NEW img \in Image_, \A i \in Slot : img[i] # Blank <=> Held(w, n, i)
    PROVE  Cardinality(Filled(img)) = IF n = w THEN w ELSE w + Slots - SectorEnd(w)
<1> DEFINE e == SectorEnd(w)
           low == 0 .. w - 1
           high == e .. Slots - 1
<1>1. w \in Nat /\ w < e /\ e \in Nat /\ e <= Slots /\ Slots \in Nat /\ w < Slots
    BY SectorEndFacts
<1> HIDE DEF e
<1>2. IsFiniteSet(low) /\ Cardinality(low) = w
    BY <1>1, FS_Interval
<1>3. IsFiniteSet(high) /\ Cardinality(high) = Slots - e
    BY <1>1, FS_Interval
<1>4. CASE n = w
    <2>1. Filled(img) = low
        BY <1>1, <1>4 DEF Filled, Held, Slot
    <2> QED BY <2>1, <1>2, <1>4
<1>5. CASE n # w
    <2>1. Filled(img) = low \cup high
        BY <1>1, <1>5 DEF Filled, Held, Slot, e
    <2>2. low \cap high = {}
        BY <1>1
    <2>3. Cardinality(low \cap high) = 0
        BY <2>2, FS_EmptySet
    <2>4. Cardinality(low \cup high) = Cardinality(low) + Cardinality(high) - Cardinality(low \cap high)
        BY <1>2, <1>3, FS_Union
    <2> QED BY <2>1, <2>3, <2>4, <1>1, <1>2, <1>3, <1>5 DEF e
<1> QED BY <1>4, <1>5
\* The scan of a file of this kind finds the end of the ring, the number of
\* the line that comes, how many lines there are, and the oldest.
LEMMA ScanIsRight ==
    ASSUME NEW img \in Image_, NEW w \in Slot, Ring(img, w),
           NEW n \in Nat, n < Numbers, n = w \/ n >= w + Slots,
           \A i \in Slot : img[i] # Blank <=> Held(w, n, i),
           \A i \in Filled(img) : img[i].num = n - Dist(w, i),
           NEW old, NEW r \in GetLogInfo(img, old)
    PROVE  /\ r.next = n
           /\ r.count = Cardinality(Filled(img))
           /\ \A i \in Filled(img) : /\ r.pStart \in Filled(img)
                                     /\ Dist(w, i) <= Dist(w, r.pStart)
<1> DEFINE s == w \div Lines
           e == SectorEnd(w)
<1>1. /\ Open(img) # {} /\ WriteSector(img) = s /\ EndOf(img, s) = w
      /\ ~(Used(img) # {} /\ Cardinality(Used(img)) = 1 /\ 0 \notin Used(img))
    BY ScanSector
<1>2. /\ 0 \in Used(img) <=> w > 0
      /\ w = 0 /\ n # w => 1 \in Used(img)
      /\ n # w => Used(img) # {} /\ ~(Cardinality(Used(img)) <= 1)
      /\ Used(img) = {} => w = 0 /\ n = 0
    BY HeldSectors
<1>3. Cardinality(Filled(img)) = IF n = w THEN w ELSE w + Slots - e
    BY HeldCount
<1>4. /\ w \in Nat /\ w < e /\ e \in Nat /\ e <= Slots /\ Slots \in Nat /\ w < Slots
      /\ Lines <= e /\ e <= w + Lines /\ Slots >= 3 * Lines /\ Lines \in Nat /\ n < 65535
    <2>1. n < 65535
        BY NumbersAssumption
    <2> QED BY <2>1, SectorEndFacts, SectorFacts, LinesAssumption
<1>5. s \in Sector /\ e = s * Lines + Lines /\ s * Lines \in Nat
    BY SectorFacts DEF SectorEnd, Slot
<1> HIDE DEF s, e
<1>6. AfterSector(s) = IF e = Slots THEN 0 ELSE e
    <2>1. CASE s = Sectors - 1
        <3>1. (s + 1) % Sectors = 0
            <4>1. s + 1 = Sectors
                BY <2>1, <1>5 DEF Sector
            <4>2. Sectors % Sectors = 0
                BY SectorsAssumption
            <4> QED BY <4>1, <4>2
        <3>2. e = Slots
            BY <2>1, <1>5, LinesAssumption DEF Slots
        <3> QED BY <3>1, <3>2 DEF AfterSector
    <2>2. CASE s # Sectors - 1
        <3>1. s + 1 \in Sector /\ (s + 1) % Sectors = s + 1
            BY <2>2, <1>5 DEF Sector
        <3>2. (s + 1) * Lines = e
            BY <1>5, LinesAssumption DEF Sector
        <3>3. e \in Slot
            BY <3>1, <3>2, SectorFacts
        <3> QED BY <3>1, <3>2, <3>3, <1>4 DEF AfterSector, Slot
    <2> QED BY <2>1, <2>2
<1>7. \A i \in Slot : i \in Filled(img) <=> i < w \/ (n # w /\ i >= e)
    BY DEF Filled, Held, e
<1>8. Used(img) = {} => r = NoInfo
    <2>1. \A l : Used(img) = {} => ScanResult(img, old, l) = NoInfo
        BY DEF ScanResult
    <2> QED BY <2>1 DEF GetLogInfo
<1>9. CASE Used(img) = {}
    <2>1. w = 0 /\ n = 0 /\ r = NoInfo
        BY <1>2, <1>8, <1>9
    <2>2. r.next = n /\ r.count = Cardinality(Filled(img))
        BY <2>1, <1>3 DEF NoInfo
    <2>3. Filled(img) = {}
        BY <2>1, <1>7 DEF Filled, Slot
    <2> QED BY <2>2, <2>3
<1>10. CASE Used(img) # {}
    <2>1. PICK l \in IF Cardinality(Used(img)) <= 1 THEN {FALSE} ELSE Lapped(img) :
              r = ScanResult(img, old, l)
        BY DEF GetLogInfo
    <2> DEFINE next == (img[Before(w)].num + 1) % 65536
               start == IF l THEN AfterSector(s) ELSE 0
               first == IF l THEN img[start].num ELSE 0
    <2>2. r = [pStart |-> start, pWrite |-> w, next |-> next,
               first |-> first, count |-> CountOf(next, first)]
        BY <2>1, <1>1, <1>10 DEF ScanResult
    <2>3. l \in BOOLEAN /\ (l <=> n # w)
        <3>1. CASE n = w
            <4>1. 0 \in Used(img) /\ 0 \in Filled(img) /\ img[0].num = 0
                <5>1. w > 0
                    <6> SUFFICES ASSUME w = 0 PROVE FALSE
                        BY <1>4
                    <6>1. \A i \in Slot : img[i] = Blank
                        BY <3>1, <1>7, <1>4 DEF Filled, Slot
                    <6> QED BY <6>1, <1>10, SectorFacts DEF Used
                <5>2. 0 \in Filled(img)
                    BY <5>1, <1>7, SectorFacts
                <5>3. Dist(w, 0) = w
                    BY <5>1, <1>4 DEF Dist
                <5> QED BY <5>1, <5>2, <5>3, <3>1, <1>2, <1>4
            <4> QED BY <4>1, <3>1, <2>1 DEF Lapped
        <3>2. CASE n # w
            <4>1. l \in Lapped(img)
                BY <3>2, <2>1, <1>2
            <4>2. CASE w > 0
                <5>1. 0 \in Filled(img) /\ Dist(w, 0) = w
                    BY <4>2, <1>4, <1>7, SectorFacts DEF Dist
                <5>2. img[0].num # 0
                    BY <5>1, <3>2, <1>4
                <5> QED BY <5>2, <4>1, <4>2, <3>2, <1>2 DEF Lapped
            <4>3. CASE w = 0
                <5>1. Lines \in Slot /\ Lines > 0
                    BY <1>4, LinesAssumption DEF Slot
                <5>2. Lines \in Filled(img) /\ Dist(w, Lines) = Slots - Lines
                    BY <5>1, <4>3, <3>2, <1>4, <1>7 DEF Dist
                <5>3. img[Lines].num # 0
                    BY <5>1, <5>2, <4>3, <3>2, <1>4
                <5>4. 0 \notin Used(img) /\ 1 \in Used(img)
                    BY <4>3, <3>2, <1>2
                <5> QED BY <5>3, <5>4, <4>1, <3>2 DEF Lapped
            <4> QED BY <4>2, <4>3, <1>4
        <3> QED BY <3>1, <3>2
    <2>4. next = n
        <3> DEFINE b == Before(w)
        <3>1. b \in Slot /\ b \in Filled(img) /\ Dist(w, b) = 1
            <4>1. CASE w > 0
                <5>1. b = w - 1
                    <6>1. (w + Slots - 1) % Slots = w - 1
                        BY <4>1, <1>4
                    <6> QED BY <6>1 DEF Before
                <5>2. b \in Slot
                    BY <5>1, <4>1, <1>4 DEF Slot
                <5> QED BY <5>1, <5>2, <4>1, <1>4, <1>7 DEF Dist
            <4>2. CASE w = 0
                <5>1. b = Slots - 1
                    BY <4>2, <1>4 DEF Before
                <5>2. n # w
                    <6> SUFFICES ASSUME n = w PROVE FALSE
                        OBVIOUS
                    <6>1. \A i \in Slot : img[i] = Blank
                        BY <4>2, <1>7, <1>4 DEF Filled, Slot
                    <6> QED BY <6>1, <1>10, SectorFacts DEF Used
                <5>3. b \in Slot /\ b \in Filled(img)
                    BY <5>1, <5>2, <4>2, <1>4, <1>7, SectorFacts
                <5> QED BY <5>1, <5>3, <4>2, <1>4, LinesAssumption DEF Dist
            <4> QED BY <4>1, <4>2, <1>4
        <3>2. img[b].num = n - 1
            BY <3>1
        <3> HIDE DEF b
        <3>3. (img[b].num + 1) % 65536 = n
            <4>1. img[b].num + 1 = n
                BY <3>2
            <4>2. n % 65536 = n
                BY <1>4
            <4> QED BY <4>1, <4>2
        <3> QED BY <3>3 DEF b
    <2>5. /\ first = IF n = w THEN 0 ELSE n - Dist(w, start)
          /\ start \in Slot
          /\ Filled(img) # {} => start \in Filled(img)
          /\ \A i \in Filled(img) : Dist(w, i) <= Dist(w, start)
          /\ Dist(w, start) = IF n = w THEN w ELSE w + Slots - e
        <3>1. CASE n = w
            <4>1. start = 0 /\ first = 0 /\ Dist(w, 0) = w /\ 0 \in Slot
                BY <3>1, <2>3, <1>4, SectorFacts DEF Dist
            <4>2. \A i \in Filled(img) : i \in Slot /\ i \in Nat /\ i < w /\ Dist(w, i) = w - i
                BY <3>1, <1>7, <1>4 DEF Filled, Slot, Dist
            <4> HIDE DEF start, first
            <4>3. Filled(img) # {} => w > 0
                BY <4>2, <1>4
            <4>4. \A i \in Filled(img) : Dist(w, i) <= Dist(w, start)
                BY <4>1, <4>2, <1>4
            <4> QED BY <4>1, <4>3, <4>4, <3>1, <1>7
        <3>2. CASE n # w
            <4>1. start = IF e = Slots THEN 0 ELSE e
                BY <3>2, <2>3, <1>6
            <4>2. first = img[start].num
                BY <3>2, <2>3
            <4> HIDE DEF start, first
            <4>3. start \in Slot /\ start \in Filled(img) /\ Dist(w, start) = w + Slots - e
                <5>1. start \in Slot
                    BY <4>1, <1>4, SectorFacts DEF Slot
                <5> QED BY <5>1, <4>1, <3>2, <1>4, <1>7, LinesAssumption DEF Dist
            <4>4. ASSUME NEW i \in Filled(img) PROVE Dist(w, i) <= w + Slots - e
                <5>1. i \in Slot /\ i \in Nat /\ i < Slots /\ (i < w \/ i >= e)
                    BY <1>7, <1>4 DEF Filled, Slot
                <5> QED BY <5>1, <1>4 DEF Dist
            <4> QED BY <4>2, <4>3, <4>4, <3>2
        <3> QED BY <3>1, <3>2
    <2> HIDE DEF next, start, first
    <2>6. CountOf(next, first) = Cardinality(Filled(img))
        <3>1. n - first = Cardinality(Filled(img)) /\ first \in Nat /\ n - first \in Nat
            BY <2>5, <1>3, <1>4
        <3>2. CountOf(n, first) = (n - first) % 65536
            BY <3>1 DEF CountOf
        <3>3. (n - first) % 65536 = n - first
            BY <3>1, <1>4
        <3> QED BY <3>1, <3>2, <3>3, <2>4
    <2> QED BY <2>2, <2>4, <2>5, <2>6
<1> QED BY <1>9, <1>10
\* In an idle program the scan changes nothing that the next PutLog uses.
LEMMA DumpKeepsNext ==
    ASSUME IInv, Exact, p = "idle", puts < Numbers,
           NEW old, NEW r \in GetLogInfo(logFile, old)
    PROVE  /\ r.pWrite = info.pWrite
           /\ r.next = info.next
           /\ r.count = Cardinality(Filled(logFile))
           /\ \A i \in Filled(logFile) : logFile[r.pStart].id <= logFile[i].id
<1> DEFINE w == info.pWrite
           n == info.next
<1>1. /\ w \in Slot /\ logFile \in Image_ /\ End = w /\ Ring(logFile, w) /\ puts \in Nat
      /\ n \in Nat
    BY Types, UInt16Facts DEF IInv, Info
<1>2. ~InPut /\ ~NextErased /\ Coming = puts + 1
    BY DEF InPut, NextErased, Coming
<1>3. /\ n < Numbers
      /\ n = w \/ n >= w + Slots
      /\ \A i \in Slot : logFile[i] # Blank <=> Held(w, n, i)
      /\ \A i \in Filled(logFile) : logFile[i].num = n - Dist(w, i)
      /\ \A i \in Filled(logFile) : logFile[i].id = Coming - Dist(w, i)
    <2>1. n < puts + 1 /\ Numbers \in Nat
        BY <1>2, NumbersAssumption DEF Exact
    <2>2. n < Numbers
        BY <1>1, <2>1
    <2>3. \A i \in Slot : logFile[i] # Blank <=> Held(w, n, i)
        BY <1>2 DEF Exact, Present
    <2> QED BY <2>2, <2>3 DEF Exact
<1> HIDE DEF w, n
<1>4. r.pWrite = w
    BY <1>1, ScanFindsEnd
<1>5. /\ r.next = n /\ r.count = Cardinality(Filled(logFile))
      /\ \A i \in Filled(logFile) : /\ r.pStart \in Filled(logFile)
                                    /\ Dist(w, i) <= Dist(w, r.pStart)
    BY <1>1, <1>3, ScanIsRight
<1>6. ASSUME NEW i \in Filled(logFile)
      PROVE  logFile[r.pStart].id <= logFile[i].id
    <2>1. Dist(w, i) \in Nat /\ Dist(w, r.pStart) \in Nat
        BY <1>1, <1>5, DistFacts DEF Filled
    <2>2. logFile[i].id = Coming - Dist(w, i)
        BY <1>3
    <2>3. logFile[r.pStart].id = Coming - Dist(w, r.pStart)
        BY <1>3, <1>5
    <2> QED BY <2>1, <2>2, <2>3, <1>1, <1>2, <1>5
<1> QED BY <1>4, <1>5, <1>6 DEF w, n

LEMMA QuietNumbers ==
    ASSUME IInv, Quiet, Exact, puts < Numbers, InPut => logLine.num = info.next
    PROVE  /\ info'.next = info.next
           /\ NextErased' <=> NextErased
           /\ InPut' => logLine'.num = info'.next
<1>1. CASE p = "idle" /\ FillLine(cmd)
    <2>1. p' = "erase"
        BY <1>1, MovesTo DEF FillLine, Pc
    <2> QED BY <1>1, <2>1 DEF FillLine, InPut, NextErased
<1>2. CASE EraseAhead(cmd)
    <2>1. p = "erase" /\ p' = IF AtSectorEnd THEN "eraseStore" ELSE "copy"
        BY <1>2, MovesTo DEF EraseAhead, AtSectorEnd, Pc, p
    <2>2. info' = info /\ logLine' = logLine
        BY <1>2 DEF EraseAhead
    <2> QED BY <2>1, <2>2 DEF InPut, NextErased, AtSectorEnd
<1>3. CASE CopyLine(cmd)
    <2>1. p = "copy" /\ p' = "store"
        BY <1>3, MovesTo DEF CopyLine, Pc, p
    <2>2. info' = info /\ logLine' = logLine
        BY <1>3 DEF CopyLine
    <2> QED BY <2>1, <2>2 DEF InPut, NextErased, AtSectorEnd
<1>4. CASE Clear
    <2>1. p = "idle" /\ p' = "clearStore"
        BY <1>4, MovesTo DEF Clear, Pc, p
    <2> QED BY <1>4, <2>1 DEF Clear, InPut, NextErased
<1>5. CASE Dump
    <2>1. p = "idle" /\ p' = "read"
        BY <1>5, MovesTo DEF Dump, Pc, p
    <2>2. info'.next = info.next
        BY <1>5, <2>1, DumpKeepsNext DEF Dump
    <2> QED BY <2>1, <2>2 DEF InPut, NextErased
<1>6. CASE DumpMore \/ ReadLine \/ ReadBlank \/ ReadEnd
    <2>1. p \in {"idle", "read"} /\ p' \in {"idle", "read"}
        BY <1>6, MovesTo DEF DumpMore, ReadLine, ReadBlank, ReadEnd, Pc, p
    <2>2. info' = info
        BY <1>6 DEF DumpMore, ReadLine, ReadBlank, ReadEnd
    <2> QED BY <2>1, <2>2 DEF InPut, NextErased
<1> QED BY <1>1, <1>2, <1>3, <1>4, <1>5, <1>6 DEF Quiet

LEMMA StepCounted == IInv /\ KInv /\ Counted /\ [Next]_vars => Counted'
<1> SUFFICES ASSUME IInv, KInv, Counted, [Next]_vars, crashes' = 0, puts' < Numbers
             PROVE  /\ InPut' => logLine'.num = info'.next
                    /\ ~Clearing' => Exact'
    BY DEF Counted
<1> DEFINE w == info.pWrite
           n == info.next
<1>0. /\ puts \in Nat /\ crashes \in Nat /\ w \in Slot /\ n \in Nat /\ p \in Pc
      /\ Slots \in Nat /\ Slots > 0
      /\ Numbers \in Nat /\ logFile \in Image_
    BY Types, UInt16Facts, SectorFacts, NumbersAssumption DEF Info
<1>1. /\ ~Restart /\ crashes = 0
      /\ puts' = puts \/ puts' = puts + 1
    <2>1. ~Restart
        BY <1>0 DEF Restart
    <2>2. CASE UNCHANGED vars
        BY <2>1, <2>2 DEF vars
    <2>3. ASSUME NEW t \in Thread, PutLog(t)
          PROVE  crashes' = crashes /\ (puts' = puts \/ puts' = puts + 1)
        BY <2>3 DEF PutLog, FillLine, EraseAhead, StoreErase, Store, CopyLine,
                    StoreLine, Advance, hist
    <2>4. CASE Elogs
        BY <2>1, <2>4 DEF Elogs, Clear, StoreClear, Store, ClearInfo, Dump, DumpMore,
                          ReadLine, ReadBlank, ReadEnd, hist
    <2> QED BY <2>1, <2>2, <2>3, <2>4 DEF Next
<1>2. puts < Numbers /\ (InPut => logLine.num = n) /\ (~Clearing => Exact)
    BY <1>0, <1>1 DEF Counted
<1>3. CASE UNCHANGED vars
    <2>1. p' = p /\ (InPut' <=> InPut) /\ (Clearing' <=> Clearing) /\ Coming' = Coming
          /\ (NextErased' <=> NextErased)
        BY <1>3 DEF vars, InPut, Clearing, Coming, NextErased, AtSectorEnd, p
    <2> QED BY <2>1, <1>2, <1>3 DEF vars, Exact, Present, NextSector, Filled
<1>4. CASE Quiet
    <2>1. /\ logFile' = logFile /\ info'.pWrite = w /\ Coming' = Coming /\ ~Clearing
          /\ p # "advance" /\ p' # "advance"
        BY <1>4, QuietSteps
    <2>2. /\ info'.next = n /\ (NextErased' <=> NextErased)
          /\ InPut' => logLine'.num = info'.next
        BY <1>2, <1>4, <2>1, QuietNumbers
    <2>3. Exact'
        BY <1>2, <2>1, <2>2 DEF Exact, Present, NextSector, Filled
    <2> QED BY <2>2, <2>3
<1>5. CASE p = "fill" /\ FillLine(cmd)
    <2>1. /\ p' = "erase" /\ logFile' = logFile /\ puts' = puts + 1 /\ info' = info
          /\ logLine'.num = n
        BY <1>5, MovesTo DEF FillLine, log, Pc
    <2>2. w = 0 /\ n = 0 /\ logFile = Erased
        BY <1>5 DEF IInv, Writing, NoInfo
    <2>3. \A i \in Slot : ~Held(0, 0, i) /\ logFile'[i] = Blank
        BY <2>1, <2>2 DEF Held, Slot, Erased
    <2>4. Filled(logFile') = {} /\ Coming' = puts + 1 /\ ~NextErased'
        BY <2>1, <2>3 DEF Filled, Coming, InPut, NextErased
    <2>5. Exact'
        BY <2>1, <2>2, <2>3, <2>4, <1>0 DEF Exact, Present, Filled
    <2> QED BY <2>1, <2>5
<1>6. CASE StoreErase(cmd)
    <2>1. /\ p = "eraseStore" /\ p' = "copy" /\ info' = info /\ puts' = puts
          /\ logLine' = logLine
        BY <1>6, MovesTo DEF StoreErase, Store, hist, Pc, p
    <2>2. /\ AtSectorEnd
          /\ \A i \in Slot : logFile'[i] = IF i \in NextSector THEN Blank ELSE logFile[i]
        BY <1>6, FileStores
    <2>3. InPut /\ InPut' /\ ~Clearing /\ ~NextErased /\ NextErased' /\ Coming' = Coming
          /\ NextSector' = NextSector
        BY <2>1, <2>2 DEF InPut, Clearing, NextErased, Coming, AtSectorEnd, NextSector
    <2>4. \A i \in Slot : logFile'[i] # Blank <=> Present(i)'
        BY <1>2, <2>1, <2>2, <2>3 DEF Exact, Present
    <2>5. Exact'
        BY <1>2, <2>1, <2>2, <2>3, <2>4 DEF Exact, Filled
    <2> QED BY <1>2, <2>1, <2>3, <2>5
<1>7. CASE StoreLine(cmd)
    <2>1. /\ p = "store" /\ p' = "advance" /\ info' = info /\ logLine' = logLine
          /\ puts' = puts
        BY <1>7, MovesTo DEF StoreLine, Store, hist, Pc, p
    <2>2. /\ logFile[w] = Blank /\ logLine.id = puts /\ logLine # Blank
          /\ \A i \in Slot : logFile'[i] = IF i = w THEN logLine ELSE logFile[i]
        BY <1>7, FileStores, NotBlank
    <2>3. InPut /\ InPut' /\ ~Clearing /\ (NextErased' <=> NextErased)
          /\ Coming = puts /\ Coming' = puts /\ NextSector' = NextSector
        BY <2>1 DEF InPut, Clearing, NextErased, Coming, AtSectorEnd, NextSector
    <2>4. \A i \in Slot : logFile'[i] # Blank <=> Present(i)'
        BY <1>2, <2>1, <2>2, <2>3 DEF Exact, Present
    <2>5. logLine.num = n - Dist(w, w) /\ logLine.id = puts - Dist(w, w)
        BY <1>0, <1>2, <2>2, <2>3, DistFacts
    <2>6. Exact'
        BY <1>2, <2>1, <2>2, <2>3, <2>4, <2>5 DEF Exact, Filled
    <2> QED BY <1>2, <2>1, <2>3, <2>6
<1>8. CASE Advance(cmd)
    <2>1. /\ p = "advance" /\ p' = "idle" /\ logFile' = logFile /\ puts' = puts
          /\ ~Clearing /\ InPut /\ ~InPut' /\ ~NextErased' /\ (NextErased <=> AtSectorEnd)
          /\ Coming = puts /\ Coming' = puts + 1
        BY <1>8, MovesTo DEF Advance, log, Pc, p, Clearing, InPut, NextErased, Coming
    <2>2. n < puts
        BY <1>2, <2>1 DEF Exact
    <2>3. info'.pWrite = After(w) /\ info'.next = n + 1
        <3>1. info \in Info /\ ~(n + 1 >= Numbers)
            BY <1>0, <1>2, <2>2, Types
        <3> QED BY <1>8, <3>1 DEF Advance, Info
    <2> DEFINE a == After(w)
    <2>4. logFile[a] = Blank /\ a \in Slot
        BY <1>0, <2>1, Types, AfterFacts DEF IInv, Ring
    <2>5. n + 1 = a \/ n + 1 >= a + Slots
        BY <1>0, <1>2, <2>1, HeldMoves DEF Exact
    <2>6. ASSUME NEW i \in Slot
          PROVE  logFile[i] # Blank <=> Held(a, n + 1, i)
        <3>1. n = w \/ n >= w + Slots
            BY <1>2, <2>1 DEF Exact
        <3>2. Held(a, n + 1, i) <=>
                \/ i = w
                \/ Held(w, n, i) /\ (AtSectorEnd => i \notin NextSector)
            BY <1>0, <3>1, HeldMoves DEF AtSectorEnd, NextSector
        <3>3. logFile[i] # Blank <=>
                \/ i = w
                \/ Held(w, n, i) /\ (AtSectorEnd => i \notin NextSector)
            BY <1>2, <2>1 DEF Exact, Present
        <3> QED BY <3>2, <3>3
    <2>7. ASSUME NEW i \in Filled(logFile)
          PROVE  /\ logFile[i].num = info'.next - Dist(a, i)
                 /\ logFile[i].id = Coming' - Dist(a, i)
        <3>1. logFile[i].num = n - Dist(w, i) /\ logFile[i].id = puts - Dist(w, i)
            BY <1>2, <2>1 DEF Exact
        <3>2. i \in Slot /\ i # a
            BY <2>4 DEF Filled
        <3>3. Dist(w, i) \in Nat /\ Dist(a, i) = Dist(w, i) + 1
            BY <1>0, <3>2, DistFacts
        <3> QED BY <1>0, <2>1, <2>3, <3>1, <3>3
    <2> HIDE DEF a
    <2>8. info'.pWrite = a
        BY <2>3 DEF a
    <2>9. n + 1 < Coming'
        BY <1>0, <2>1, <2>2
    <2>10. \A i \in Slot : logFile'[i] # Blank <=> Present(i)'
        BY <2>1, <2>3, <2>6, <2>8 DEF Present
    <2>11. \A i \in Filled(logFile') :
                /\ logFile'[i].num = info'.next - Dist(info'.pWrite, i)
                /\ logFile'[i].id = Coming' - Dist(info'.pWrite, i)
        BY <2>1, <2>7, <2>8
    <2>12. Exact'
        BY <2>3, <2>5, <2>8, <2>9, <2>10, <2>11 DEF Exact, Filled
    <2> QED BY <2>1, <2>12
<1>9. CASE StoreClear \/ ClearInfo
    <2>1. p' \in {"clearInfo", "fill"}
        BY <1>9, MovesTo DEF StoreClear, ClearInfo, Store, Pc
    <2> QED BY <2>1 DEF InPut, Clearing
<1> QED BY <1>1, <1>3, <1>4, <1>5, <1>6, <1>7, <1>8, <1>9, StepCases

LEMMA SpecCounted == Spec => []Counted
<1>1. Init => Counted
    <2> SUFFICES ASSUME Init PROVE Counted
        OBVIOUS
    <2>1. p = "idle" /\ puts = 0 /\ info = NoInfo /\ logFile = Erased
        BY OneThread DEF Init, p
    <2>2. ~InPut /\ ~NextErased /\ Coming = 1
        BY <2>1 DEF InPut, NextErased, Coming
    <2>3. \A i \in Slot : ~Held(0, 0, i) /\ logFile[i] = Blank
        BY <2>1 DEF Held, Slot, Erased
    <2>4. Exact
        BY <2>1, <2>2, <2>3 DEF Exact, Present, NoInfo, Filled
    <2> QED BY <2>2, <2>4 DEF Counted
<1> QED BY <1>1, StepCounted, SpecKInv, SpecIInv, PTL DEF Spec

LEMMA FirstNumbersExact ==
    ASSUME IInv, Counted, FirstNumbers
    PROVE  Exact /\ p = "idle" /\ puts < Numbers /\ Coming = puts + 1
BY OneThread DEF FirstNumbers, Idle, Counted, Clearing, Coming, InPut, p

\* Until the first stop and before the numbers wrap, the scan (GetLogInfo)
\* finds where the next line goes, its number, the number of lines and the
\* oldest one, for every size of the ring, however often it has gone round or
\* been cleared.
THEOREM LogScanIsExact == Spec => []ScanIsExact
<1>1. IInv /\ Counted => ScanIsExact
    BY FirstNumbersExact, DumpKeepsNext DEF ScanIsExact
<1> QED BY <1>1, SpecCounted, SpecIInv, PTL

\* In the same time, the next line continues the numbers of the file.
THEOREM LogNumbersContinue == Spec => []NumbersContinue
<1>1. IInv /\ Counted => NumbersContinue
    <2> SUFFICES ASSUME IInv, Counted, FirstNumbers,
                        NEW i \in Filled(logFile),
                        \A j \in Filled(logFile) : logFile[j].id <= logFile[i].id
                 PROVE  info.next = logFile[i].num + 1
        BY DEF NumbersContinue
    <2> DEFINE w == info.pWrite
               n == info.next
    <2>1. /\ Exact /\ p = "idle" /\ puts < Numbers /\ Coming = puts + 1
          /\ w \in Slot /\ n \in Nat /\ puts \in Nat /\ i \in Slot
        BY FirstNumbersExact, Types, UInt16Facts DEF Info, Filled
    <2>2. PICK b \in Filled(logFile) : Dist(w, b) = 1
        <3>1. \A j \in Slot : j \in Filled(logFile) <=> Held(w, n, j)
            BY <2>1 DEF Exact, Present, NextErased, Filled
        <3>2. w \in Nat /\ w < Slots /\ Slots \in Nat /\ w < SectorEnd(w)
              /\ SectorEnd(w) <= w + Lines /\ Slots >= 3 * Lines /\ SectorEnd(w) \in Nat
            BY <2>1, SectorEndFacts, SectorFacts
        <3>3. CASE w > 0
            <4>1. w - 1 \in Slot /\ Dist(w, w - 1) = 1 /\ Held(w, n, w - 1)
                BY <3>2, <3>3 DEF Slot, Dist, Held
            <4> QED BY <3>1, <4>1
        <3>4. CASE w = 0
            <4>1. n # w
                BY <3>1, <3>2, <3>4 DEF Held, Filled, Slot
            <4>2. Slots - 1 \in Slot /\ Slots - 1 > 0 /\ Slots - 1 >= SectorEnd(w)
                BY <3>2, <3>4, SectorFacts, LinesAssumption
            <4>3. Dist(w, Slots - 1) = 1
                BY <3>2, <3>4, <4>2 DEF Dist
            <4> QED BY <3>1, <4>1, <4>2, <4>3 DEF Held
        <3> QED BY <3>2, <3>3, <3>4
    <2>3. /\ logFile[b].id = Coming - Dist(w, b)
          /\ logFile[i].id = Coming - Dist(w, i) /\ logFile[i].num = n - Dist(w, i)
        BY <2>1 DEF Exact
    <2>4. Dist(w, i) \in Nat /\ Dist(w, i) > 0
        <3>1. i # w
            BY <2>1, Types DEF IInv, Ring, Filled
        <3> QED BY <3>1, <2>1, DistFacts
    <2>5. Dist(w, i) = 1
        BY <2>1, <2>2, <2>3, <2>4
    <2> QED BY <2>1, <2>3, <2>5
<1> QED BY <1>1, SpecCounted, SpecIInv, PTL
=============================================================================
