--------------------------- MODULE HttpSendProofs ---------------------------
(***************************************************************************)
(* Proofs about HttpSend, for any number of certificates, any kinds of     *)
(* reports and any number of events.                                       *)
(***************************************************************************)
EXTENDS HttpSend, TLAPS

LEMMA OrderType ==
    /\ DOMAIN Order = 1 .. 8 /\ Len(Order) = 8
    /\ \A p \in 1 .. 8 : Order[p] \in File
    /\ File = {"C", "W", "S", "M", "R", "A", "I", "L"}
<1>1. DOMAIN Order = 1 .. 8 /\ Len(Order) = 8
  BY DEF Order
<1>2. \A p \in 1 .. 8 : Order[p] \in File
  BY <1>1 DEF File
<1>3. /\ Order[1] = "C" /\ Order[2] = "W" /\ Order[3] = "S" /\ Order[4] = "M"
      /\ Order[5] = "R" /\ Order[6] = "A" /\ Order[7] = "I" /\ Order[8] = "L"
  BY DEF Order
<1>4. File = {"C", "W", "S", "M", "R", "A", "I", "L"}
  <2>1. ASSUME NEW f \in File PROVE f \in {"C", "W", "S", "M", "R", "A", "I", "L"}
    <3>1. PICK p \in 1 .. 8 : f = Order[p]
      BY <1>1 DEF File
    <3>2. p = 1 \/ p = 2 \/ p = 3 \/ p = 4 \/ p = 5 \/ p = 6 \/ p = 7 \/ p = 8
      OBVIOUS
    <3> QED BY <1>3, <3>1, <3>2
  <2>2. \A f \in {"C", "W", "S", "M", "R", "A", "I", "L"} : f \in File
    BY <1>1, <1>2, <1>3
  <2> QED BY <2>1, <2>2
<1> QED BY <1>1, <1>2, <1>4

\* A session looks at the next file there is.
LEMMA FoundIsLater ==
    ASSUME TypeOK, Later # {}
    PROVE  Found \in 1 .. 8 /\ Order[Found] \in file
<1>1. \E p \in Later : \A q \in Later : p <= q
  <2>0. Later \subseteq 1 .. 8 /\ Later # {}
    BY OrderType DEF Later, TypeOK
  <2> DEFINE Up(n) == \A p \in Later : p >= n
  <2>1. SUFFICES ASSUME \A p \in Later : \E q \in Later : q < p PROVE FALSE
    BY <2>0
  <2>2. Up(1)
    BY <2>0
  <2>3. ASSUME NEW n \in 1 .. 8, Up(n) PROVE Up(n + 1)
    <3>1. n \notin Later
      BY <2>1, <2>3, <2>0
    <3> QED BY <2>3, <3>1, <2>0
  <2>4. Up(2) BY <2>2, <2>3
  <2>5. Up(3) BY <2>4, <2>3
  <2>6. Up(4) BY <2>5, <2>3
  <2>7. Up(5) BY <2>6, <2>3
  <2>8. Up(6) BY <2>7, <2>3
  <2>9. Up(7) BY <2>8, <2>3
  <2>10. Up(8) BY <2>9, <2>3
  <2>11. Up(8 + 1) BY <2>10, <2>3
  <2>12. \A p \in Later : p >= 8 + 1 BY <2>11
  <2>13. PICK p \in Later : TRUE BY <2>0
  <2>14. p \in 1 .. 8 /\ p >= 8 + 1 BY <2>0, <2>12, <2>13
  <2> QED BY <2>14
<1>2. Found \in Later
  BY <1>1 DEF Found
<1> QED BY <1>2, OrderType DEF Later, TypeOK

-----------------------------------------------------------------------------
(* What the shared operations do.                                          *)

\* The flags after SetFlags: READY is there if it was or came, and only who
\* waited goes on.
LEMMA FlagsAreSet ==
    ASSUME TypeOK, NEW new \in SUBSET (Answers \cup {"READY"}), SetFlags(new)
    PROVE  /\ flags' \subseteq Answers \cup {"READY"}
           /\ "READY" \in flags' <=> "READY" \in flags \cup new
           /\ spc' \in [Sender -> {"idle", "make", "clear", "mark", "ask", "get", "wait", "sent", "failed", "run"}]
           /\ \A s \in Sender : spc[s] # "wait" => spc'[s] = spc[s]
<1>1. flags' \subseteq flags \cup new
  BY DEF SetFlags
<1>2. "READY" \in flags' <=> "READY" \in flags \cup new
  BY DEF SetFlags, Answers
<1>3. \A a : Taken(a) \in {"sent", "failed"}
  BY DEF Taken
<1>4. spc' \in [Sender -> {"idle", "make", "clear", "mark", "ask", "get", "wait", "sent", "failed", "run"}]
  BY <1>3 DEF SetFlags, TypeOK
<1>5. \A s \in Sender : spc[s] # "wait" => spc'[s] = spc[s]
  BY DEF SetFlags
<1> QED BY <1>1, <1>2, <1>4, <1>5 DEF TypeOK

LEMMA LoseType ==
    ASSUME TypeOK, NEW set, NEW how \in {"sent", "lost", "dropped"}, Lose(set, how)
    PROVE  fate' \in {"none", "sent", "lost", "dropped"}
  BY DEF Lose, TypeOK

LEMMA WriteType ==
    ASSUME TypeOK, NEW s \in Sender, NEW k \in Reports, NEW complete \in BOOLEAN, Write(s, k, complete)
    PROVE  xml' \in Text /\ doc' \in Text
  BY DEF Write, TypeOK, Text

LEMMA GoOnType ==
    ASSUME TypeOK, NEW p \in 1 .. 8, GoOn(p)
    PROVE  pc' \in {"scan", "report"} /\ pos' \in 1 .. 8
  BY OrderType DEF GoOn, Finish, Go, TypeOK

-----------------------------------------------------------------------------
(* Type correctness.                                                       *)

LEMMA StartType ==
    /\ Started.file \subseteq File /\ NoText \in Text /\ 1 \in DOMAIN Order
    /\ Started.spc \in [Sender -> {"idle", "make", "clear", "mark", "ask", "get", "wait", "sent", "failed", "run"}]
    /\ Started.kind \in [Sender -> Reports]
  BY OrderType DEF Started, NoText, Text, Reports, Sender

LEMMA TypeInit == Init => TypeOK
<1> SUFFICES ASSUME Init PROVE TypeOK
  OBVIOUS
<1>1. usb \in BOOLEAN /\ busy \in BOOLEAN /\ ok \in BOOLEAN /\ asleep \in BOOLEAN /\ crossed \in BOOLEAN
  BY DEF Init
<1>2. link \in BOOLEAN /\ netReboot \in BOOLEAN /\ wifiDown \in BOOLEAN
  BY DEF Init
<1>3. /\ mode \in Modes /\ shown \in 0 .. CertMax /\ cert \in 0 .. CertMax - 1
      /\ gaveUp \in 0 .. 2 /\ errors \in 0 .. 2 /\ budget \in 0 .. Budget
  BY HttpAssumption DEF Init
<1>4. /\ file \subseteq File /\ flags \subseteq Answers \cup {"READY"} /\ pos \in DOMAIN Order
      /\ xml \in Text /\ doc \in Text /\ kind \in [Sender -> Reports]
      /\ spc \in [Sender -> {"idle", "make", "clear", "mark", "ask", "get", "wait", "sent", "failed", "run"}]
  BY StartType DEF Init
<1>5. pc = "wait" /\ order = "none" /\ net = "down" /\ fate = "none"
  BY DEF Init
<1> QED BY <1>1, <1>2, <1>3, <1>4, <1>5 DEF TypeOK

LEMMA RebootType == TypeOK /\ Reboot => TypeOK'
<1> SUFFICES ASSUME TypeOK, Reboot PROVE TypeOK'
  OBVIOUS
<1>1. /\ usb' \in BOOLEAN /\ mode' \in Modes /\ shown' \in 0 .. CertMax /\ budget' \in 0 .. Budget
  BY DEF Reboot, TypeOK, outside
<1>2. /\ busy' \in BOOLEAN /\ ok' \in BOOLEAN /\ asleep' \in BOOLEAN /\ crossed' \in BOOLEAN
      /\ link' \in BOOLEAN /\ netReboot' \in BOOLEAN /\ wifiDown' \in BOOLEAN
  BY DEF Reboot
<1>3. cert' \in 0 .. CertMax - 1 /\ gaveUp' \in 0 .. 2 /\ errors' \in 0 .. 2
  BY HttpAssumption DEF Reboot
<1>4. /\ file' \subseteq File /\ flags' \subseteq Answers \cup {"READY"} /\ pos' \in DOMAIN Order
      /\ xml' \in Text /\ doc' \in Text /\ kind' \in [Sender -> Reports]
      /\ spc' \in [Sender -> {"idle", "make", "clear", "mark", "ask", "get", "wait", "sent", "failed", "run"}]
  BY StartType DEF Reboot
<1>5. pc' = "wait" /\ order' = "none" /\ net' = "down" /\ fate' = "none"
  BY DEF Reboot
<1> QED BY <1>1, <1>2, <1>3, <1>4, <1>5 DEF TypeOK

\* The number of errors: it is 2 only until the HTTP thread looks at it.
FewErrors == errors = 2 => pc \in {"report", "errors"}

LEMMA HttpType == TypeOK /\ FewErrors /\ http_thread_entry => TypeOK'
<1> SUFFICES ASSUME TypeOK, FewErrors, http_thread_entry PROVE TypeOK'
  OBVIOUS
<1> USE HttpAssumption DEF TypeOK, At, Go, outside, session, certs, text, senders, network, history
<1>1. CASE TakeReady
  BY <1>1 DEF TakeReady
<1>2. CASE PassMutex
  BY <1>2 DEF PassMutex
<1>3. CASE Check
  BY <1>3 DEF Check, DropForUsb, Lose
<1>4. CASE Cancel
  <2>1. SetFlags({"CANCEL"})
    BY <1>4 DEF Cancel
  <2>2. /\ flags' \subseteq Answers \cup {"READY"}
        /\ spc' \in [Sender -> {"idle", "make", "clear", "mark", "ask", "get", "wait", "sent", "failed", "run"}]
    BY <2>1, FlagsAreSet DEF Answers
  <2> QED BY <1>4, <2>2 DEF Cancel
<1>5. CASE ConnectFails
  <2>1. errors' \in 0 .. 2
    BY <1>5 DEF ConnectFails, FewErrors
  <2>2. ok' \in BOOLEAN /\ busy' \in BOOLEAN /\ file' \subseteq File
    BY <1>5 DEF ConnectFails, ClearAll
  <2>3. fate' \in {"none", "sent", "lost", "dropped"}
    BY <1>5, LoseType DEF ConnectFails, ClearAll
  <2> QED BY <1>5, <2>1, <2>2, <2>3 DEF ConnectFails
<1>6. CASE SetupFails
  <2>1. errors' \in 0 .. 2
    BY <1>6 DEF SetupFails, FewErrors
  <2>2. ok' \in BOOLEAN
    BY <1>6 DEF SetupFails
  <2> QED BY <1>6, <2>1, <2>2 DEF SetupFails
<1>7. CASE NextCert
  BY <1>7 DEF NextCert
<1>8. CASE NoCert
  <2>1. gaveUp' \in 0 .. 2 /\ cert' \in 0 .. CertMax - 1
    BY <1>8 DEF NoCert
  <2>2. ok' \in BOOLEAN /\ busy' \in BOOLEAN /\ file' \subseteq File
    BY <1>8 DEF NoCert, ClearAll
  <2>3. fate' \in {"none", "sent", "lost", "dropped"}
    BY <1>8, LoseType DEF NoCert, ClearAll
  <2> QED BY <1>8, <2>1, <2>2, <2>3 DEF NoCert
<1>9. CASE Connect
  <2>1. ok' \in BOOLEAN /\ gaveUp' \in 0 .. 2
    BY <1>9 DEF Connect
  <2>2. file' \subseteq File
    BY <1>9, OrderType DEF Connect
  <2>3. budget' \in 0 .. Budget
    BY <1>9 DEF Connect
  <2> QED BY <1>9, <2>1, <2>2, <2>3 DEF Connect
<1>10. CASE SkipSettings
  <2>1. pc' \in {"scan", "report"} /\ pos' \in 1 .. 8
    BY <1>10, FoundIsLater, GoOnType DEF SkipSettings
  <2> QED BY <1>10, <2>1, OrderType DEF SkipSettings
<1>11. CASE StartPost
  <2>1. Found \in 1 .. 8
    BY <1>11, FoundIsLater DEF StartPost
  <2> QED BY <1>11, <2>1, OrderType DEF StartPost
<1>12. CASE EndScan
  <2>1. file' \subseteq File /\ pos' \in DOMAIN Order /\ pc' \in {"scan", "report"}
    <3>1. file' \subseteq file
      BY <1>12 DEF EndScan, DropForUsb
    <3>2. pos' = 1
      BY <1>12 DEF EndScan, Finish
    <3>3. pc' \in {"scan", "report"}
      BY <1>12 DEF EndScan, Finish
    <3> QED BY <3>1, <3>2, <3>3, OrderType
  <2>2. fate' \in {"none", "sent", "lost", "dropped"}
    BY <1>12 DEF EndScan, DropForUsb, Lose
  <2> QED BY <1>12, <2>1, <2>2 DEF EndScan
<1>13. CASE PostFails
  <2>1. /\ ok' \in BOOLEAN /\ busy' \in BOOLEAN /\ file' \subseteq File
        /\ pos' \in DOMAIN Order /\ doc' \in Text
    BY <1>13, OrderType, StartType DEF PostFails, Finish, NotTaken
  <2>2. fate' \in {"none", "sent", "lost", "dropped"}
    BY <1>13, LoseType DEF PostFails, NotTaken
  <2>3. errors' \in 0 .. 2
    BY <1>13 DEF PostFails, FewErrors
  <2> QED BY <1>13, <2>1, <2>2, <2>3 DEF PostFails, Finish
<1>14. CASE PostRefused
  <2>1. /\ ok' \in BOOLEAN /\ busy' \in BOOLEAN /\ file' \subseteq File
        /\ pos' \in DOMAIN Order /\ doc' \in Text
    BY <1>14, OrderType, StartType DEF PostRefused, Finish, NotTaken
  <2>2. fate' \in {"none", "sent", "lost", "dropped"}
    BY <1>14, LoseType DEF PostRefused, NotTaken
  <2> QED BY <1>14, <2>1, <2>2 DEF PostRefused, Finish
<1>15. CASE PostWantsSettings
  <2>1. /\ ok' \in BOOLEAN /\ busy' \in BOOLEAN /\ file' \subseteq File
        /\ pos' \in DOMAIN Order /\ doc' \in Text /\ flags' \subseteq Answers \cup {"READY"}
    BY <1>15, OrderType, StartType DEF PostWantsSettings, Finish
  <2>2. fate' \in {"none", "sent", "lost", "dropped"}
    BY <1>15, LoseType DEF PostWantsSettings
  <2>3. budget' \in 0 .. Budget
    BY <1>15 DEF PostWantsSettings
  <2> QED BY <1>15, <2>1, <2>2, <2>3 DEF PostWantsSettings, Finish
<1>16. CASE PostTaken
  <2>1. pc' \in {"scan", "report"} /\ pos' \in 1 .. 8
    BY <1>16, GoOnType, OrderType DEF PostTaken
  <2>2. PICK next \in 0 .. 2, more \in BOOLEAN :
          /\ (next # 0 \/ more) => budget > 0
          /\ budget' = IF next # 0 \/ more THEN budget - 1 ELSE budget
          /\ file' \subseteq file \cup Wanted(Order[pos], next)
          /\ flags' = IF Wanted(Order[pos], next) = {} THEN flags ELSE flags \cup {"READY"}
          /\ busy' = (busy /\ Order[pos] # "A")
          /\ fate' \in {"sent", "lost", fate}
    BY <1>16 DEF PostTaken, Lose
  <2>3. Wanted(Order[pos], next) \subseteq {"R", "C"}
    BY DEF Wanted
  <2>4. file' \subseteq File
    BY <2>2, <2>3, OrderType
  <2> QED BY <1>16, <2>1, <2>2, <2>4, OrderType DEF PostTaken, NoText, Text, Sender, Reports
<1>17. CASE TakeCommand
  <2>1. \/ TakeNone /\ budget' = budget
        \/ TakeAll /\ budget' = budget
        \/ TakeRead /\ budget' = budget
        \/ TakeOther /\ budget' = budget
    BY <1>17 DEF TakeCommand
  <2>2. pc' \in {"scan", "report", "hand"} /\ pos' \in 1 .. 8
    BY <1>17, <2>1, GoOnType, OrderType DEF TakeCommand, TakeNone, TakeAll, TakeRead, TakeOther
  <2>3. /\ file' \subseteq File /\ flags' \subseteq Answers \cup {"READY"} /\ busy' \in BOOLEAN
    BY <2>1, OrderType DEF TakeNone, TakeAll, TakeRead, TakeOther
  <2> QED BY <1>17, <2>1, <2>2, <2>3, OrderType DEF TakeCommand
<1>18. CASE HandOver
  <2>1. pc' \in {"scan", "report"} /\ pos' \in 1 .. 8
    BY <1>18, GoOnType, OrderType DEF HandOver
  <2>2. spc' \in [Sender -> {"idle", "make", "clear", "mark", "ask", "get", "wait", "sent", "failed", "run"}]
    BY <1>18 DEF HandOver
  <2>3. order' \in {"none", "put", "test"} /\ file' \subseteq File
    BY <1>18 DEF HandOver
  <2> QED BY <1>18, <2>1, <2>2, <2>3, OrderType DEF HandOver
<1>19. CASE Report
  <2>1. /\ flags' \subseteq Answers \cup {"READY"}
        /\ spc' \in [Sender -> {"idle", "make", "clear", "mark", "ask", "get", "wait", "sent", "failed", "run"}]
    <3>1. CASE UNCHANGED <<spc, flags>>
      BY <3>1
    <3>2. CASE SetFlags({"SUCCESS"})
      BY <3>2, FlagsAreSet DEF Answers
    <3>3. CASE SetFlags({"ERROR"})
      BY <3>3, FlagsAreSet DEF Answers
    <3> QED BY <1>19, <3>1, <3>2, <3>3 DEF Report
  <2> QED BY <1>19, <2>1 DEF Report, DropForUsb, Lose
<1>20. CASE Errors
  <2>1. /\ flags' \subseteq Answers \cup {"READY"}
        /\ spc' \in [Sender -> {"idle", "make", "clear", "mark", "ask", "get", "wait", "sent", "failed", "run"}]
    <3>1. CASE UNCHANGED <<spc, flags>>
      BY <3>1
    <3>2. CASE SetFlags({"ERROR"})
      BY <3>2, FlagsAreSet DEF Answers
    <3> QED BY <1>20, <3>1, <3>2 DEF Errors
  <2>2. asleep' \in BOOLEAN /\ link' \in BOOLEAN /\ netReboot' \in BOOLEAN
    BY <1>20 DEF Errors
  <2>3. errors' \in 0 .. 2
    BY <1>20 DEF Errors
  <2> QED BY <1>20, <2>1, <2>2, <2>3 DEF Errors
<1>21. CASE Wifi
  <2>1. /\ flags' \subseteq Answers \cup {"READY"}
        /\ spc' \in [Sender -> {"idle", "make", "clear", "mark", "ask", "get", "wait", "sent", "failed", "run"}]
    <3>1. CASE UNCHANGED <<spc, flags>>
      BY <3>1
    <3>2. CASE SetFlags({"ERROR"})
      BY <3>2, FlagsAreSet DEF Answers
    <3> QED BY <1>21, <3>1, <3>2 DEF Wifi
  <2>2. asleep' \in BOOLEAN /\ link' \in BOOLEAN /\ wifiDown' \in BOOLEAN
    BY <1>21 DEF Wifi
  <2> QED BY <1>21, <2>1, <2>2 DEF Wifi
<1> QED BY <1>1, <1>2, <1>3, <1>4, <1>5, <1>6, <1>7, <1>8, <1>9, <1>10, <1>11, <1>12, <1>13, <1>14, <1>15, <1>16, <1>17, <1>18, <1>19, <1>20, <1>21 DEF http_thread_entry

LEMMA SendersType ==
    TypeOK /\ (AutoCreate \/ auto_thread_entry \/ CmdTest \/ cmd_thread_entry) => TypeOK'
<1> SUFFICES ASSUME TypeOK, AutoCreate \/ auto_thread_entry \/ CmdTest \/ cmd_thread_entry PROVE TypeOK'
  OBVIOUS
<1> USE HttpAssumption DEF TypeOK, AutoGo, outside, session, certs, text, senders, network, history
<1>1. CASE AutoCreate
  <2>0. PICK k \in AutoKinds : kind' = [kind EXCEPT !["auto"] = k] /\ Write("auto", k, FALSE)
    BY <1>1 DEF AutoCreate
  <2>1. spc' \in [Sender -> {"idle", "make", "clear", "mark", "ask", "get", "wait", "sent", "failed", "run"}]
    BY <1>1 DEF AutoCreate
  <2>2. xml' \in Text /\ doc' \in Text
    BY <1>1, <2>0, WriteType DEF Sender, Reports
  <2>3. kind' \in [Sender -> Reports]
    BY <1>1, <2>0 DEF Reports
  <2>4. crossed' \in BOOLEAN /\ budget' \in 0 .. Budget
    BY <1>1 DEF AutoCreate, Meets
  <2> QED BY <1>1, <2>1, <2>2, <2>3, <2>4 DEF AutoCreate
<1>2. CASE AutoMake
  <2>1. spc' \in [Sender -> {"idle", "make", "clear", "mark", "ask", "get", "wait", "sent", "failed", "run"}]
    BY <1>2 DEF AutoMake
  <2>2. kind["auto"] \in Reports
    BY <1>2 DEF Sender
  <2>3. (xml.by = "auto") \in BOOLEAN
    BY <1>2
  <2>4. xml' \in Text /\ doc' \in Text
    BY <1>2, <2>2, <2>3, WriteType DEF AutoMake, Sender
  <2> QED BY <1>2, <2>1, <2>2, <2>3, <2>4 DEF AutoMake
<1>3. CASE AutoClear
  <2>1. spc' \in [Sender -> {"idle", "make", "clear", "mark", "ask", "get", "wait", "sent", "failed", "run"}]
    BY <1>3 DEF AutoClear
  <2> QED BY <1>3, <2>1 DEF AutoClear
<1>4. CASE AutoMark
  <2>1. spc' \in [Sender -> {"idle", "make", "clear", "mark", "ask", "get", "wait", "sent", "failed", "run"}]
    BY <1>4 DEF AutoMark
  <2>2. file' \subseteq File
    BY <1>4, OrderType DEF AutoMark, Marks, Reports, Sender
  <2> QED BY <1>4, <2>1, <2>2 DEF AutoMark
<1>5. CASE AutoAsk
  <2>1. spc' \in [Sender -> {"idle", "make", "clear", "mark", "ask", "get", "wait", "sent", "failed", "run"}]
    BY <1>5 DEF AutoAsk
  <2>2. flags' \subseteq Answers \cup {"READY"}
    BY <1>5 DEF AutoAsk
  <2> QED BY <1>5, <2>1, <2>2 DEF AutoAsk
<1>6. CASE AutoGet
  <2>1. spc' \in [Sender -> {"idle", "make", "clear", "mark", "ask", "get", "wait", "sent", "failed", "run"}]
    BY <1>6 DEF AutoGet, Taken
  <2>2. flags' \subseteq Answers \cup {"READY"}
    BY <1>6 DEF AutoGet
  <2> QED BY <1>6, <2>1, <2>2 DEF AutoGet
<1>7. CASE AutoEnd
  <2>1. spc' \in [Sender -> {"idle", "make", "clear", "mark", "ask", "get", "wait", "sent", "failed", "run"}]
    BY <1>7 DEF AutoEnd
  <2>2. kind' \in [Sender -> Reports]
    BY <1>7 DEF AutoEnd, Reports
  <2> QED BY <1>7, <2>1, <2>2 DEF AutoEnd
<1>8. ASSUME NEW place \in {"idle", "failed"}, Test(place), UNCHANGED <<outside, busy, session, certs, kind, order, network, fate>>,
             budget' \in 0 .. Budget
      PROVE  TypeOK'
  <2>1. xml' \in Text /\ doc' \in Text
    BY <1>8, WriteType DEF Test, Sender, Reports
  <2>2. spc' \in [Sender -> {"idle", "make", "clear", "mark", "ask", "get", "wait", "sent", "failed", "run"}]
    BY <1>8 DEF Test
  <2>3. file' \subseteq File /\ flags' \subseteq Answers \cup {"READY"} /\ crossed' \in BOOLEAN
    BY <1>8, OrderType DEF Test, Meets
  <2> QED BY <1>8, <2>1, <2>2, <2>3
<1>9. CASE CmdTest
  BY <1>8, <1>9 DEF CmdTest
<1>10. CASE CmdTestForServer
  BY <1>8, <1>10 DEF CmdTestForServer
<1>11. CASE CmdEnd
  <2>1. spc' \in [Sender -> {"idle", "make", "clear", "mark", "ask", "get", "wait", "sent", "failed", "run"}]
    BY <1>11 DEF CmdEnd
  <2>2. file' \subseteq File /\ flags' \subseteq Answers \cup {"READY"}
    BY <1>11, OrderType DEF CmdEnd
  <2> QED BY <1>11, <2>1, <2>2 DEF CmdEnd
<1> QED BY <1>1, <1>2, <1>3, <1>4, <1>5, <1>6, <1>7, <1>9, <1>10, <1>11 DEF auto_thread_entry, cmd_thread_entry

LEMMA NetworkType == TypeOK /\ network_thread_entry => TypeOK'
<1> SUFFICES ASSUME TypeOK, network_thread_entry PROVE TypeOK'
  OBVIOUS
<1> USE DEF TypeOK, outside, session, certs, text, senders, network, history
<1>1. CASE NetStep
  <2>1. net' \in {"up", "look", "suspend", "decide", "down", "release"}
    BY <1>1 DEF NetStep, LinkDown, LookAtHttp
  <2>2. link' \in BOOLEAN
    BY <1>1 DEF NetStep, LinkDown, LookAtHttp
  <2> QED BY <1>1, <2>1, <2>2 DEF NetStep
<1>2. CASE SuspendHttp
  BY <1>2 DEF SuspendHttp
<1>3. CASE GiveUpHttp
  BY <1>3, RebootType DEF GiveUpHttp
<1>4. CASE RebootForLink
  BY <1>4, RebootType DEF RebootForLink
<1>5. CASE StopNetwork
  <2>1. link' \in BOOLEAN
    BY <1>5 DEF StopNetwork
  <2> QED BY <1>5, <2>1 DEF StopNetwork
<1>6. CASE StartNetwork
  <2>1. netReboot' \in BOOLEAN /\ asleep' \in BOOLEAN
    BY <1>6 DEF StartNetwork, ForgetReboot
  <2> QED BY <1>6, <2>1 DEF StartNetwork
<1>7. CASE ReleaseMutex
  BY <1>7 DEF ReleaseMutex
<1> QED BY <1>1, <1>2, <1>3, <1>4, <1>5, <1>6, <1>7 DEF network_thread_entry

LEMMA EventType == TypeOK /\ Event => TypeOK'
<1> SUFFICES ASSUME TypeOK, Event PROVE TypeOK'
  OBVIOUS
<1> USE HttpAssumption, OrderType DEF TypeOK, Event, outside, session, certs, text, senders, network, history
<1>1. CASE RequestTimer
  <2>1. file' \subseteq File
    BY <1>1 DEF RequestTimer
  <2>2. flags' \subseteq Answers \cup {"READY"}
    BY <1>1 DEF RequestTimer
  <2> QED BY <1>1, <2>1, <2>2 DEF RequestTimer
<1>2. CASE RegistChanged
  BY <1>2 DEF RegistChanged
<1>3. CASE UsbChanged
  BY <1>3 DEF UsbChanged
<1>4. CASE LinkLost
  <2>1. link' \in BOOLEAN /\ wifiDown' \in BOOLEAN
    BY <1>4 DEF LinkLost
  <2> QED BY <1>4, <2>1 DEF LinkLost
<1>5. CASE ServerChanged
  BY <1>5 DEF ServerChanged
<1> QED BY <1>1, <1>2, <1>3, <1>4, <1>5
-----------------------------------------------------------------------------
(* The invariant.                                                          *)

\* A report that nobody was told of is that of the auto thread, which is about
\* to tell it; also while the HTTP thread cancels.
Told ==
    pc \in {"wait", "cancel"} /\ "READY" \notin flags /\ file \cap Reports # {}
        => spc["auto"] \in {"mark", "ask"}

\* A restart that the HTTP thread asked for finds it where it asked.
Restarts == netReboot => asleep /\ pc = "wifi"

\* A search that follows one without success begins at the first certificate.
Searching == gaveUp > 0 => cert <= shown

IInv ==
    /\ TypeOK /\ FewErrors /\ Told /\ Restarts /\ RestartFindsHttpIdle
    /\ Searching /\ TwoSearchesFind

LEMMA IInvInit == Init => IInv
<1> SUFFICES ASSUME Init PROVE IInv
  OBVIOUS
<1>1. TypeOK /\ FewErrors
  BY TypeInit DEF Init, FewErrors
<1>2. Told
  BY DEF Init, Told, Started, Reports
<1>3. Restarts /\ RestartFindsHttpIdle
  BY DEF Init, Restarts, RestartFindsHttpIdle, At
<1>4. Searching /\ TwoSearchesFind
  BY DEF Init, Searching, TwoSearchesFind
<1> QED BY <1>1, <1>2, <1>3, <1>4 DEF IInv

LEMMA IInvReboot == IInv /\ Reboot => IInv'
<1> SUFFICES ASSUME IInv, Reboot PROVE IInv'
  OBVIOUS
<1>1. TypeOK' /\ FewErrors'
  BY RebootType DEF Reboot, FewErrors, IInv
<1>2. Told'
  BY DEF Reboot, Told, Started, Reports
<1>3. Restarts' /\ RestartFindsHttpIdle'
  BY DEF Reboot, Restarts, RestartFindsHttpIdle
<1>4. Searching' /\ TwoSearchesFind'
  BY DEF Reboot, Searching, TwoSearchesFind
<1> QED BY <1>1, <1>2, <1>3, <1>4 DEF IInv

LEMMA HttpKeepsErrors == TypeOK /\ FewErrors /\ http_thread_entry => FewErrors'
<1> SUFFICES ASSUME TypeOK, FewErrors, http_thread_entry PROVE FewErrors'
  OBVIOUS
<1> USE DEF At, Go, session, FewErrors
<1>1. CASE TakeReady \/ PassMutex \/ Check \/ Cancel \/ NextCert \/ Wifi
  BY <1>1 DEF TakeReady, PassMutex, Check, Cancel, NextCert, Wifi
<1>2. CASE ConnectFails \/ SetupFails \/ NoCert \/ PostFails \/ PostRefused \/ PostWantsSettings
  BY <1>2 DEF ConnectFails, SetupFails, NoCert, PostFails, PostRefused, PostWantsSettings, Finish
<1>3. CASE Connect \/ SkipSettings \/ StartPost \/ EndScan \/ PostTaken \/ TakeCommand \/ HandOver
  <2>1. errors # 2 /\ errors' = errors
    BY <1>3 DEF Connect, SkipSettings, StartPost, EndScan, PostTaken, TakeCommand, HandOver
  <2> QED BY <2>1
<1>4. CASE Report
  BY <1>4 DEF Report
<1>5. CASE Errors
  BY <1>5 DEF Errors, TypeOK
<1> QED BY <1>1, <1>2, <1>3, <1>4, <1>5 DEF http_thread_entry

\* Only a cancellation leads the HTTP thread back to its wait.
LEMMA HttpKeepsTold == TypeOK /\ Told /\ http_thread_entry => Told'
<1> SUFFICES ASSUME TypeOK, Told, http_thread_entry PROVE Told'
  OBVIOUS
<1> USE DEF At, Go, Told
<1>1. CASE Cancel
  <2>1. SetFlags({"CANCEL"}) /\ file' = file /\ pc = "cancel" /\ pc' = "wait"
    BY <1>1 DEF Cancel
  <2>2. /\ "READY" \in flags' <=> "READY" \in flags
        /\ spc["auto"] \in {"mark", "ask"} => spc'["auto"] = spc["auto"]
    BY <2>1, FlagsAreSet DEF Answers, Sender
  <2> QED BY <2>1, <2>2
<1>2. CASE Check
  <2>1. pc' = "cancel" => file' \cap Reports = {}
    BY <1>2 DEF Check, DropForUsb, Something
  <2>2. pc' \in {"connect", "cancel"}
    BY <1>2 DEF Check
  <2> QED BY <2>1, <2>2
<1>3. CASE ~(Cancel \/ Check)
  <2>1. pc' \notin {"wait", "cancel"}
    <3>1. CASE TakeReady \/ PassMutex \/ ConnectFails \/ SetupFails \/ NextCert \/ NoCert \/ Connect
      BY <3>1 DEF TakeReady, PassMutex, ConnectFails, SetupFails, NextCert, NoCert, Connect, session
    <3>2. CASE SkipSettings \/ StartPost \/ EndScan \/ PostFails \/ PostRefused \/ PostWantsSettings
      BY <3>2 DEF SkipSettings, StartPost, EndScan, PostFails, PostRefused, PostWantsSettings, Finish, GoOn
    <3>3. CASE PostTaken \/ TakeCommand \/ HandOver
      BY <3>3 DEF PostTaken, TakeCommand, TakeNone, TakeAll, TakeRead, TakeOther, HandOver, GoOn, Finish
    <3>4. CASE Report \/ Errors \/ Wifi
      BY <3>4 DEF Report, Errors, Wifi
    <3> QED BY <1>3, <3>1, <3>2, <3>3, <3>4 DEF http_thread_entry
  <2> QED BY <2>1
<1> QED BY <1>1, <1>2, <1>3

\* The HTTP thread runs only while the network is not rebuilt.
LEMMA HttpKeepsRestarts ==
    TypeOK /\ Restarts /\ RestartFindsHttpIdle /\ http_thread_entry => Restarts' /\ RestartFindsHttpIdle'
<1> SUFFICES ASSUME TypeOK, Restarts, RestartFindsHttpIdle, http_thread_entry
             PROVE  Restarts' /\ RestartFindsHttpIdle'
  OBVIOUS
<1> USE DEF At, Go, Restarts, RestartFindsHttpIdle
<1>1. ~asleep /\ ~netReboot /\ net # "down"
  <2>1. ~asleep
    BY DEF http_thread_entry, TakeReady, PassMutex, Check, Cancel, ConnectFails, SetupFails, NextCert,
           NoCert, Connect, SkipSettings, StartPost, EndScan, PostFails, PostRefused, PostWantsSettings,
           PostTaken, TakeCommand, HandOver, Report, Errors, Wifi
  <2> QED BY <2>1 DEF TypeOK
<1>2. net' = net
  BY DEF http_thread_entry, TakeReady, PassMutex, Check, Cancel, ConnectFails, SetupFails, NextCert,
         NoCert, Connect, SkipSettings, StartPost, EndScan, PostFails, PostRefused, PostWantsSettings,
         PostTaken, TakeCommand, HandOver, Report, Errors, Wifi, network
<1>3. CASE Errors
  <2>1. pc' = "wifi" /\ (netReboot' = netReboot \/ (netReboot' = TRUE /\ asleep' = TRUE))
    BY <1>3 DEF Errors
  <2> QED BY <1>1, <1>2, <2>1
<1>4. CASE ~Errors
  <2>1. netReboot' = netReboot
    BY <1>4 DEF http_thread_entry, TakeReady, PassMutex, Check, Cancel, ConnectFails, SetupFails, NextCert,
         NoCert, Connect, SkipSettings, StartPost, EndScan, PostFails, PostRefused, PostWantsSettings,
         PostTaken, TakeCommand, HandOver, Report, Wifi, network
  <2> QED BY <1>1, <1>2, <2>1
<1> QED BY <1>3, <1>4

\* A search that begins at the first certificate passes the right one only
\* when the server shows none of them.
LEMMA HttpKeepsSearch ==
    TypeOK /\ Searching /\ TwoSearchesFind /\ http_thread_entry => Searching' /\ TwoSearchesFind'
<1> SUFFICES ASSUME TypeOK, Searching, TwoSearchesFind, http_thread_entry
             PROVE  Searching' /\ TwoSearchesFind'
  OBVIOUS
<1> USE DEF Searching, TwoSearchesFind
<1>0. shown' = shown
  BY DEF http_thread_entry, TakeReady, PassMutex, Check, Cancel, ConnectFails, SetupFails, NextCert,
         NoCert, Connect, SkipSettings, StartPost, EndScan, PostFails, PostRefused, PostWantsSettings,
         PostTaken, TakeCommand, HandOver, Report, Errors, Wifi, outside
<1>1. CASE NextCert
  <2>1. cert' = cert + 1 /\ gaveUp' = gaveUp /\ cert # shown
    BY <1>1 DEF NextCert
  <2> QED BY <1>0, <2>1 DEF TypeOK
<1>2. CASE NoCert
  <2>1. cert' = 0 /\ gaveUp' = (IF gaveUp < 2 THEN gaveUp + 1 ELSE 2) /\ cert # shown /\ cert + 1 = CertMax
    BY <1>2 DEF NoCert
  <2>2. Searching'
    BY <1>0, <2>1 DEF TypeOK
  <2>3. ASSUME gaveUp' = 2 PROVE shown = CertMax
    <3>1. gaveUp > 0
      BY <2>1, <2>3 DEF TypeOK
    <3>2. cert <= shown /\ cert # shown /\ cert + 1 = CertMax /\ shown <= CertMax
      BY <2>1, <3>1 DEF TypeOK
    <3> QED BY <3>2, HttpAssumption DEF TypeOK
  <2> QED BY <1>0, <2>2, <2>3
<1>3. CASE Connect
  <2>1. gaveUp' = 0
    BY <1>3 DEF Connect
  <2> QED BY <2>1
<1>4. CASE ~(NextCert \/ NoCert \/ Connect)
  <2>1. cert' = cert /\ gaveUp' = gaveUp
    BY <1>4 DEF http_thread_entry, TakeReady, PassMutex, Check, Cancel, ConnectFails, SetupFails,
         SkipSettings, StartPost, EndScan, PostFails, PostRefused, PostWantsSettings,
         PostTaken, TakeCommand, HandOver, Report, Errors, Wifi, certs
  <2> QED BY <1>0, <2>1
<1> QED BY <1>1, <1>2, <1>3, <1>4

LEMMA SendersKeep ==
    IInv /\ (AutoCreate \/ auto_thread_entry \/ CmdTest \/ cmd_thread_entry) => IInv'
<1> SUFFICES ASSUME IInv, AutoCreate \/ auto_thread_entry \/ CmdTest \/ cmd_thread_entry PROVE IInv'
  OBVIOUS
<1>0. TypeOK
  BY DEF IInv
<1>1. TypeOK'
  BY SendersType DEF IInv
<1>2. /\ pc' = pc /\ errors' = errors /\ asleep' = asleep /\ cert' = cert /\ gaveUp' = gaveUp
      /\ net' = net /\ netReboot' = netReboot /\ shown' = shown
  BY DEF AutoCreate, auto_thread_entry, AutoMake, AutoClear, AutoMark, AutoAsk, AutoGet, AutoEnd, CmdTest,
         cmd_thread_entry, CmdTestForServer, CmdEnd, outside, session, certs, network
<1>3. FewErrors' /\ Restarts' /\ RestartFindsHttpIdle' /\ Searching' /\ TwoSearchesFind'
  BY <1>2 DEF IInv, FewErrors, Restarts, RestartFindsHttpIdle, Searching, TwoSearchesFind
<1>4. Told'
  <2> USE <1>2 DEF Told, IInv, AutoAt, AutoGo
  <2>1. CASE AutoCreate \/ AutoMake \/ AutoEnd
    <3>1. file' = file /\ flags' = flags /\ spc["auto"] \notin {"mark", "ask"}
      BY <2>1 DEF AutoCreate, AutoMake, AutoEnd
    <3> QED BY <3>1
  <2>2. CASE AutoClear
    <3>1. spc'["auto"] = "mark"
      BY <2>2, <1>0 DEF AutoClear, TypeOK, Sender
    <3> QED BY <3>1
  <2>3. CASE AutoMark
    <3>1. spc'["auto"] = "ask"
      BY <2>3, <1>0 DEF AutoMark, TypeOK, Sender
    <3> QED BY <3>1
  <2>4. CASE AutoAsk
    BY <2>4 DEF AutoAsk
  <2>5. CASE AutoGet
    <3>1. file' = file /\ spc["auto"] = "get" /\ ("READY" \in flags' <=> "READY" \in flags)
      BY <2>5 DEF AutoGet, Answers
    <3> QED BY <3>1
  <2>6. CASE CmdTest \/ CmdTestForServer
    <3>1. "READY" \in flags' \/ (file' = file /\ flags' = flags)
      BY <2>6 DEF CmdTest, CmdTestForServer, Test
    <3>2. spc'["auto"] = spc["auto"]
      BY <2>6, <1>0 DEF CmdTest, CmdTestForServer, Test, TypeOK, Sender
    <3> QED BY <3>1, <3>2
  <2>7. CASE CmdEnd
    <3>1. "READY" \in flags' \/ (file' = file /\ flags' = flags)
      BY <2>7 DEF CmdEnd
    <3>2. spc'["auto"] = spc["auto"]
      BY <2>7, <1>0 DEF CmdEnd, TypeOK, Sender
    <3> QED BY <3>1, <3>2
  <2> QED BY <2>1, <2>2, <2>3, <2>4, <2>5, <2>6, <2>7 DEF auto_thread_entry, cmd_thread_entry
<1> QED BY <1>1, <1>3, <1>4 DEF IInv

LEMMA NetworkKeeps == IInv /\ network_thread_entry => IInv'
<1> SUFFICES ASSUME IInv, network_thread_entry PROVE IInv'
  OBVIOUS
<1>1. CASE GiveUpHttp \/ RebootForLink
  BY <1>1, IInvReboot DEF GiveUpHttp, RebootForLink
<1>2. CASE NetStep \/ SuspendHttp \/ StopNetwork \/ StartNetwork \/ ReleaseMutex
  <2>1. TypeOK'
    BY NetworkType DEF IInv
  <2>2. /\ pc' = pc /\ errors' = errors /\ cert' = cert /\ gaveUp' = gaveUp /\ shown' = shown
        /\ file' = file /\ flags' = flags /\ spc' = spc
    BY <1>2 DEF NetStep, SuspendHttp, StopNetwork, StartNetwork, ReleaseMutex, outside, session, certs, senders
  <2>3. FewErrors' /\ Told' /\ Searching' /\ TwoSearchesFind'
    BY <2>2 DEF IInv, FewErrors, Told, Searching, TwoSearchesFind
  <2>4. Restarts' /\ RestartFindsHttpIdle'
    <3> USE <2>2 DEF IInv, Restarts, RestartFindsHttpIdle, TypeOK
    <3>1. CASE NetStep
      <4>1. asleep' = asleep /\ netReboot' = netReboot /\ net' # "down"
        BY <3>1 DEF NetStep, LinkDown, LookAtHttp, session
      <4> QED BY <4>1
    <3>2. CASE SuspendHttp
      <4>1. asleep' = TRUE /\ netReboot' = netReboot /\ net' = "decide"
        BY <3>2 DEF SuspendHttp
      <4> QED BY <4>1
    <3>3. CASE StopNetwork
      <4>1. asleep' = asleep /\ netReboot' = netReboot /\ netReboot
        BY <3>3 DEF StopNetwork, session
      <4> QED BY <4>1
    <3>4. CASE StartNetwork
      <4>1. netReboot' = FALSE /\ net' = "release"
        BY <3>4 DEF StartNetwork, ForgetReboot
      <4> QED BY <4>1
    <3>5. CASE ReleaseMutex
      <4>1. asleep' = asleep /\ netReboot' = netReboot /\ net' = "up"
        BY <3>5 DEF ReleaseMutex, session
      <4> QED BY <4>1
    <3> QED BY <1>2, <3>1, <3>2, <3>3, <3>4, <3>5
  <2> QED BY <2>1, <2>3, <2>4 DEF IInv
<1> QED BY <1>1, <1>2 DEF network_thread_entry

LEMMA EventKeeps == IInv /\ Event => IInv'
<1> SUFFICES ASSUME IInv, Event PROVE IInv'
  OBVIOUS
<1>1. TypeOK'
  BY EventType DEF IInv
<1>2. /\ pc' = pc /\ errors' = errors /\ asleep' = asleep /\ cert' = cert /\ spc' = spc
      /\ net' = net /\ netReboot' = netReboot
  BY DEF Event, session, senders
<1>3. FewErrors' /\ Restarts' /\ RestartFindsHttpIdle'
  BY <1>2 DEF IInv, FewErrors, Restarts, RestartFindsHttpIdle
<1>4. Searching' /\ TwoSearchesFind'
  <2>1. gaveUp' = 0 \/ (gaveUp' = gaveUp /\ shown' = shown)
    BY DEF Event, RequestTimer, RegistChanged, UsbChanged, LinkLost, ServerChanged
  <2> QED BY <1>2, <2>1 DEF IInv, Searching, TwoSearchesFind
<1>5. Told'
  <2>1. file' \cap Reports \subseteq file
    BY DEF Event, RequestTimer, RegistChanged, UsbChanged, LinkLost, ServerChanged, Reports
  <2>2. "READY" \in flags => "READY" \in flags'
    BY DEF Event, RequestTimer, RegistChanged, UsbChanged, LinkLost, ServerChanged
  <2> QED BY <1>2, <2>1, <2>2 DEF IInv, Told
<1> QED BY <1>1, <1>3, <1>4, <1>5 DEF IInv

LEMMA IInvStep == IInv /\ [Next]_vars => IInv'
<1> SUFFICES ASSUME IInv, [Next]_vars PROVE IInv'
  OBVIOUS
<1>1. CASE http_thread_entry
  BY <1>1, HttpType, HttpKeepsErrors, HttpKeepsTold, HttpKeepsRestarts, HttpKeepsSearch DEF IInv
<1>2. CASE AutoCreate \/ auto_thread_entry \/ CmdTest \/ cmd_thread_entry
  BY <1>2, SendersKeep
<1>3. CASE network_thread_entry
  BY <1>3, NetworkKeeps
<1>4. CASE Event
  BY <1>4, EventKeeps
<1>5. CASE UNCHANGED vars
  <2>1. TypeOK'
    BY <1>5 DEF IInv, TypeOK, vars, outside, session, certs, text, senders, network, history
  <2>2. FewErrors' /\ Told' /\ Restarts' /\ RestartFindsHttpIdle' /\ Searching' /\ TwoSearchesFind'
    BY <1>5 DEF IInv, vars, outside, session, certs, text, senders, network, history,
                FewErrors, Told, Restarts, RestartFindsHttpIdle, Searching, TwoSearchesFind
  <2> QED BY <2>1, <2>2 DEF IInv
<1> QED BY <1>1, <1>2, <1>3, <1>4, <1>5 DEF Next

LEMMA IInvHolds == Spec => []IInv
<1>1. Init => IInv
  BY IInvInit
<1>2. IInv /\ [Next]_vars => IInv'
  BY IInvStep
<1> QED BY <1>1, <1>2, PTL DEF Spec

-----------------------------------------------------------------------------
\* The threads, flags and reports have values of their kinds, for any number of
\* certificates and of outside events.
THEOREM TypeCorrect == Spec => []TypeOK
<1>1. IInv => TypeOK
  BY DEF IInv
<1> QED BY <1>1, IInvHolds, PTL

\* No report is left lying by an HTTP thread that waits without being told: who
\* clears the event flags marks a report and tells of it next
\* (auto_thread_entry, http_thread_entry).
THEOREM NoReportIsForgotten == Spec => []NoReportForgotten
<1>1. IInv => NoReportForgotten
  BY DEF IInv, Told, NoReportForgotten, At
<1> QED BY <1>1, IInvHolds, PTL

\* The network is never stopped or initialised under an open session
\* (network_thread_entry against http_thread_entry).
THEOREM RestartIsSafe == Spec => []RestartFindsHttpIdle
<1>1. IInv => RestartFindsHttpIdle
  BY DEF IInv
<1> QED BY <1>1, IInvHolds, PTL

\* However many root certificates there are, the second search without success
\* in a row means that the server shows none of them (http_thread_entry).
THEOREM SecondSearchFinds == Spec => []TwoSearchesFind
<1>1. IInv => TwoSearchesFind
  BY DEF IInv
<1> QED BY <1>1, IInvHolds, PTL

-----------------------------------------------------------------------------
(* What becomes of the auto thread's report.                               *)

\* It has not been marked yet, or it is marked and not yet answered.
InTheMaking == spc["auto"] \in {"make", "clear", "mark"}
OnTheWay == spc["auto"] \in {"ask", "get", "wait"}

\* The file that is being sent is marked as long as it is.
PostIsMarked == pc = "post" => Order[pos] \in file

\* Two senders at once are two reports that met; the server commands only one.
MetWhenTwo == /\ spc["auto"] # "run"
              /\ spc["auto"] # "idle" /\ spc["cmd"] \notin {"idle", "run"} => crossed

\* Unless two reports met, the buffer belongs to the report that is marked or
\* about to be, and so does what is being sent.
OneText ==
    \/ crossed
    \/ /\ \A f \in file \cap Reports : xml.whole /\ xml.kind = f
       /\ pc = "post" /\ Order[pos] \in Reports => doc.whole /\ doc.kind = Order[pos]
       /\ InTheMaking => file \cap Reports = {} /\ xml.by = "auto"
       /\ spc["auto"] \in {"clear", "mark"} => xml.whole /\ xml.kind = kind["auto"]
       /\ OnTheWay => xml.by = "auto" /\ (pc = "post" /\ Order[pos] \in Reports => doc.by = "auto")

\* A report of whose end nothing is known is marked; of one that was lost the
\* auto thread has the error before it, or the HTTP thread has it to tell.
FateIsKnown ==
    /\ spc["auto"] = "idle" \/ InTheMaking => fate = "none"
    /\ OnTheWay /\ fate = "none" => kind["auto"] \in file
    /\ OnTheWay /\ fate = "lost" => \/ crossed \/ mode = 0
                                    \/ pc = "report" /\ ~ok
                                    \/ spc["auto"] # "wait" /\ "ERROR" \in flags

RInv == PostIsMarked /\ MetWhenTwo /\ OneText /\ FateIsKnown

LEMMA RInvInit == Init => RInv
<1> SUFFICES ASSUME Init PROVE RInv
  OBVIOUS
<1>1. pc = "wait" /\ spc["auto"] = "idle" /\ spc["cmd"] = "idle" /\ fate = "none" /\ file = {"C"}
  BY DEF Init, Started, Sender
<1> QED BY <1>1 DEF RInv, PostIsMarked, MetWhenTwo, OneText, FateIsKnown, InTheMaking, OnTheWay, Reports

LEMMA RInvReboot == Reboot => RInv'
<1> SUFFICES ASSUME Reboot PROVE RInv'
  OBVIOUS
<1>1. pc' = "wait" /\ spc'["auto"] = "idle" /\ spc'["cmd"] = "idle" /\ fate' = "none" /\ file' = {"C"}
  BY DEF Reboot, Started, Sender
<1> QED BY <1>1 DEF RInv, PostIsMarked, MetWhenTwo, OneText, FateIsKnown, InTheMaking, OnTheWay, Reports

-----------------------------------------------------------------------------
(* What the HTTP thread does to a report.                                  *)

\* An answer goes to the auto thread when it waits for one, mixed with what is
\* there already, and else stays: the command thread would take it only if it
\* waited too.
LEMMA AnswerReaches ==
    ASSUME TypeOK, MetWhenTwo, NEW new \in SUBSET Answers, new # {}, SetFlags(new)
    PROVE  /\ spc["auto"] = "wait" => spc'["auto"] = Taken((flags \cup new) \cap Answers)
           /\ spc["auto"] \in {"ask", "get"} =>
                spc'["auto"] = spc["auto"] /\ (crossed \/ flags' = flags \cup new)
<1>1. spc["auto"] = "wait" => spc'["auto"] = Taken((flags \cup new) \cap Answers)
  <2>1. (flags \cup new) \cap Answers # {}
    OBVIOUS
  <2> QED BY <2>1 DEF SetFlags, Sender
<1>2. ASSUME spc["auto"] \in {"ask", "get"}
      PROVE  spc'["auto"] = spc["auto"] /\ (crossed \/ flags' = flags \cup new)
  <2>1. spc'["auto"] = spc["auto"]
    BY <1>2 DEF SetFlags, Sender
  <2>2. CASE spc["cmd"] = "wait"
    BY <1>2, <2>1, <2>2 DEF MetWhenTwo
  <2>3. CASE spc["cmd"] # "wait"
    <3>1. {s \in Sender : spc[s] = "wait" /\ (flags \cup new) \cap Answers # {}} = {}
      BY <1>2, <2>3 DEF Sender
    <3> QED BY <2>1, <3>1 DEF SetFlags
  <2> QED BY <2>2, <2>3
<1> QED BY <1>1, <1>2

\* An error is never taken for a success, whatever comes with it.
LEMMA ErrorIsFailure ==
    ASSUME NEW answer, "ERROR" \in answer \/ "CANCEL" \in answer PROVE Taken(answer) = "failed"
  BY DEF Taken

\* Who is answered goes on, and the command thread begins a command; the other
\* places of the senders are theirs.
LEMMA HttpMovesSenders ==
    ASSUME TypeOK, http_thread_entry, NEW s \in Sender
    PROVE  \/ spc'[s] = spc[s]
           \/ spc[s] = "wait" /\ spc'[s] \in {"sent", "failed"}
           \/ s = "cmd" /\ spc[s] = "idle" /\ spc'[s] = "run"
<1>1. ASSUME NEW new, SetFlags(new) PROVE spc'[s] = spc[s] \/ (spc[s] = "wait" /\ spc'[s] \in {"sent", "failed"})
  BY <1>1 DEF SetFlags, Taken
<1>2. CASE Cancel \/ Report \/ Errors \/ Wifi
  BY <1>1, <1>2 DEF Cancel, Report, Errors, Wifi
<1>3. CASE HandOver
  BY <1>3 DEF HandOver, TypeOK, Sender
<1>4. CASE ~(Cancel \/ Report \/ Errors \/ Wifi \/ HandOver)
  BY <1>4 DEF http_thread_entry, TakeReady, PassMutex, Check, ConnectFails, SetupFails, NextCert,
         NoCert, Connect, SkipSettings, StartPost, EndScan, PostFails, PostRefused, PostWantsSettings,
         PostTaken, TakeCommand, senders
<1> QED BY <1>2, <1>3, <1>4

\* A report is begun, written and marked by the senders alone.
LEMMA HttpLeavesText ==
    ASSUME TypeOK, http_thread_entry
    PROVE  /\ xml' = xml /\ kind' = kind /\ crossed' = crossed /\ mode' = mode
           /\ file' \cap Reports \subseteq file
           /\ pc' = "post" => StartPost
<1>1. xml' = xml /\ kind' = kind /\ crossed' = crossed /\ mode' = mode
  BY DEF http_thread_entry, TakeReady, PassMutex, Check, Cancel, ConnectFails, SetupFails, NextCert,
         NoCert, Connect, SkipSettings, StartPost, EndScan, PostFails, PostRefused, PostWantsSettings,
         PostTaken, TakeCommand, HandOver, Report, Errors, Wifi, outside, text, senders, history
<1>2. file' \cap Reports \subseteq file
  <2>1. CASE TakeReady \/ PassMutex \/ Cancel \/ SetupFails \/ NextCert \/ SkipSettings \/ StartPost \/ Errors \/ Wifi
    BY <2>1 DEF TakeReady, PassMutex, Cancel, SetupFails, NextCert, SkipSettings, StartPost, Errors, Wifi
  <2>2. CASE Check \/ ConnectFails \/ NoCert \/ Connect \/ EndScan \/ Report
    BY <2>2 DEF Check, ConnectFails, NoCert, Connect, EndScan, Report, ClearAll, DropForUsb, Reports
  <2>3. CASE PostFails \/ PostRefused \/ PostWantsSettings \/ HandOver
    BY <2>3 DEF PostFails, PostRefused, PostWantsSettings, HandOver, NotTaken, Reports
  <2>4. CASE PostTaken
    <3>1. \A f, next : Wanted(f, next) \cap Reports = {}
      BY DEF Wanted, Reports
    <3> QED BY <2>4, <3>1 DEF PostTaken
  <2>5. CASE TakeCommand
    BY <2>5 DEF TakeCommand, TakeNone, TakeAll, TakeRead, TakeOther, Reports
  <2> QED BY <2>1, <2>2, <2>3, <2>4, <2>5 DEF http_thread_entry
<1>3. pc' = "post" => StartPost
  <2> USE DEF At, Go, Finish, GoOn
  <2>1. CASE TakeReady \/ PassMutex \/ Check \/ Cancel \/ ConnectFails \/ SetupFails \/ NextCert \/ NoCert \/ Connect
    BY <2>1 DEF TakeReady, PassMutex, Check, Cancel, ConnectFails, SetupFails, NextCert, NoCert, Connect, session
  <2>2. CASE SkipSettings \/ EndScan \/ PostFails \/ PostRefused \/ PostWantsSettings \/ PostTaken \/ HandOver
    BY <2>2 DEF SkipSettings, EndScan, PostFails, PostRefused, PostWantsSettings, PostTaken, HandOver
  <2>3. CASE TakeCommand
    BY <2>3 DEF TakeCommand, TakeNone, TakeAll, TakeRead, TakeOther
  <2>4. CASE Report \/ Errors \/ Wifi
    BY <2>4 DEF Report, Errors, Wifi
  <2> QED BY <2>1, <2>2, <2>3, <2>4 DEF http_thread_entry
<1> QED BY <1>1, <1>2, <1>3

\* What StartPost sends is the text in the buffer.
LEMMA StartPostText ==
    ASSUME TypeOK, StartPost
    PROVE  /\ file' = file /\ Order[pos'] \in file
           /\ Order[pos'] \in Reports => doc' = xml
<1>1. Found \in 1 .. 8 /\ Order[Found] \in file
  BY FoundIsLater DEF StartPost
<1>2. pos' = Found /\ file' = file /\ doc' = IF Order[Found] \in Reports THEN xml ELSE doc
  BY DEF StartPost
<1> QED BY <1>1, <1>2

\* The buffer, and the file that is sent, through a step of the HTTP thread.
LEMMA HttpKeepsText ==
    TypeOK /\ RInv /\ http_thread_entry => PostIsMarked' /\ MetWhenTwo' /\ OneText'
<1> SUFFICES ASSUME TypeOK, RInv, http_thread_entry PROVE PostIsMarked' /\ MetWhenTwo' /\ OneText'
  OBVIOUS
<1>1. /\ xml' = xml /\ kind' = kind /\ crossed' = crossed
      /\ file' \cap Reports \subseteq file
      /\ pc' = "post" => StartPost
  BY HttpLeavesText
<1>2. \A s \in Sender : \/ spc'[s] = spc[s]
                        \/ spc[s] = "wait" /\ spc'[s] \in {"sent", "failed"}
                        \/ s = "cmd" /\ spc[s] = "idle" /\ spc'[s] = "run"
  BY HttpMovesSenders
<1>3. /\ spc'["auto"] \in {"idle", "make", "clear", "mark", "ask", "get", "wait"} => spc'["auto"] = spc["auto"]
      /\ spc'["auto"] # "idle" => spc["auto"] # "idle"
      /\ spc'["auto"] # "run" \/ spc["auto"] = "run"
      /\ spc'["cmd"] \notin {"idle", "run"} => spc["cmd"] \notin {"idle", "run"}
  BY <1>2 DEF Sender
<1>4. PostIsMarked'
  BY <1>1, StartPostText DEF PostIsMarked
<1>5. MetWhenTwo'
  BY <1>1, <1>3 DEF RInv, MetWhenTwo
<1>6. CASE crossed
  BY <1>1, <1>4, <1>5, <1>6 DEF OneText
<1>7. CASE ~crossed
  <2>1. \A f \in file \cap Reports : xml.whole /\ xml.kind = f
    BY <1>7 DEF RInv, OneText
  <2>2. pc' = "post" /\ Order[pos'] \in Reports => doc' = xml /\ Order[pos'] \in file \cap Reports
    BY <1>1, StartPostText
  <2>3. InTheMaking' => InTheMaking /\ spc'["auto"] = spc["auto"]
    BY <1>3 DEF InTheMaking
  <2>4. OnTheWay' => OnTheWay
    BY <1>3 DEF OnTheWay
  <2>5. (\A f \in file \cap Reports : xml.whole /\ xml.kind = f)'
    BY <1>1, <2>1
  <2>6. (pc = "post" /\ Order[pos] \in Reports => doc.whole /\ doc.kind = Order[pos])'
    BY <2>1, <2>2
  <2>7. (InTheMaking => file \cap Reports = {} /\ xml.by = "auto")'
    BY <1>1, <1>7, <2>3 DEF RInv, OneText
  <2>8. (spc["auto"] \in {"clear", "mark"} => xml.whole /\ xml.kind = kind["auto"])'
    BY <1>1, <1>3, <1>7 DEF RInv, OneText
  <2>9. (OnTheWay => xml.by = "auto" /\ (pc = "post" /\ Order[pos] \in Reports => doc.by = "auto"))'
    BY <1>1, <1>7, <2>2, <2>4 DEF RInv, OneText
  <2> QED BY <1>4, <1>5, <2>5, <2>6, <2>7, <2>8, <2>9 DEF OneText
<1> QED BY <1>6, <1>7

\* History through a step that may lose a report: it is gone or as it was.
LEMMA LoseKnown ==
    ASSUME TypeOK, NEW set, NEW how, Lose(set, how)
    PROVE  \/ fate' = how /\ OnTheWay /\ fate = "none" /\ kind["auto"] \in set \cap file
           \/ fate' = fate /\ (OnTheWay /\ fate = "none" /\ kind["auto"] \in file => kind["auto"] \notin set)
  BY DEF Lose, OnTheWay

\* What a step of the HTTP thread can do to the auto thread's report: leave
\* it, drop it for USB, send it, or lose it and have an error to tell.
FateStep ==
    \/ fate' = fate /\ (OnTheWay /\ fate = "none" /\ kind["auto"] \in file => kind["auto"] \in file')
    \/ OnTheWay /\ fate' \in {"sent", "dropped"}
    \/ OnTheWay /\ fate' = "lost" /\ (crossed \/ (pc' = "report" /\ ok' = FALSE))

LEMMA DropIsFateStep == TypeOK /\ DropForUsb => FateStep
<1> SUFFICES ASSUME TypeOK, DropForUsb PROVE FateStep
  OBVIOUS
<1>1. CASE ForUsb
  <2>1. Lose(Reports, "dropped") /\ file' = file \ Reports
    BY <1>1 DEF DropForUsb
  <2> QED BY <2>1, LoseKnown DEF FateStep
<1>2. CASE ~ForUsb
  <2>1. Lose({}, "dropped") /\ file' = file
    BY <1>2 DEF DropForUsb
  <2> QED BY <2>1, LoseKnown DEF FateStep
<1> QED BY <1>1, <1>2

\* When a file is taken, it is the auto thread's report that is sent, or none.
LEMMA TakenIsSent == TypeOK /\ RInv /\ PostTaken => FateStep
<1> SUFFICES ASSUME TypeOK, RInv, PostTaken PROVE FateStep
  OBVIOUS
<1>0. pc = "post" /\ Order[pos] \in file
  BY DEF PostTaken, At, RInv, PostIsMarked
<1>1. PICK next \in 0 .. 2, more \in BOOLEAN :
        LET f    == Order[pos]
            on   == Wanted(f, next)
            off  == IF more \/ (f = "C" /\ "C" \in on) THEN {} ELSE Reset(f)
            sent == doc.whole /\ doc.kind = f
        IN  /\ file' = (file \cup on) \ off
            /\ Lose(off, IF sent /\ doc.by = "auto" THEN "sent" ELSE "lost")
  BY DEF PostTaken
<1> DEFINE off == IF more \/ (Order[pos] = "C" /\ "C" \in Wanted(Order[pos], next)) THEN {} ELSE Reset(Order[pos])
           how == IF (doc.whole /\ doc.kind = Order[pos]) /\ doc.by = "auto" THEN "sent" ELSE "lost"
<1>2. file' = (file \cup Wanted(Order[pos], next)) \ off /\ Lose(off, how)
  BY <1>1
<1>3. off \subseteq Reset(Order[pos])
  OBVIOUS
<1>4. how \in {"sent", "lost"} /\ (OnTheWay /\ Order[pos] \in Reports /\ ~crossed => how = "sent")
  BY <1>0 DEF RInv, OneText
<1> HIDE DEF off, how
<1>5. kind["auto"] \in Reports
  BY DEF TypeOK, Sender
<1>6. kind["auto"] \in off => Order[pos] \in Reports
  BY <1>3, <1>5 DEF Reset
<1> QED BY <1>2, <1>4, <1>6, LoseKnown DEF FateStep

LEMMA HttpIsFateStep == TypeOK /\ RInv /\ http_thread_entry => FateStep
<1> SUFFICES ASSUME TypeOK, RInv, http_thread_entry PROVE FateStep
  OBVIOUS
<1> USE DEF Finish, Go
<1>0. kind["auto"] \in Reports
  BY DEF TypeOK, Sender
<1>1. CASE TakeReady \/ PassMutex \/ Cancel \/ SetupFails \/ NextCert \/ SkipSettings \/ StartPost \/ Errors \/ Wifi
  BY <1>1 DEF TakeReady, PassMutex, Cancel, SetupFails, NextCert, SkipSettings, StartPost, Errors, Wifi, history, FateStep
<1>2. CASE Connect
  BY <1>2 DEF Connect, history, FateStep
<1>3. CASE Check
  BY <1>3, DropIsFateStep DEF Check
<1>4. CASE ConnectFails \/ NoCert
  <2>1. Lose(Reports, "lost") /\ pc' = "report" /\ ok' = FALSE
    BY <1>4 DEF ConnectFails, NoCert, ClearAll
  <2> QED BY <1>0, <2>1, LoseKnown DEF FateStep
<1>5. CASE EndScan
  <2>1. UNCHANGED <<file, fate>> \/ DropForUsb
    BY <1>5 DEF EndScan
  <2> QED BY <2>1, DropIsFateStep DEF FateStep
<1>6. CASE PostFails \/ PostRefused
  <2>1. /\ Lose(Reset(Order[pos]), "lost") /\ file' = file \ Reset(Order[pos])
        /\ pc' = "report" /\ ok' = FALSE
    BY <1>6 DEF PostFails, PostRefused, NotTaken
  <2> QED BY <2>1, LoseKnown DEF FateStep
<1>7. CASE PostWantsSettings
  <2>1. /\ Lose(Reset(Order[pos]), "lost") /\ file' = (file \ Reset(Order[pos])) \cup {"C"}
        /\ pc' = "report" /\ ok' = FALSE
    BY <1>7 DEF PostWantsSettings
  <2> QED BY <2>1, LoseKnown DEF FateStep
<1>8. CASE PostTaken
  BY <1>8, TakenIsSent
<1>9. CASE TakeCommand \/ HandOver
  <2>1. fate' = fate /\ (file' = file \/ \E a : file' = (file \ {"R"}) \cup a)
    BY <1>9 DEF TakeCommand, TakeNone, TakeAll, TakeRead, TakeOther, HandOver, history
  <2>2. kind["auto"] # "R"
    BY <1>0 DEF Reports
  <2> QED BY <2>1, <2>2 DEF FateStep
<1>10. CASE Report
  <2>1. DropForUsb \/ UNCHANGED <<file, fate>>
    BY <1>10 DEF Report
  <2> QED BY <2>1, DropIsFateStep DEF FateStep
<1> QED BY <1>1, <1>2, <1>3, <1>4, <1>5, <1>6, <1>7, <1>8, <1>9, <1>10 DEF http_thread_entry

\* Where an error of a lost report is known, it goes on to the auto thread.
LEMMA ErrorIsTold ==
    ASSUME TypeOK, RInv, http_thread_entry, OnTheWay', fate = "lost", ~crossed, mode # 0
    PROVE  (pc' = "report" /\ ~ok') \/ (spc'["auto"] # "wait" /\ "ERROR" \in flags')
<1>0. OnTheWay /\ spc'["auto"] = spc["auto"]
  BY HttpMovesSenders DEF OnTheWay, Sender
<1>1. (pc = "report" /\ ~ok) \/ (spc["auto"] # "wait" /\ "ERROR" \in flags)
  BY <1>0 DEF RInv, FateIsKnown
<1>2. MetWhenTwo
  BY DEF RInv
<1>3. CASE pc = "report" /\ ~ok
  <2>1. Report
    BY <1>3 DEF http_thread_entry, At, TakeReady, PassMutex, Check, Cancel, ConnectFails, SetupFails, NextCert,
         NoCert, Connect, SkipSettings, StartPost, EndScan, PostFails, PostRefused, PostWantsSettings,
         PostTaken, TakeCommand, HandOver, Errors, Wifi
  <2>2. SetFlags({"ERROR"})
    BY <1>3, <2>1 DEF Report
  <2>3. spc["auto"] # "wait"
    <3>1. "ERROR" \in (flags \cup {"ERROR"}) \cap Answers
      BY DEF Answers
    <3>2. spc["auto"] = "wait" => spc'["auto"] = "failed"
      BY <1>2, <2>2, <3>1, AnswerReaches, ErrorIsFailure DEF Answers
    <3> QED BY <1>0, <3>2
  <2>4. spc["auto"] \in {"ask", "get"}
    BY <1>0, <2>3 DEF OnTheWay
  <2>5. flags' = flags \cup {"ERROR"}
    BY <1>2, <2>2, <2>4, AnswerReaches DEF Answers
  <2> QED BY <1>0, <2>3, <2>5
<1>4. CASE spc["auto"] # "wait" /\ "ERROR" \in flags
  <2>0. spc["auto"] \in {"ask", "get"}
    BY <1>0, <1>4 DEF OnTheWay
  <2>1. ASSUME NEW new \in SUBSET Answers, new # {}, SetFlags(new) PROVE "ERROR" \in flags'
    BY <1>2, <1>4, <2>0, <2>1, AnswerReaches
  <2>2. \/ UNCHANGED flags \/ flags' = flags \ {"READY"} \/ flags' = flags \cup {"READY"}
        \/ SetFlags({"CANCEL"}) \/ SetFlags({"ERROR"}) \/ SetFlags({"SUCCESS"})
    <3>1. CASE TakeReady \/ PassMutex \/ Check \/ Cancel \/ ConnectFails \/ SetupFails \/ NextCert \/ NoCert
      BY <3>1 DEF TakeReady, PassMutex, Check, Cancel, ConnectFails, SetupFails, NextCert, NoCert
    <3>2. CASE Connect \/ SkipSettings \/ StartPost \/ EndScan \/ PostFails \/ PostRefused \/ PostWantsSettings
      BY <3>2 DEF Connect, SkipSettings, StartPost, EndScan, PostFails, PostRefused, PostWantsSettings
    <3>3. CASE PostTaken \/ HandOver
      BY <3>3 DEF PostTaken, HandOver
    <3>4. CASE TakeCommand
      BY <3>4 DEF TakeCommand, TakeNone, TakeAll, TakeRead, TakeOther
    <3>5. CASE Report \/ Errors \/ Wifi
      BY <3>5 DEF Report, Errors, Wifi
    <3> QED BY <3>1, <3>2, <3>3, <3>4, <3>5 DEF http_thread_entry
  <2>3. "ERROR" \in flags'
    BY <1>4, <2>1, <2>2 DEF Answers
  <2> QED BY <1>0, <1>4, <2>3
<1> QED BY <1>1, <1>3, <1>4

LEMMA HttpKeepsFate == TypeOK /\ RInv /\ http_thread_entry => FateIsKnown'
<1> SUFFICES ASSUME TypeOK, RInv, http_thread_entry PROVE FateIsKnown'
  OBVIOUS
<1>1. FateStep
  BY HttpIsFateStep
<1>2. kind' = kind /\ crossed' = crossed /\ mode' = mode
  BY HttpLeavesText
<1>3. /\ spc'["auto"] \in {"idle", "make", "clear", "mark", "ask", "get", "wait"} => spc'["auto"] = spc["auto"]
  BY HttpMovesSenders DEF Sender
<1>4. spc'["auto"] = "idle" \/ InTheMaking' => ~OnTheWay /\ (spc["auto"] = "idle" \/ InTheMaking)
  BY <1>3 DEF InTheMaking, OnTheWay
<1>5. OnTheWay' => OnTheWay
  BY <1>3 DEF OnTheWay
<1>6. spc'["auto"] = "idle" \/ InTheMaking' => fate' = "none"
  BY <1>1, <1>4 DEF FateStep, RInv, FateIsKnown
<1>7. OnTheWay' /\ fate' = "none" => kind'["auto"] \in file'
  BY <1>1, <1>2, <1>5 DEF FateStep, RInv, FateIsKnown
<1>8. ASSUME OnTheWay', fate' = "lost", ~crossed, mode # 0
      PROVE  (pc' = "report" /\ ~ok') \/ (spc'["auto"] # "wait" /\ "ERROR" \in flags')
  <2>1. fate = "lost" \/ (pc' = "report" /\ ok' = FALSE)
    BY <1>1, <1>8 DEF FateStep
  <2> QED BY <1>8, <2>1, ErrorIsTold
<1> QED BY <1>2, <1>6, <1>7, <1>8 DEF FateIsKnown

-----------------------------------------------------------------------------
(* What the senders and the rest of the unit do to a report.               *)

\* The command thread's test of the alarm report meets the auto thread's
\* report, or finds neither it nor an older one.
LEMMA TestKeepsReports ==
    ASSUME TypeOK, RInv, spc["cmd"] \in {"idle", "run"},
           NEW place \in {"idle", "failed"}, Test(place),
           UNCHANGED <<mode, pc, pos, ok, kind, fate>>
    PROVE  RInv'
<1>1. spc'["auto"] = spc["auto"] /\ (NetworkMutex => spc'["cmd"] = place)
  BY DEF Test, TypeOK, Sender
<1>2. CASE Meets("cmd")
  <2>1. crossed' = TRUE /\ file \subseteq file'
    BY <1>2 DEF Test
  <2> QED BY <1>1, <2>1 DEF RInv, PostIsMarked, MetWhenTwo, OneText, FateIsKnown, InTheMaking, OnTheWay
<1>3. CASE ~Meets("cmd")
  <2>1. file \cap Reports = {} /\ spc["auto"] = "idle"
    BY <1>3 DEF Meets, Sender, RInv, MetWhenTwo, TypeOK
  <2>2. PostIsMarked' /\ MetWhenTwo' /\ FateIsKnown'
    <3>1. file \subseteq file'
      BY DEF Test
    <3> QED BY <1>1, <2>1, <3>1 DEF RInv, PostIsMarked, MetWhenTwo, FateIsKnown, InTheMaking, OnTheWay
  <2>3. OneText'
    <3>1. pc = "post" => Order[pos] \notin Reports
      BY <2>1 DEF RInv, PostIsMarked
    <3>2. \A f \in file' \cap Reports : xml'.whole /\ xml'.kind = f
      BY <2>1 DEF Test, Write
    <3> QED BY <1>1, <2>1, <3>1, <3>2 DEF OneText, InTheMaking, OnTheWay
  <2> QED BY <2>2, <2>3 DEF RInv
<1> QED BY <1>2, <1>3

LEMMA SendersKeepReports ==
    TypeOK /\ RInv /\ (AutoCreate \/ auto_thread_entry \/ CmdTest \/ cmd_thread_entry) => RInv'
<1> SUFFICES ASSUME TypeOK, RInv, AutoCreate \/ auto_thread_entry \/ CmdTest \/ cmd_thread_entry PROVE RInv'
  OBVIOUS
<1> USE DEF outside, session, text, senders, history, AutoAt, AutoGo, InTheMaking, OnTheWay
<1>0. PostIsMarked /\ MetWhenTwo /\ OneText /\ FateIsKnown /\ kind["auto"] \in Reports
  BY DEF RInv, TypeOK, Sender
<1>s. ASSUME NEW place, spc' = [spc EXCEPT !["auto"] = place]
      PROVE  spc'["auto"] = place /\ spc'["cmd"] = spc["cmd"]
  BY <1>s DEF TypeOK, Sender
<1>1. CASE AutoCreate
  <2>1. /\ spc'["auto"] = "make" /\ spc'["cmd"] = spc["cmd"] /\ spc["auto"] = "idle" /\ file' = file
        /\ fate' = fate /\ pc' = pc /\ pos' = pos /\ crossed' = Meets("auto") /\ xml'.by = "auto"
    <3>1. PICK k \in AutoKinds : Write("auto", k, FALSE)
      BY <1>1 DEF AutoCreate
    <3>2. xml'.by = "auto"
      BY <3>1 DEF Write
    <3> QED BY <1>1, <1>s, <3>2 DEF AutoCreate
  <2>2. PostIsMarked' /\ FateIsKnown'
    BY <1>0, <2>1 DEF PostIsMarked, FateIsKnown
  <2>3. MetWhenTwo'
    BY <2>1 DEF MetWhenTwo, Meets, Sender
  <2>4. CASE Meets("auto")
    BY <2>1, <2>2, <2>3, <2>4 DEF RInv, OneText
  <2>5. CASE ~Meets("auto")
    <3>1. file \cap Reports = {} /\ (pc = "post" => Order[pos] \notin Reports)
      BY <1>0, <2>5 DEF Meets, PostIsMarked
    <3> QED BY <2>1, <2>2, <2>3, <3>1 DEF RInv, OneText
  <2> QED BY <2>4, <2>5
<1>2. CASE AutoMake
  <2>1. /\ spc'["auto"] = "clear" /\ spc'["cmd"] = spc["cmd"] /\ spc["auto"] = "make" /\ file' = file
        /\ fate' = fate /\ pc' = pc /\ pos' = pos /\ crossed' = crossed /\ kind' = kind
        /\ xml' = [by |-> "auto", kind |-> kind["auto"], whole |-> (xml.by = "auto")]
    BY <1>2, <1>s DEF AutoMake, Write
  <2>2. PostIsMarked' /\ FateIsKnown' /\ MetWhenTwo'
    BY <1>0, <2>1 DEF PostIsMarked, FateIsKnown, MetWhenTwo
  <2>3. crossed \/ (file \cap Reports = {} /\ xml.by = "auto" /\ (pc = "post" => Order[pos] \notin Reports))
    BY <1>0, <2>1 DEF OneText, PostIsMarked
  <2> QED BY <2>1, <2>2, <2>3 DEF RInv, OneText
<1>3. CASE AutoClear
  <2>1. /\ spc'["auto"] = "mark" /\ spc'["cmd"] = spc["cmd"] /\ spc["auto"] = "clear"
    BY <1>3, <1>s DEF AutoClear
  <2> QED BY <1>0, <1>3, <2>1 DEF AutoClear, RInv, PostIsMarked, MetWhenTwo, OneText, FateIsKnown
<1>4. CASE AutoMark
  <2>1. /\ spc'["auto"] = "ask" /\ spc'["cmd"] = spc["cmd"] /\ spc["auto"] = "mark"
        /\ fate' = fate /\ pc' = pc /\ pos' = pos /\ crossed' = crossed /\ kind' = kind
        /\ xml' = xml /\ doc' = doc /\ file' = file \cup Marks(kind["auto"])
    BY <1>4, <1>s DEF AutoMark
  <2>2. Marks(kind["auto"]) \cap Reports = {kind["auto"]}
    BY <1>0 DEF Marks, Reports
  <2>3. PostIsMarked' /\ FateIsKnown' /\ MetWhenTwo'
    BY <1>0, <2>1, <2>2 DEF PostIsMarked, FateIsKnown, MetWhenTwo
  <2>4. OneText'
    BY <1>0, <2>1, <2>2 DEF OneText, PostIsMarked
  <2> QED BY <2>3, <2>4 DEF RInv
<1>5. CASE AutoAsk
  <2>1. /\ spc'["auto"] = "get" /\ spc'["cmd"] = spc["cmd"] /\ spc["auto"] = "ask"
    BY <1>5, <1>s DEF AutoAsk
  <2> QED BY <1>0, <1>5, <2>1 DEF AutoAsk, RInv, PostIsMarked, MetWhenTwo, OneText, FateIsKnown
<1>6. CASE AutoGet
  <2>1. /\ spc'["cmd"] = spc["cmd"] /\ spc["auto"] = "get"
        /\ IF flags \cap Answers = {} THEN spc'["auto"] = "wait" ELSE spc'["auto"] \in {"sent", "failed"}
    BY <1>6, <1>s DEF AutoGet, Taken
  <2>2. "ERROR" \notin flags \/ spc'["auto"] # "wait"
    BY <2>1 DEF Answers
  <2>3. UNCHANGED <<file, pc, pos, ok, mode, text, kind, history>>
    BY <1>6 DEF AutoGet
  <2> QED BY <1>0, <2>1, <2>2, <2>3 DEF RInv, PostIsMarked, MetWhenTwo, OneText, FateIsKnown
<1>7. CASE AutoEnd
  <2>1. /\ spc'["auto"] = "idle" /\ spc'["cmd"] = spc["cmd"] /\ spc["auto"] \in {"sent", "failed"}
    BY <1>7, <1>s DEF AutoEnd
  <2> QED BY <1>0, <1>7, <2>1 DEF AutoEnd, RInv, PostIsMarked, MetWhenTwo, OneText, FateIsKnown
<1>8. CASE CmdTest
  BY <1>8, TestKeepsReports DEF CmdTest
<1>9. CASE CmdTestForServer
  BY <1>9, TestKeepsReports DEF CmdTestForServer
<1>10. CASE CmdEnd
  <2>1. spc'["auto"] = spc["auto"] /\ spc'["cmd"] = "idle"
    BY <1>10 DEF CmdEnd, TypeOK, Sender
  <2>2. file \subseteq file' /\ file' \cap Reports \subseteq file /\ flags \subseteq flags'
    BY <1>10 DEF CmdEnd, Reports
  <2>3. UNCHANGED <<pc, pos, ok, mode, text, kind, history>>
    BY <1>10 DEF CmdEnd
  <2> QED BY <1>0, <2>1, <2>2, <2>3 DEF RInv, PostIsMarked, MetWhenTwo, OneText, FateIsKnown
<1> QED BY <1>1, <1>2, <1>3, <1>4, <1>5, <1>6, <1>7, <1>8, <1>9, <1>10 DEF auto_thread_entry, cmd_thread_entry

LEMMA RInvStep == TypeOK /\ RInv /\ [Next]_vars => RInv'
<1> SUFFICES ASSUME TypeOK, RInv, [Next]_vars PROVE RInv'
  OBVIOUS
<1>1. CASE http_thread_entry
  BY <1>1, HttpKeepsText, HttpKeepsFate DEF RInv
<1>2. CASE AutoCreate \/ auto_thread_entry \/ CmdTest \/ cmd_thread_entry
  BY <1>2, SendersKeepReports
<1>3. CASE GiveUpHttp \/ RebootForLink
  BY <1>3, RInvReboot DEF GiveUpHttp, RebootForLink
<1>4. ASSUME UNCHANGED <<mode, pc, pos, ok, text, senders, history>>,
             file \subseteq file', file' \cap Reports \subseteq file, flags \subseteq flags'
      PROVE  RInv'
  BY <1>4 DEF text, senders, history, RInv, PostIsMarked, MetWhenTwo, OneText, FateIsKnown, InTheMaking, OnTheWay
<1>5. CASE NetStep \/ SuspendHttp \/ StopNetwork \/ StartNetwork \/ ReleaseMutex
  BY <1>4, <1>5 DEF NetStep, SuspendHttp, StopNetwork, StartNetwork, ReleaseMutex, outside, session
<1>6. CASE Event
  <2>1. file \subseteq file' /\ file' \cap Reports \subseteq file /\ flags \subseteq flags'
    BY <1>6 DEF Event, RequestTimer, RegistChanged, UsbChanged, LinkLost, ServerChanged, Reports
  <2> QED BY <1>4, <1>6, <2>1 DEF Event, session
<1>7. CASE UNCHANGED vars
  BY <1>4, <1>7 DEF vars, outside, session
<1> QED BY <1>1, <1>2, <1>3, <1>5, <1>6, <1>7 DEF Next, network_thread_entry

LEMMA RInvHolds == Spec => []RInv
<1>1. Init => RInv
  BY RInvInit
<1>2. IInv /\ RInv /\ [Next]_vars => RInv'
  BY RInvStep DEF IInv
<1> QED BY <1>1, <1>2, IInvHolds, PTL DEF Spec

-----------------------------------------------------------------------------
\* What the server takes as a report is complete and of its kind, unless two
\* reports met in the one xml_buffer: a sender empties the buffer only when no
\* older report is marked, and marks its own only when its text is there
\* (tls_client.c 1110, 1190).
THEOREM TakenReportIsWhole == Spec => ReportIsWhole
<1> DEFINE Whole == (pc = "post" /\ pc' # "post" /\ ok' /\ Order[pos] \in Reports) =>
                       crossed \/ (doc.whole /\ doc.kind = Order[pos])
<1>1. RInv => [Whole]_vars
  BY DEF RInv, OneText
<1> QED BY <1>1, RInvHolds, PTL DEF ReportIsWhole

\* The auto thread's SUCCESS stands for its report (auto_thread_entry.c 3618),
\* however answers, other files and errors come together: it was sent, is still
\* marked, or one of the named things happened to it.
THEOREM SuccessStandsForReport == Spec => SuccessIsSent
<1> DEFINE Stands == (spc["auto"] # "sent" /\ spc'["auto"] = "sent") =>
                        \/ fate' \in {"sent", "dropped"}
                        \/ crossed'
                        \/ fate' = "none" /\ kind'["auto"] \in file'
                        \/ fate' = "lost" /\ pc' = "report" /\ ~ok'
                        \/ fate' = "lost" /\ mode = 0
<1>1. IInv /\ RInv /\ [Next]_vars => [Stands]_vars
  <2> SUFFICES ASSUME TypeOK, RInv, Next, spc["auto"] # "sent", spc'["auto"] = "sent" PROVE Stands
    BY DEF IInv, vars, senders
  <2>0. MetWhenTwo /\ FateIsKnown /\ fate \in {"none", "sent", "lost", "dropped"}
    BY DEF RInv, TypeOK
  <2>1. CASE http_thread_entry
    <3>1. spc["auto"] = "wait" /\ kind' = kind /\ crossed' = crossed
      BY <2>1, HttpMovesSenders, HttpLeavesText DEF Sender
    <3>2. ASSUME NEW new \in {"CANCEL", "ERROR"}, SetFlags({new}) PROVE FALSE
      BY <2>0, <3>1, <3>2, AnswerReaches, ErrorIsFailure DEF Answers
    <3>3. Report /\ SetFlags({"SUCCESS"}) /\ ok
      <4>1. CASE Cancel \/ Errors \/ Wifi
        BY <3>1, <3>2, <4>1 DEF Cancel, Errors, Wifi
      <4>2. CASE Report
        BY <3>1, <3>2, <4>2 DEF Report
      <4>3. CASE HandOver
        BY <3>1, <4>3 DEF HandOver, TypeOK, Sender
      <4>4. CASE ~(Cancel \/ Report \/ Errors \/ Wifi \/ HandOver)
        BY <2>1, <3>1, <4>4 DEF http_thread_entry, TakeReady, PassMutex, Check, ConnectFails, SetupFails, NextCert,
           NoCert, Connect, SkipSettings, StartPost, EndScan, PostFails, PostRefused, PostWantsSettings,
           PostTaken, TakeCommand, senders
      <4> QED BY <2>1, <4>1, <4>2, <4>3, <4>4
    <3>4. FateStep
      BY <2>1, HttpIsFateStep
    <3>5. fate = "lost" => crossed \/ mode = 0
      BY <2>0, <3>1, <3>3 DEF FateIsKnown, OnTheWay
    <3>6. fate = "none" => kind["auto"] \in file
      BY <2>0, <3>1 DEF FateIsKnown, OnTheWay
    <3> QED BY <2>0, <3>1, <3>4, <3>5, <3>6 DEF FateStep, OnTheWay
  <2>2. CASE AutoGet
    <3>1. spc["auto"] = "get" /\ UNCHANGED <<file, pc, ok, kind, fate, crossed>>
      BY <2>2 DEF AutoGet, AutoAt, session, history
    <3>2. "ERROR" \notin flags
      <4>1. "ERROR" \in flags => spc'["auto"] = "failed"
        BY <2>2, ErrorIsFailure DEF AutoGet, AutoGo, Answers, TypeOK, Sender
      <4> QED BY <4>1
    <3> QED BY <2>0, <3>1, <3>2 DEF FateIsKnown, OnTheWay
  <2>3. CASE AutoCreate \/ AutoMake \/ AutoClear \/ AutoMark \/ AutoAsk \/ AutoEnd
    <3>1. spc'["auto"] \in {"make", "clear", "mark", "ask", "get", "idle"}
      BY <2>3 DEF AutoCreate, AutoMake, AutoClear, AutoMark, AutoAsk, AutoEnd, AutoGo, TypeOK, Sender
    <3> QED BY <3>1
  <2>4. CASE CmdTest \/ cmd_thread_entry
    <3>1. spc'["auto"] = spc["auto"]
      BY <2>4 DEF CmdTest, cmd_thread_entry, CmdTestForServer, Test, CmdEnd, TypeOK, Sender
    <3> QED BY <3>1
  <2>5. CASE network_thread_entry \/ Event
    <3>1. spc' = spc \/ Reboot
      BY <2>5 DEF network_thread_entry, NetStep, SuspendHttp, GiveUpHttp, RebootForLink, StopNetwork,
                  StartNetwork, ReleaseMutex, Event, senders
    <3>2. Reboot => spc'["auto"] = "idle"
      BY DEF Reboot, Started, Sender
    <3> QED BY <3>1, <3>2
  <2> QED BY <2>1, <2>2, <2>3, <2>4, <2>5 DEF Next, auto_thread_entry
<1> QED BY <1>1, IInvHolds, RInvHolds, PTL DEF Spec, SuccessIsSent
=============================================================================
