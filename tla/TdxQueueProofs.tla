-------------------------- MODULE TdxQueueProofs --------------------------
(***************************************************************************)
(* Theorems about the message queue of comp/tdx.c, for every finite set of *)
(* threads, every set of messages and every queue size.                    *)
(***************************************************************************)
EXTENDS TdxQueue, FiniteSetTheorems, SequenceTheorems, TLAPS

-----------------------------------------------------------------------------
(* Arithmetic of ring indices.                                             *)

\* An index that ran at most once past the end wraps by one subtraction.
LEMMA WrapSlot ==
    ASSUME NEW x \in 0 .. 2 * Size - 1
    PROVE  x % Size = IF x < Size THEN x ELSE x - Size
<1>0. Size \in Nat /\ Size > 0 BY SizeAssumption
<1>1. CASE x < Size BY <1>0, <1>1
<1>2. CASE x >= Size
  <2> DEFINE y == x - Size
  <2>1. y \in 0 .. Size - 1 BY <1>0, <1>2
  <2>2. x = y + Size BY <1>0
  <2>3. (y + Size) % Size = y BY <2>1, <1>0
  <2> QED BY <2>2, <2>3, <1>2, <1>0
<1> QED BY <1>0, <1>1, <1>2

\* The next slot, as the two functions compute it.
LEMMA NextSlot ==
    ASSUME NEW i \in Slot
    PROVE  /\ Advance(i) = IF i = Size - 1 THEN 0 ELSE i + 1
           /\ Advance(i) \in Slot
<1>1. Size \in Nat /\ Size > 0 BY SizeAssumption
<1>2. i + 1 \in 0 .. 2 * Size - 1 BY <1>1 DEF Slot
<1> QED BY <1>1, <1>2, WrapSlot DEF Slot, Advance

-----------------------------------------------------------------------------
(* The inductive invariant: the fields are well typed, tail is count slots *)
(* ahead of head, and only a thread inside a function waits on that        *)
(* function's condition variable.                                          *)

RingShape == tail = IF head + count < Size THEN head + count
                                           ELSE head + count - Size

InCall(t) == /\ t \in notFull => call[t] = "send"
             /\ t \in notEmpty => call[t] = "receive"
             /\ call[t] = "send" => arg[t] \in Msg

IInv == TypeOK /\ RingShape /\ \A t \in Thread : InCall(t)

LEMMA SignalledSubset ==
    ASSUME NEW W, NEW V \in Signalled(W)
    PROVE  V \subseteq W
BY DEF Signalled

LEMMA InitIInv == Init => IInv
BY SizeAssumption DEF Init, tdx_queue_create, IInv, TypeOK, RingShape,
                      InCall, Slot, Calls, Returns

LEMMA StoreIInv ==
    ASSUME IInv, NEW t \in Thread, NEW m \in Msg, Store(t, m),
           t \notin notFull, t \notin notEmpty
    PROVE  IInv'
<1> USE DEF IInv, Store, Return
<1>0. Size \in Nat /\ tail \in Slot /\ head \in Slot /\ count \in 0 .. Size
  BY SizeAssumption DEF TypeOK
<1>1. /\ tail' = IF tail = Size - 1 THEN 0 ELSE tail + 1
      /\ tail' \in Slot
  BY <1>0, NextSlot
<1>2. TypeOK'
  <2>1. notEmpty' \in SUBSET Thread BY SignalledSubset DEF TypeOK
  <2>2. count' \in 0 .. Size BY <1>0
  <2> QED BY <2>1, <2>2, <1>1 DEF TypeOK, Calls, Returns
<1>3. RingShape'
  BY <1>0, <1>1 DEF RingShape, Slot
<1>4. ASSUME NEW u \in Thread PROVE InCall(u)'
  <2>1. notEmpty' \subseteq notEmpty BY SignalledSubset
  <2>2. InCall(u) OBVIOUS
  <2> QED BY <2>1, <2>2 DEF InCall, TypeOK
<1> QED BY <1>2, <1>3, <1>4

LEMMA FetchIInv ==
    ASSUME IInv, NEW t \in Thread, Fetch(t),
           t \notin notFull, t \notin notEmpty
    PROVE  IInv'
<1> USE DEF IInv, Fetch, Return
<1>0. Size \in Nat /\ tail \in Slot /\ head \in Slot /\ count \in 0 .. Size
  BY SizeAssumption DEF TypeOK
<1>1. /\ head' = IF head = Size - 1 THEN 0 ELSE head + 1
      /\ head' \in Slot
  BY <1>0, NextSlot
<1>2. TypeOK'
  <2>1. notFull' \in SUBSET Thread BY SignalledSubset DEF TypeOK
  <2>2. count' \in 0 .. Size BY <1>0
  <2>3. mem[head] \in Msg \cup {NoMsg} BY <1>0 DEF TypeOK
  <2> QED BY <2>1, <2>2, <2>3, <1>1 DEF TypeOK, Calls, Returns
<1>3. RingShape'
  BY <1>0, <1>1 DEF RingShape, Slot
<1>4. ASSUME NEW u \in Thread PROVE InCall(u)'
  <2>1. notFull' \subseteq notFull BY SignalledSubset
  <2>2. InCall(u) OBVIOUS
  <2> QED BY <2>1, <2>2 DEF InCall, TypeOK
<1> QED BY <1>2, <1>3, <1>4

\* A call that returns empty-handed, and has left every wait set.
LEMMA GiveUpIInv ==
    ASSUME IInv, NEW t \in Thread, NEW value \in Returns, GiveUp(t, value),
           notFull' \subseteq notFull, notEmpty' \subseteq notEmpty,
           t \notin notFull', t \notin notEmpty'
    PROVE  IInv'
<1> USE DEF IInv, GiveUp, Return
<1>1. TypeOK' BY DEF TypeOK, Calls, Returns
<1>2. RingShape' BY DEF RingShape
<1>3. ASSUME NEW u \in Thread PROVE InCall(u)'
  <2>1. InCall(u) OBVIOUS
  <2> QED BY <2>1 DEF InCall, TypeOK
<1> QED BY <1>1, <1>2, <1>3

\* Every step of every thread keeps the invariant.
LEMMA StepIInv == IInv /\ [Next]_vars => IInv'
<1> SUFFICES ASSUME IInv, [Next]_vars PROVE IInv'
  OBVIOUS
<1>1. CASE UNCHANGED vars
  BY <1>1 DEF vars, IInv, TypeOK, RingShape, InCall
<1>2. ASSUME NEW t \in Thread, Step(t) PROVE IInv'
  <2>0. /\ TypeOK /\ RingShape /\ InCall(t)
        /\ \A u \in Thread : InCall(u)
        /\ call[t] = "none" => t \notin notFull /\ t \notin notEmpty
        /\ call[t] = "send" => t \notin notEmpty
        /\ call[t] = "receive" => t \notin notFull
    BY DEF IInv, InCall
  <2>1. ASSUME NEW m \in Msg, SendNow(t, m) PROVE IInv'
    BY <2>0, <2>1, StoreIInv DEF SendNow
  <2>2. ASSUME NEW m \in Msg, SendBlock(t, m) PROVE IInv'
    BY <2>0, <2>2 DEF SendBlock, ring, IInv, TypeOK, RingShape, InCall, Calls
  <2>3. CASE SendRefused(t)
    BY <2>0, <2>3, GiveUpIInv DEF SendRefused, Returns
  <2>4. CASE ReceiveNow(t)
    BY <2>0, <2>4, FetchIInv DEF ReceiveNow
  <2>5. CASE ReceiveBlock(t)
    BY <2>0, <2>5 DEF ReceiveBlock, ring, IInv, TypeOK, RingShape, InCall, Calls
  <2>6. CASE ReceiveRefused(t)
    BY <2>0, <2>6, GiveUpIInv DEF ReceiveRefused, Returns
  <2>7. CASE SendResume(t)
    <3>1. CASE Store(t, arg[t])
      BY <2>0, <2>7, <3>1, StoreIInv DEF SendResume, InCall
    <3>2. CASE t \in expired /\ ~ Store(t, arg[t])
      BY <2>0, <2>7, <3>2, GiveUpIInv DEF SendResume, Returns
    <3>3. CASE t \notin expired /\ ~ Store(t, arg[t])
      BY <2>0, <2>7, <3>3
      DEF SendResume, ring, IInv, TypeOK, RingShape, InCall
    <3> QED BY <3>1, <3>2, <3>3
  <2>8. CASE SendTimeout(t)
    BY <2>0, <2>8, GiveUpIInv DEF SendTimeout, Returns, InCall
  <2>9. CASE ReceiveResume(t)
    <3>1. CASE Fetch(t)
      BY <2>0, <2>9, <3>1, FetchIInv DEF ReceiveResume
    <3>2. CASE t \in expired /\ ~ Fetch(t)
      BY <2>0, <2>9, <3>2, GiveUpIInv DEF ReceiveResume, Returns
    <3>3. CASE t \notin expired /\ ~ Fetch(t)
      BY <2>0, <2>9, <3>3
      DEF ReceiveResume, ring, IInv, TypeOK, RingShape, InCall
    <3> QED BY <3>1, <3>2, <3>3
  <2>10. CASE ReceiveTimeout(t)
    BY <2>0, <2>10, GiveUpIInv DEF ReceiveTimeout, Returns, InCall
  <2>11. CASE Expire(t)
    BY <2>0, <2>11 DEF Expire, ring, IInv, TypeOK, RingShape, InCall
  <2>12. CASE SpuriousWakeup(t)
    BY <2>0, <2>12 DEF SpuriousWakeup, ring, IInv, TypeOK, RingShape, InCall
  <2> QED
    BY <1>2, <2>1, <2>2, <2>3, <2>4, <2>5, <2>6, <2>7, <2>8, <2>9, <2>10,
       <2>11, <2>12 DEF Step, Proceed
<1> QED BY <1>1, <1>2 DEF Next

LEMMA SpecIInv == Spec => []IInv
BY InitIInv, StepIInv, PTL DEF Spec

\* The fields of the queue and the state of its callers are well typed in
\* every run: head and tail index a slot and count is at most the size.
THEOREM QueueTypeCorrect == Spec => []TypeOK
<1>1. IInv => TypeOK BY DEF IInv
<1> QED BY <1>1, SpecIInv, PTL

-----------------------------------------------------------------------------
(* No wake-up is lost.  Three facts about any waiters W and woken threads  *)
(* F: what a signal, a thread that takes and a thread that joins do to     *)
(* "while somebody waits, n units have n threads on their way".            *)

LEMMA SignalCovers ==
    ASSUME NEW W, NEW V \in Signalled(W), NEW F, NEW G, NEW n \in Nat,
           IsFiniteSet(G), F \subseteq G, W \ V \subseteq G, F \cap W = {},
           W # {} => n <= Cardinality(F)
    PROVE  V # {} => n + 1 <= Cardinality(G)
<1> SUFFICES ASSUME V # {} PROVE n + 1 <= Cardinality(G)
  OBVIOUS
<1>1. PICK t \in W : V = W \ {t} BY DEF Signalled
<1>2. IsFiniteSet(F) /\ t \notin F /\ F \cup {t} \in SUBSET G
  BY <1>1, FS_Subset
<1>3. Cardinality(F \cup {t}) = Cardinality(F) + 1
  BY <1>2, FS_AddElement
<1>4. Cardinality(F \cup {t}) <= Cardinality(G)
  BY <1>2, FS_Subset
<1>5. Cardinality(F) \in Nat /\ Cardinality(G) \in Nat
  BY <1>2, FS_CardinalityType
<1> QED BY <1>1, <1>3, <1>4, <1>5

LEMMA TakerCovers ==
    ASSUME NEW F, NEW G, NEW t, NEW n \in Nat, n > 0,
           IsFiniteSet(F), IsFiniteSet(G), F \ {t} \subseteq G,
           n <= Cardinality(F)
    PROVE  n - 1 <= Cardinality(G)
<1>1. /\ IsFiniteSet(F \ {t})
      /\ Cardinality(F \ {t}) = IF t \in F THEN Cardinality(F) - 1
                                            ELSE Cardinality(F)
  BY FS_RemoveElement
<1>2. Cardinality(F \ {t}) <= Cardinality(G)
  BY FS_Subset
<1>3. Cardinality(F) \in Nat /\ Cardinality(G) \in Nat
        /\ Cardinality(F \ {t}) \in Nat
  BY <1>1, FS_CardinalityType
<1> QED BY <1>1, <1>2, <1>3

LEMMA JoinCovers ==
    ASSUME NEW F, NEW G, NEW n \in Nat,
           IsFiniteSet(G), F \subseteq G, n <= Cardinality(F)
    PROVE  n <= Cardinality(G)
<1>1. Cardinality(F) <= Cardinality(G) /\ IsFiniteSet(F) BY FS_Subset
<1>2. Cardinality(F) \in Nat /\ Cardinality(G) \in Nat
  BY <1>1, FS_CardinalityType
<1> QED BY <1>1, <1>2

LEMMA WokenFinite ==
    ASSUME NEW fn, NEW W
    PROVE  /\ IsFiniteSet(Woken(fn, W))
           /\ IsFiniteSet(Woken(fn, W)')
           /\ Cardinality(Woken(fn, W)) \in Nat
           /\ Cardinality(Woken(fn, W)') \in Nat
<1>1. Woken(fn, W) \in SUBSET Thread /\ Woken(fn, W)' \in SUBSET Thread
  BY DEF Woken
<1> QED BY <1>1, ThreadAssumption, FS_Subset, FS_CardinalityType

\* The two halves of NoLostWakeup and the sets they count.
Receivers == Woken("receive", notEmpty)
Senders == Woken("send", notFull)
ReceiversCovered == notEmpty # {} => count <= Cardinality(Receivers)
SendersCovered == notFull # {} => Size - count <= Cardinality(Senders)

LEMMA StoreCovers ==
    ASSUME IInv, ReceiversCovered, SendersCovered,
           NEW t \in Thread, NEW m \in Msg, Store(t, m),
           t \notin notFull, t \notin notEmpty, call[t] # "receive"
    PROVE  ReceiversCovered' /\ SendersCovered'
<1>0. /\ count \in Nat /\ Size \in Nat /\ count < Size
      /\ call \in [Thread -> Calls] /\ notEmpty \subseteq Thread
  BY SizeAssumption DEF IInv, TypeOK, Store
<1>1. /\ count' = count + 1 /\ notFull' = notFull
      /\ notEmpty' \in Signalled(notEmpty)
      /\ call' = [call EXCEPT ![t] = "none"]
  BY DEF Store, Return
<1>2. IsFiniteSet(Receivers') /\ IsFiniteSet(Senders')
      /\ IsFiniteSet(Senders)
  BY WokenFinite DEF Woken, Receivers, Senders
<1>3. ReceiversCovered'
  <2>1. Receivers \subseteq Receivers'
    BY <1>0, <1>1, SignalledSubset DEF Receivers, Woken
  <2>2. notEmpty \ notEmpty' \subseteq Receivers'
    BY <1>0, <1>1 DEF Receivers, Woken, IInv, InCall
  <2>3. Receivers \cap notEmpty = {} BY DEF Receivers, Woken
  <2> QED BY <1>0, <1>1, <1>2, <2>1, <2>2, <2>3, SignalCovers
          DEF ReceiversCovered
<1>4. SendersCovered'
  <2>1. Senders \ {t} \subseteq Senders' BY <1>0, <1>1 DEF Senders, Woken
  <2>2. ASSUME notFull # {} PROVE Size - count - 1 <= Cardinality(Senders')
    <3>1. Size - count \in Nat /\ Size - count > 0 BY <1>0
    <3> QED BY <2>1, <2>2, <3>1, <1>2, TakerCovers DEF SendersCovered
  <2> QED BY <1>0, <1>1, <2>2 DEF SendersCovered
<1> QED BY <1>3, <1>4

LEMMA FetchCovers ==
    ASSUME IInv, ReceiversCovered, SendersCovered,
           NEW t \in Thread, Fetch(t),
           t \notin notFull, t \notin notEmpty, call[t] # "send"
    PROVE  ReceiversCovered' /\ SendersCovered'
<1>0. /\ count \in Nat /\ Size \in Nat /\ count > 0 /\ count <= Size
      /\ call \in [Thread -> Calls] /\ notFull \subseteq Thread
  BY SizeAssumption DEF IInv, TypeOK, Fetch
<1>1. /\ count' = count - 1 /\ notEmpty' = notEmpty
      /\ notFull' \in Signalled(notFull)
      /\ call' = [call EXCEPT ![t] = "none"]
  BY DEF Fetch, Return
<1>2. IsFiniteSet(Senders') /\ IsFiniteSet(Receivers')
      /\ IsFiniteSet(Receivers)
  BY WokenFinite DEF Woken, Receivers, Senders
<1>3. SendersCovered'
  <2>1. Senders \subseteq Senders'
    BY <1>0, <1>1, SignalledSubset DEF Senders, Woken
  <2>2. notFull \ notFull' \subseteq Senders'
    BY <1>0, <1>1 DEF Senders, Woken, IInv, InCall
  <2>3. Senders \cap notFull = {} BY DEF Senders, Woken
  <2>4. Size - count \in Nat /\ Size - count' = (Size - count) + 1
    BY <1>0, <1>1
  <2> QED BY <1>1, <1>2, <2>1, <2>2, <2>3, <2>4, SignalCovers
          DEF SendersCovered
<1>4. ReceiversCovered'
  <2>1. Receivers \ {t} \subseteq Receivers' BY <1>0, <1>1 DEF Receivers, Woken
  <2> QED BY <1>0, <1>1, <1>2, <2>1, TakerCovers DEF ReceiversCovered
<1> QED BY <1>3, <1>4

\* Giving up, or waiting again, happens only when nothing is available.
LEMMA NoneCovers ==
    ASSUME IInv, ReceiversCovered, SendersCovered, count' = count,
           \/ count = Size /\ notEmpty' = notEmpty
                           /\ Receivers \subseteq Receivers'
           \/ count = 0 /\ notFull' = notFull
                        /\ Senders \subseteq Senders'
    PROVE  ReceiversCovered' /\ SendersCovered'
<1>1. count \in Nat /\ Size \in Nat /\ count <= Size /\ Size - count \in Nat
  BY SizeAssumption DEF IInv, TypeOK
<1>2. /\ IsFiniteSet(Senders') /\ IsFiniteSet(Receivers')
      /\ Cardinality(Senders') \in Nat /\ Cardinality(Receivers') \in Nat
  BY WokenFinite DEF Woken, Receivers, Senders
<1>3. CASE count = Size /\ notEmpty' = notEmpty /\ Receivers \subseteq Receivers'
  <2>1. SendersCovered' BY <1>1, <1>2, <1>3 DEF SendersCovered
  <2>2. ReceiversCovered' BY <1>1, <1>2, <1>3, JoinCovers DEF ReceiversCovered
  <2> QED BY <2>1, <2>2
<1>4. CASE count = 0 /\ notFull' = notFull /\ Senders \subseteq Senders'
  <2>1. ReceiversCovered' BY <1>1, <1>2, <1>4 DEF ReceiversCovered
  <2>2. SendersCovered' BY <1>1, <1>2, <1>4, JoinCovers DEF SendersCovered
  <2> QED BY <2>1, <2>2
<1> QED BY <1>3, <1>4

\* Leaving a wait set on one's own never uncovers anybody.
LEMMA LeaveCovers ==
    ASSUME IInv, ReceiversCovered, SendersCovered, count' = count,
           notFull' \subseteq notFull, notEmpty' \subseteq notEmpty,
           Receivers \subseteq Receivers', Senders \subseteq Senders'
    PROVE  ReceiversCovered' /\ SendersCovered'
<1>1. count \in Nat /\ Size \in Nat /\ Size - count \in Nat
  BY SizeAssumption DEF IInv, TypeOK
<1>2. IsFiniteSet(Senders') /\ IsFiniteSet(Receivers')
  BY WokenFinite DEF Woken, Receivers, Senders
<1>3. ReceiversCovered' BY <1>1, <1>2, JoinCovers DEF ReceiversCovered
<1>4. SendersCovered' BY <1>1, <1>2, JoinCovers DEF SendersCovered
<1> QED BY <1>3, <1>4

LEMMA StepCovers ==
    IInv /\ ReceiversCovered /\ SendersCovered /\ [Next]_vars
      => ReceiversCovered' /\ SendersCovered'
<1> SUFFICES ASSUME IInv, ReceiversCovered, SendersCovered, [Next]_vars
             PROVE  ReceiversCovered' /\ SendersCovered'
  OBVIOUS
<1> USE DEF Receivers, Senders, Woken
<1>1. CASE UNCHANGED vars
  BY <1>1 DEF vars, ReceiversCovered, SendersCovered
<1>2. ASSUME NEW t \in Thread, Step(t)
      PROVE  ReceiversCovered' /\ SendersCovered'
  <2>0. /\ call \in [Thread -> Calls] /\ InCall(t)
        /\ count \in 0 .. Size
        /\ call[t] = "none" => t \notin notFull /\ t \notin notEmpty
        /\ call[t] = "send" => t \notin notEmpty
        /\ call[t] = "receive" => t \notin notFull
    BY DEF IInv, InCall, TypeOK
  <2> USE DEF GiveUp, Return
  <2>1. ASSUME NEW m \in Msg, SendNow(t, m)
        PROVE  ReceiversCovered' /\ SendersCovered'
    BY <2>0, <2>1, StoreCovers DEF SendNow
  <2>2. ASSUME NEW m \in Msg, SendBlock(t, m)
        PROVE  ReceiversCovered' /\ SendersCovered'
    BY <2>0, <2>2, NoneCovers DEF SendBlock, ring
  <2>3. CASE SendRefused(t)
    BY <2>0, <2>3, NoneCovers DEF SendRefused
  <2>4. CASE ReceiveNow(t)
    BY <2>0, <2>4, FetchCovers DEF ReceiveNow
  <2>5. CASE ReceiveBlock(t)
    BY <2>0, <2>5, NoneCovers DEF ReceiveBlock, ring
  <2>6. CASE ReceiveRefused(t)
    BY <2>0, <2>6, NoneCovers DEF ReceiveRefused
  <2>7. CASE SendResume(t)
    <3>1. CASE Store(t, arg[t])
      BY <2>0, <2>7, <3>1, StoreCovers DEF SendResume, InCall
    <3>2. CASE ~ Store(t, arg[t])
      BY <2>0, <2>7, <3>2, NoneCovers DEF SendResume, ring
    <3> QED BY <3>1, <3>2
  <2>8. CASE SendTimeout(t)
    BY <2>0, <2>8, LeaveCovers DEF SendTimeout, InCall
  <2>9. CASE ReceiveResume(t)
    <3>1. CASE Fetch(t)
      BY <2>0, <2>9, <3>1, FetchCovers DEF ReceiveResume
    <3>2. CASE ~ Fetch(t)
      BY <2>0, <2>9, <3>2, NoneCovers DEF ReceiveResume, ring
    <3> QED BY <3>1, <3>2
  <2>10. CASE ReceiveTimeout(t)
    BY <2>0, <2>10, LeaveCovers DEF ReceiveTimeout, InCall
  <2>11. CASE Expire(t)
    BY <2>0, <2>11, LeaveCovers DEF Expire, ring
  <2>12. CASE SpuriousWakeup(t)
    BY <2>0, <2>12, LeaveCovers DEF SpuriousWakeup, ring
  <2> QED
    BY <1>2, <2>1, <2>2, <2>3, <2>4, <2>5, <2>6, <2>7, <2>8, <2>9, <2>10,
       <2>11, <2>12 DEF Step, Proceed
<1> QED BY <1>1, <1>2 DEF Next

\* While receivers wait, every message in the queue has a woken receiver, and
\* while senders wait, every free slot has a woken sender: one signal per
\* message is enough, for any number of threads (tdx.c 187-204, 223-240).
THEOREM NoWakeupIsLost == Spec => []NoLostWakeup
<1>1. Init => ReceiversCovered /\ SendersCovered
  BY DEF Init, tdx_queue_create, ReceiversCovered, SendersCovered
<1>2. ReceiversCovered /\ SendersCovered => NoLostWakeup
  BY DEF ReceiversCovered, SendersCovered, Receivers, Senders, NoLostWakeup
<1> QED BY <1>1, <1>2, SpecIInv, StepCovers, PTL DEF Spec

-----------------------------------------------------------------------------
(* The ring implements the bounded FIFO.                                   *)

\* Where the i-th oldest message lives.
LEMMA ContentSlot ==
    ASSUME NEW h \in Slot, NEW i \in 1 .. Size
    PROVE  (h + i - 1) % Size = IF h + i - 1 < Size THEN h + i - 1
                                                   ELSE h + i - 1 - Size
<1>1. Size \in Nat /\ Size > 0 BY SizeAssumption
<1>2. h + i - 1 \in 0 .. 2 * Size - 1 BY <1>1 DEF Slot
<1>3. PICK x \in 0 .. 2 * Size - 1 : x = h + i - 1 BY <1>2
<1>4. x % Size = IF x < Size THEN x ELSE x - Size BY WrapSlot
<1> QED BY <1>1, <1>3, <1>4 DEF Slot

LEMMA ContentsSeq ==
    ASSUME IInv
    PROVE  /\ Contents \in Seq(Msg \cup {NoMsg})
           /\ Len(Contents) = count
           /\ DOMAIN Contents = 1 .. count
<1>1. /\ Size \in Nat /\ Size > 0 /\ head \in Slot /\ count \in Nat
      /\ count <= Size /\ mem \in [Slot -> Msg \cup {NoMsg}]
  BY SizeAssumption DEF IInv, TypeOK
<1>2. ASSUME NEW i \in 1 .. count
      PROVE  mem[(head + i - 1) % Size] \in Msg \cup {NoMsg}
  <2>1. (head + i - 1) % Size \in Slot BY <1>1, ContentSlot DEF Slot
  <2> QED BY <1>1, <2>1
<1>3. Contents \in [1 .. count -> Msg \cup {NoMsg}] BY <1>2 DEF Contents
<1> QED BY <1>1, <1>3

LEMMA StoreAppends ==
    ASSUME IInv, NEW t \in Thread, NEW m \in Msg, Store(t, m)
    PROVE  Contents' = Append(Contents, m)
<1>1. /\ Size \in Nat /\ Size > 0 /\ head \in Slot /\ tail \in Slot
      /\ count \in Nat /\ count < Size
      /\ mem \in [Slot -> Msg \cup {NoMsg}]
  BY SizeAssumption DEF IInv, TypeOK, Store
<1>2. /\ head' = head /\ count' = count + 1
      /\ mem' = [mem EXCEPT ![tail] = m]
  BY DEF Store
<1>3. tail = IF head + count < Size THEN head + count ELSE head + count - Size
  BY DEF IInv, RingShape
<1>4. Contents' = [i \in 1 .. count + 1 |-> mem'[(head + i - 1) % Size]]
  BY <1>2 DEF Contents
<1>5. ASSUME NEW i \in 1 .. count + 1
      PROVE  mem'[(head + i - 1) % Size]
               = IF i <= count THEN mem[(head + i - 1) % Size] ELSE m
  <2>1. i \in 1 .. Size BY <1>1
  <2>2. (head + i - 1) % Size = IF head + i - 1 < Size THEN head + i - 1
                                                      ELSE head + i - 1 - Size
    BY <1>1, <2>1, ContentSlot
  <2>3. (head + i - 1) % Size \in Slot BY <1>1, <2>1, <2>2 DEF Slot
  <2>4. (head + i - 1) % Size = tail <=> i = count + 1
    BY <1>1, <1>3, <2>1, <2>2 DEF Slot
  <2> QED BY <1>1, <1>2, <2>3, <2>4
<1>6. /\ Contents \in Seq(Msg \cup {NoMsg}) /\ Len(Contents) = count
      /\ \A i \in 1 .. count : Contents[i] = mem[(head + i - 1) % Size]
  BY ContentsSeq DEF Contents
<1>7. ASSUME NEW i \in 1 .. count + 1
      PROVE  mem'[(head + i - 1) % Size]
               = IF i <= count THEN Contents[i] ELSE m
  <2>1. CASE i <= count
    <3>1. i \in 1 .. count BY <1>1, <2>1
    <3> QED BY <1>5, <1>6, <2>1, <3>1
  <2>2. CASE ~ (i <= count)
    BY <1>5, <2>2
  <2> QED BY <2>1, <2>2
<1>8. /\ Contents' \in Seq(Msg \cup {NoMsg}) /\ Len(Contents') = count + 1
      /\ \A i \in 1 .. count + 1 :
            Contents'[i] = IF i <= count THEN Contents[i] ELSE m
  <2>1. ASSUME NEW i \in 1 .. count + 1
        PROVE  mem'[(head + i - 1) % Size] \in Msg \cup {NoMsg}
    <3>1. i <= count => Contents[i] \in Msg \cup {NoMsg} BY <1>1, <1>6
    <3> QED BY <1>7, <3>1
  <2>2. Contents' \in [1 .. count + 1 -> Msg \cup {NoMsg}] BY <1>4, <2>1
  <2> QED BY <1>1, <1>4, <1>7, <2>2
<1>9. /\ Append(Contents, m) \in Seq(Msg \cup {NoMsg})
      /\ Len(Append(Contents, m)) = count + 1
      /\ \A i \in 1 .. count : Append(Contents, m)[i] = Contents[i]
      /\ Append(Contents, m)[count + 1] = m
  BY <1>6, AppendProperties
<1>10. \A i \in 1 .. count + 1 : Contents'[i] = Append(Contents, m)[i]
  BY <1>1, <1>8, <1>9
<1> QED BY <1>8, <1>9, <1>10, SeqEqual

LEMMA FetchTakesHead ==
    ASSUME IInv, NEW t \in Thread, Fetch(t)
    PROVE  /\ Contents # << >>
           /\ mem[head] = Head(Contents)
           /\ Contents' = Tail(Contents)
<1>1. /\ Size \in Nat /\ Size > 0 /\ head \in Slot
      /\ count \in Nat /\ count > 0 /\ count <= Size
      /\ mem \in [Slot -> Msg \cup {NoMsg}]
  BY SizeAssumption DEF IInv, TypeOK, Fetch
<1>2. /\ head' = IF head = Size - 1 THEN 0 ELSE head + 1
      /\ head' \in Slot /\ count' = count - 1 /\ mem' = mem
  BY <1>1, NextSlot DEF Fetch
<1>3. /\ Contents \in Seq(Msg \cup {NoMsg}) /\ Len(Contents) = count
      /\ \A i \in 1 .. count : Contents[i] = mem[(head + i - 1) % Size]
  BY ContentsSeq DEF Contents
<1>4. Contents # << >> /\ mem[head] = Head(Contents)
  <2>1. (head + 1 - 1) % Size = head BY <1>1, ContentSlot DEF Slot
  <2>2. Contents[1] = mem[head] BY <1>1, <1>3, <2>1
  <2> QED BY <1>1, <1>3, <2>2
<1>5. Contents' = [i \in 1 .. count - 1 |-> mem[(head' + i - 1) % Size]]
  BY <1>2 DEF Contents
<1>6. ASSUME NEW i \in 1 .. count - 1
      PROVE  mem[(head' + i - 1) % Size] = Contents[i + 1]
  <2>1. i \in 1 .. Size /\ i + 1 \in 1 .. Size /\ i + 1 \in 1 .. count BY <1>1
  <2>2. (head' + i - 1) % Size = IF head' + i - 1 < Size
                                 THEN head' + i - 1 ELSE head' + i - 1 - Size
    BY <1>2, <2>1, ContentSlot
  <2>3. (head + (i + 1) - 1) % Size = IF head + (i + 1) - 1 < Size
                                      THEN head + (i + 1) - 1
                                      ELSE head + (i + 1) - 1 - Size
    BY <1>1, <2>1, ContentSlot
  <2>4. (head' + i - 1) % Size = (head + (i + 1) - 1) % Size
    BY <1>1, <1>2, <2>1, <2>2, <2>3 DEF Slot
  <2> QED BY <1>3, <2>1, <2>4
<1>7. /\ Tail(Contents) \in Seq(Msg \cup {NoMsg})
      /\ Len(Tail(Contents)) = count - 1
      /\ \A i \in 1 .. count - 1 : Tail(Contents)[i] = Contents[i + 1]
  BY <1>3, <1>4, HeadTailProperties
<1>8. /\ Contents' \in Seq(Msg \cup {NoMsg}) /\ Len(Contents') = count - 1
      /\ \A i \in 1 .. count - 1 : Contents'[i] = Contents[i + 1]
  <2>1. ASSUME NEW i \in 1 .. count - 1
        PROVE  mem[(head' + i - 1) % Size] \in Msg \cup {NoMsg}
    <3>1. i + 1 \in 1 .. count BY <1>1
    <3>2. Contents[i + 1] \in Msg \cup {NoMsg} BY <1>3, <3>1
    <3> QED BY <1>6, <3>2
  <2>2. Contents' \in [1 .. count - 1 -> Msg \cup {NoMsg}] BY <1>5, <2>1
  <2> QED BY <1>1, <1>5, <1>6, <2>2
<1>9. \A i \in 1 .. count - 1 : Contents'[i] = Tail(Contents)[i]
  BY <1>7, <1>8
<1>10. Contents' = Tail(Contents) BY <1>7, <1>8, <1>9, SeqEqual
<1> QED BY <1>4, <1>10

LEMMA StepFifo == IInv /\ [Next]_vars => [Fifo!Next]_<<Contents, got>>
<1> SUFFICES ASSUME IInv, [Next]_vars PROVE [Fifo!Next]_<<Contents, got>>
  OBVIOUS
<1> DEFINE Quiet == UNCHANGED <<mem, head, count, got>>
<1>0. Quiet => UNCHANGED <<Contents, got>> BY DEF Contents
<1>1. ASSUME NEW t \in Thread, NEW m \in Msg, Store(t, m)
      PROVE  Fifo!Next
  <2>1. count < Size /\ got' = got /\ Len(Contents) = count
    BY <1>1, ContentsSeq DEF Store
  <2>2. Fifo!Put(m) BY <1>1, <2>1, StoreAppends DEF Fifo!Put
  <2> QED BY <2>2 DEF Fifo!Next
<1>2. ASSUME NEW t \in Thread, Fetch(t)
      PROVE  Fifo!Next
  <2>1. got' = [got EXCEPT ![t] = Head(Contents)]
    BY <1>2, FetchTakesHead DEF Fetch
  <2>2. Fifo!Take(t) BY <1>2, <2>1, FetchTakesHead DEF Fifo!Take
  <2> QED BY <2>2 DEF Fifo!Next
<1>3. CASE UNCHANGED vars BY <1>0, <1>3 DEF vars
<1>4. ASSUME NEW t \in Thread, Step(t)
      PROVE  [Fifo!Next]_<<Contents, got>>
  <2> USE DEF GiveUp, ring
  <2>1. ASSUME NEW m \in Msg, SendNow(t, m) PROVE Fifo!Next
    BY <1>1, <2>1 DEF SendNow
  <2>2. ASSUME NEW m \in Msg, SendBlock(t, m) PROVE Quiet
    BY <2>2 DEF SendBlock
  <2>3. CASE SendRefused(t) BY <1>0, <2>3 DEF SendRefused
  <2>4. CASE ReceiveNow(t) BY <1>2, <2>4 DEF ReceiveNow
  <2>5. CASE ReceiveBlock(t) BY <1>0, <2>5 DEF ReceiveBlock
  <2>6. CASE ReceiveRefused(t) BY <1>0, <2>6 DEF ReceiveRefused
  <2>7. CASE SendResume(t)
    <3>1. arg[t] \in Msg BY <2>7 DEF SendResume, IInv, InCall
    <3> QED BY <1>0, <1>1, <2>7, <3>1 DEF SendResume
  <2>8. CASE SendTimeout(t) BY <1>0, <2>8 DEF SendTimeout
  <2>9. CASE ReceiveResume(t) BY <1>0, <1>2, <2>9 DEF ReceiveResume
  <2>10. CASE ReceiveTimeout(t) BY <1>0, <2>10 DEF ReceiveTimeout
  <2>11. CASE Expire(t) BY <1>0, <2>11 DEF Expire
  <2>12. CASE SpuriousWakeup(t) BY <1>0, <2>12 DEF SpuriousWakeup
  <2> QED
    BY <1>0, <1>4, <2>1, <2>2, <2>3, <2>4, <2>5, <2>6, <2>7, <2>8, <2>9,
       <2>10, <2>11, <2>12 DEF Step, Proceed
<1> QED BY <1>3, <1>4 DEF Next

\* tdx_queue_send and tdx_queue_receive implement a first-in first-out buffer
\* of Size messages, whatever waits, times out or wakes up (tdx.c 177-243).
THEOREM QueueImplementsFifo == Spec => ImplementsFifo
<1>1. Init => Fifo!Init
  BY DEF Init, tdx_queue_create, Fifo!Init, Contents
<1> QED BY <1>1, SpecIInv, StepFifo, PTL DEF Spec, Fifo!Spec, ImplementsFifo
=============================================================================
