----------------------------- MODULE TdxQueue -----------------------------
(***************************************************************************)
(* The message queue of comp/tdx.c: a ring of Size slots under one mutex   *)
(* and two condition variables.  A step is what one thread does between    *)
(* taking the mutex and giving it back, by unlocking or by waiting on a    *)
(* condition.  A deadline is absolute: it is computed once per call and    *)
(* passes while the call is in progress (Expire).                          *)
(***************************************************************************)
EXTENDS Integers, FiniteSets

CONSTANTS Thread,      \* the threads that use the queue
          Msg,         \* what they send
          NoMsg,       \* the content of a slot or buffer nobody wrote yet
          Size         \* queue_size

ASSUME SizeAssumption == Size \in Nat \ {0}
ASSUME MsgAssumption == NoMsg \notin Msg
ASSUME ThreadAssumption == IsFiniteSet(Thread)

VARIABLES mem, head, tail, count,   \* the fields of tdx_queue_t
          notFull, notEmpty,        \* who waits on each condition variable
          call,                     \* call[t]: the function t is blocked in
          arg,                      \* arg[t]: the message t is sending
          expired,                  \* the calls whose deadline has passed
          got,                      \* got[t]: the buffer t receives into
          ret                       \* ret[t]: what the last call returned

ring == <<mem, head, tail, count>>
vars == <<mem, head, tail, count, notFull, notEmpty, call, arg, expired, got, ret>>

Slot == 0 .. Size - 1
Calls == {"none", "send", "receive"}
\* 0, -1 and -2 of the code; "none" before the first return.
Returns == {"none", "ok", "refused", "timeout"}

TypeOK == /\ mem \in [Slot -> Msg \cup {NoMsg}]
          /\ head \in Slot /\ tail \in Slot /\ count \in 0 .. Size
          /\ notFull \in SUBSET Thread /\ notEmpty \in SUBSET Thread
          /\ call \in [Thread -> Calls]
          /\ arg \in [Thread -> Msg \cup {NoMsg}]
          /\ expired \in SUBSET Thread
          /\ got \in [Thread -> Msg \cup {NoMsg}]
          /\ ret \in [Thread -> Returns]

tdx_queue_create ==
    /\ mem = [s \in Slot |-> NoMsg]
    /\ head = 0 /\ tail = 0 /\ count = 0
    /\ notFull = {} /\ notEmpty = {}

Init == /\ tdx_queue_create
        /\ call = [t \in Thread |-> "none"]
        /\ arg = [t \in Thread |-> NoMsg]
        /\ expired = {}
        /\ got = [t \in Thread |-> NoMsg]
        /\ ret = [t \in Thread |-> "none"]

-----------------------------------------------------------------------------
(* The pieces of the two functions.                                        *)

\* Faults are kept beside the definitions they would replace, to show which
\* property notices: here, an index without its modulo and a lost signal.
AdvanceNoWrap(i) == i + 1
SignalNobody(waiters) == {waiters}

\* The slot after i.
Advance(i) == (i + 1) % Size

\* pthread_cond_signal: one of the waiting threads, if there is one, wakes.
Signalled(waiters) ==
    IF waiters = {} THEN {{}} ELSE {waiters \ {t} : t \in waiters}

Return(t, value) ==
    /\ call' = [call EXCEPT ![t] = "none"]
    /\ expired' = expired \ {t}
    /\ ret' = [ret EXCEPT ![t] = value]

\* The message goes to the tail slot and one receiver is signalled.
Store(t, m) ==
    /\ count < Size
    /\ mem' = [mem EXCEPT ![tail] = m]
    /\ tail' = Advance(tail)
    /\ count' = count + 1
    /\ notEmpty' \in Signalled(notEmpty)
    /\ arg' = [arg EXCEPT ![t] = NoMsg]
    /\ Return(t, "ok")
    /\ UNCHANGED <<head, notFull, got>>

\* The message at the head slot goes to t's buffer; one sender is signalled.
Fetch(t) ==
    /\ count > 0
    /\ got' = [got EXCEPT ![t] = mem[head]]
    /\ head' = Advance(head)
    /\ count' = count - 1
    /\ notFull' \in Signalled(notFull)
    /\ Return(t, "ok")
    /\ UNCHANGED <<mem, tail, notEmpty, arg>>

\* A call that gives up leaves the queue as it is.
GiveUp(t, value) ==
    /\ arg' = [arg EXCEPT ![t] = NoMsg]
    /\ Return(t, value)
    /\ UNCHANGED <<mem, head, tail, count, got>>

-----------------------------------------------------------------------------
(* tdx_queue_send                                                          *)

SendNow(t, m) == call[t] = "none" /\ Store(t, m)

SendRefused(t) ==                       \* timeout_ticks = 0
    /\ call[t] = "none" /\ count = Size
    /\ GiveUp(t, "refused")
    /\ UNCHANGED <<notFull, notEmpty>>

SendBlock(t, m) ==
    /\ call[t] = "none" /\ count = Size
    /\ notFull' = notFull \cup {t}
    /\ call' = [call EXCEPT ![t] = "send"]
    /\ arg' = [arg EXCEPT ![t] = m]
    /\ UNCHANGED <<ring, notEmpty, expired, got, ret>>

\* Out of the wait: the loop tests the queue again.  A deadline that has
\* passed by then makes the next wait return at once.
SendResume(t) ==
    /\ call[t] = "send" /\ t \notin notFull
    /\ \/ Store(t, arg[t])
       \/ /\ count = Size
          /\ IF t \in expired
             THEN GiveUp(t, "timeout") /\ UNCHANGED notFull
             ELSE /\ notFull' = notFull \cup {t}
                  /\ UNCHANGED <<ring, call, arg, expired, got, ret>>
          /\ UNCHANGED notEmpty

SendTimeout(t) ==                       \* ETIMEDOUT
    /\ t \in notFull /\ t \in expired
    /\ notFull' = notFull \ {t}
    /\ GiveUp(t, "timeout")
    /\ UNCHANGED notEmpty

-----------------------------------------------------------------------------
(* tdx_queue_receive                                                       *)

ReceiveNow(t) == call[t] = "none" /\ Fetch(t)

ReceiveRefused(t) ==                    \* timeout_ticks = 0
    /\ call[t] = "none" /\ count = 0
    /\ GiveUp(t, "refused")
    /\ UNCHANGED <<notFull, notEmpty>>

ReceiveBlock(t) ==
    /\ call[t] = "none" /\ count = 0
    /\ notEmpty' = notEmpty \cup {t}
    /\ call' = [call EXCEPT ![t] = "receive"]
    /\ UNCHANGED <<ring, notFull, arg, expired, got, ret>>

\* Fault: "if (count == 0)" around the wait instead of "while".
ReceiveResumeNoLoop(t) ==
    /\ call[t] = "receive" /\ t \notin notEmpty
    /\ got' = [got EXCEPT ![t] = mem[head]]
    /\ head' = Advance(head)
    /\ count' = count - 1
    /\ notFull' \in Signalled(notFull)
    /\ Return(t, "ok")
    /\ UNCHANGED <<mem, tail, notEmpty, arg>>

\* Fault: the deadline is computed again before every wait.
ReceiveResumeNewDeadline(t) ==
    /\ call[t] = "receive" /\ t \notin notEmpty
    /\ \/ Fetch(t)
       \/ /\ count = 0
          /\ notEmpty' = notEmpty \cup {t}
          /\ expired' = expired \ {t}
          /\ UNCHANGED <<ring, notFull, call, arg, got, ret>>

ReceiveResume(t) ==
    /\ call[t] = "receive" /\ t \notin notEmpty
    /\ \/ Fetch(t)
       \/ /\ count = 0
          /\ IF t \in expired
             THEN GiveUp(t, "timeout") /\ UNCHANGED notEmpty
             ELSE /\ notEmpty' = notEmpty \cup {t}
                  /\ UNCHANGED <<ring, call, arg, expired, got, ret>>
          /\ UNCHANGED notFull

ReceiveTimeout(t) ==                    \* ETIMEDOUT
    /\ t \in notEmpty /\ t \in expired
    /\ notEmpty' = notEmpty \ {t}
    /\ GiveUp(t, "timeout")
    /\ UNCHANGED notFull

-----------------------------------------------------------------------------
(* The environment: time, and a condition variable that wakes on its own.  *)

Expire(t) ==
    /\ call[t] # "none" /\ t \notin expired
    /\ expired' = expired \cup {t}
    /\ UNCHANGED <<ring, notFull, notEmpty, call, arg, got, ret>>

SpuriousWakeup(t) ==
    /\ t \in notFull \cup notEmpty
    /\ notFull' = notFull \ {t}
    /\ notEmpty' = notEmpty \ {t}
    /\ UNCHANGED <<ring, call, arg, expired, got, ret>>

\* What a call in progress does next.
Proceed(t) == \/ SendResume(t) \/ SendTimeout(t)
              \/ ReceiveResume(t) \/ ReceiveTimeout(t)

Step(t) == \/ \E m \in Msg : SendNow(t, m) \/ SendBlock(t, m)
           \/ SendRefused(t)
           \/ ReceiveNow(t) \/ ReceiveBlock(t) \/ ReceiveRefused(t)
           \/ Proceed(t)
           \/ Expire(t)
           \/ SpuriousWakeup(t)

Next == \E t \in Thread : Step(t)

Spec == Init /\ [][Next]_vars

\* The scheduler runs every thread that can run, and time passes.
Fairness == \A t \in Thread : WF_vars(Proceed(t)) /\ WF_vars(Expire(t))

FairSpec == Spec /\ Fairness

-----------------------------------------------------------------------------
(* Properties                                                              *)

\* The threads inside a function that are not waiting for a signal.
Woken(fn, waiters) == {t \in Thread : call[t] = fn /\ t \notin waiters}

\* No wake-up is lost: while receivers wait, every message in the queue has
\* a receiver of its own on its way to fetch it, and while senders wait every
\* free slot has a sender on its way.  (One signal per message, sent under
\* the mutex, and a loop around the wait: tdx.c 187-196, 204, 223-232, 240.)
NoLostWakeup ==
    /\ notEmpty # {} => count <= Cardinality(Woken("receive", notEmpty))
    /\ notFull # {} => Size - count <= Cardinality(Woken("send", notFull))

\* The ring read from head is a first-in first-out buffer of Size messages:
\* nothing is lost, duplicated or reordered, whoever sends and receives.
Contents == [i \in 1 .. count |-> mem[(head + i - 1) % Size]]

Fifo == INSTANCE BoundedFifo WITH q <- Contents

ImplementsFifo == Fifo!Spec

\* A timed call comes back: neither a thief of the slot or message it was
\* woken for nor a spurious wake-up makes it wait past its deadline for ever.
CallReturns == \A t \in Thread : call[t] # "none" ~> call[t] = "none"
=============================================================================
