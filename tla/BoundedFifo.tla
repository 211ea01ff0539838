---------------------------- MODULE BoundedFifo ----------------------------
(***************************************************************************)
(* What a tdx queue promises its callers: a first-in first-out buffer of   *)
(* at most Size messages.  A thread that receives owns what it took out.   *)
(* Blocking, timeouts and wake-ups belong to the implementation (TdxQueue).*)
(***************************************************************************)
EXTENDS Naturals, Sequences

CONSTANTS Thread, Msg, NoMsg, Size

VARIABLES q,    \* the messages in the queue, oldest first
          got   \* got[t]: the last message thread t received

Init == /\ q = << >>
        /\ got = [t \in Thread |-> NoMsg]

Put(m) == /\ Len(q) < Size
          /\ q' = Append(q, m)
          /\ UNCHANGED got

Take(t) == /\ q # << >>
           /\ got' = [got EXCEPT ![t] = Head(q)]
           /\ q' = Tail(q)

Next == \/ \E m \in Msg : Put(m)
        \/ \E t \in Thread : Take(t)

Spec == Init /\ [][Next]_<<q, got>>
=============================================================================
