----------------------------- MODULE AppendLog -----------------------------
(***************************************************************************)
(* What the log of comp/comp_log.c promises its readers.  The log holds    *)
(* lines, named here by the order in which they were begun.  A step adds a *)
(* line newer than all others, or gives up the oldest lines to make room,  *)
(* or, when the log is cleared, all of them.  No line is lost in any other *)
(* way: nothing is overwritten, and no line outlives a newer one.          *)
(***************************************************************************)
EXTENDS Naturals

VARIABLE held

Init == held = {}

Append == \E i \in held' : /\ \A h \in held : h < i
                           /\ held' = held \cup {i}

GiveUpOldest == /\ held' \subseteq held
                /\ \A g \in held \ held', h \in held' : g < h

Next == Append \/ GiveUpOldest

Spec == Init /\ [][Next]_held
=============================================================================
