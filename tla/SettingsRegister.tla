-------------------------- MODULE SettingsRegister --------------------------
(***************************************************************************)
(* What rtr500bw/src/my_src/Base.c promises about the settings it keeps:   *)
(* a save takes effect at once or not at all, a save that returns has      *)
(* taken effect, and a stop loses nothing but a save that was under way.   *)
(***************************************************************************)
EXTENDS Naturals

CONSTANTS Settings, None, Factory
VARIABLES saved,        \* the settings the next start will use
          asked,        \* those being saved, or None
          stops

vars == <<saved, asked, stops>>

Init == saved = Factory /\ asked = None /\ stops = 0

Ask(s) == /\ asked = None
          /\ asked' = s
          /\ UNCHANGED <<saved, stops>>

Commit == /\ asked # None
          /\ saved' = asked
          /\ UNCHANGED <<asked, stops>>

Return == /\ asked # None /\ saved = asked
          /\ asked' = None
          /\ UNCHANGED <<saved, stops>>

Stop == /\ asked' = None
        /\ stops' = stops + 1
        /\ UNCHANGED saved

Next == (\E s \in Settings : Ask(s)) \/ Commit \/ Return \/ Stop

Spec == Init /\ [][Next]_vars
=============================================================================
