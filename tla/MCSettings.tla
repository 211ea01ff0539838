----------------------------- MODULE MCSettings -----------------------------
\* Two settings: an MTU, which erased flash leaves out of range, and another.
EXTENDS SettingsStore

CONSTANTS mtu, name

MCField == {mtu, name}
MCValue == {0, 1, 2}
MCLegal == [f \in MCField |-> IF f = mtu THEN {0, 1} ELSE MCValue]
MCUsual == [f \in MCField |-> 0]
MCFactory == [f \in MCField |-> IF f = mtu THEN 2 ELSE 0]
MCInitial == [f \in MCField |-> IF f = mtu THEN 0 ELSE 1]
=============================================================================
