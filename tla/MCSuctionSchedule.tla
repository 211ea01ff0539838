------------------------- MODULE MCSuctionSchedule -------------------------
(* Two tables around midnight: one event each hour, which switches off the *)
(* second, and a period of 29 minutes with a time on the second weekday.   *)
EXTENDS SuctionSchedule

MCShifts == {-2, 2}

Config(form, week, hour, min) == [form |-> form, week |-> week, hour |-> hour, min |-> min]

MCTables == {EVT_Create(<<Config("hours", 0, 1, 56), Config("clock", 0, 23, 59)>>),
             EVT_Create(<<Config("off", 0, 0, 0), Config("minutes", 0, 0, 29),
                          Config("clock", 2, 0, 20)>>)}
=============================================================================
