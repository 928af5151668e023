---------------------------- MODULE MCSchedules -----------------------------
(* Instances of Schedules for TLC.                                         *)
EXTENDS SchedulesRefines, TLC

CONSTANTS n1, n2, n1Blank, f1, f2, x1, h1, h2, b1

\* One of the names has blanks, and is n1 without them.
Stripped(n) == IF n = n1Blank THEN n1 ELSE n

OneName == {n1}
TwoNames == {n1, n2}
BlankName == {n1, n1Blank}
OneFlow == {f1}
TwoFlows == {f1, f2}
OneSpec == {x1}
OneHandler == {h1}
TwoHandlers == {h1, h2}
OneCallback == {b1}
NoCallback == {}
=============================================================================
