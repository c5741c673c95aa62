---------------------------- MODULE TradingCalendar ----------------------------
(***************************************************************************)
(* The queries of one market's calendar (datasets/trading_calendar.py).    *)
(* Days are numbered; 0 stands for "not found", where the code raises.     *)
(***************************************************************************)
EXTENDS Naturals, FiniteSetsExt

CONSTANTS
    LastDay,     \* last day of the calendar
    TradingDays  \* days with an open session

ASSUME CalendarAssumption ==
    /\ LastDay \in Nat \ {0}
    /\ TradingDays \subseteq 1 .. LastDay

Days == 1 .. LastDay

PreviousDay(day, inclusive) ==
    Max({d \in TradingDays : d < day \/ (inclusive /\ d = day)} \union {0})

NextDay(day) == IF \E d \in TradingDays : d > day
                THEN Min({d \in TradingDays : d > day})
                ELSE 0

DaysBetween(first, last) == {d \in TradingDays : first <= d /\ d <= last}
=============================================================================
