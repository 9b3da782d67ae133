--------------------------------- MODULE Dates ---------------------------------
(***************************************************************************)
(* The calendars of the program, as pure operators: how the server moves   *)
(* the dates of a recurring task (recurrence.rs, by the chrono library),   *)
(* how the client turns a date into a day number and back (i18n.rs) and    *)
(* lays a month out (views_timeline.rs).  A date is <<year, month, day>>,  *)
(* which is what its ISO string spells; a missing date is NoDate.          *)
(***************************************************************************)
EXTENDS Integers, Sequences, FiniteSetsExt

NoDate == <<>>
Recurrences == {"daily", "weekly", "biweekly", "monthly"}

(* Variant: the year 2100 is a leap year.  (Each "Variant" is a change of the *)
(* definition after it that a property of Schedule must reject.)              *)
JulianDaysInMonth(year, month) ==
    IF month = 2 THEN IF year % 4 = 0 THEN 29 ELSE 28
    ELSE IF month \in {4, 6, 9, 11} THEN 30 ELSE 31

DaysInMonth(year, month) ==
    IF month = 2 THEN IF (year % 4 = 0 /\ year % 100 # 0) \/ year % 400 = 0 THEN 29 ELSE 28
    ELSE IF month \in {4, 6, 9, 11} THEN 30 ELSE 31

-----------------------------------------------------------------------------
(* The Gregorian calendar as chrono has it, counted in days since 1970-01-01. *)

LeapYearsBefore(y) == (y - 1) \div 4 - (y - 1) \div 100 + (y - 1) \div 400

YearStart(y) == 365 * (y - 1970) + LeapYearsBefore(y) - LeapYearsBefore(1970)

MonthLength(y, m) ==
    IF m = 2 THEN 28 + YearStart(y + 1) - YearStart(y) - 365
    ELSE IF m \in {4, 6, 9, 11} THEN 30 ELSE 31

MonthStart(y, m) ==
    YearStart(y) + (IF m > 2 THEN MonthLength(y, 2) - 28 ELSE 0)
        + <<0, 31, 59, 90, 120, 151, 181, 212, 243, 273, 304, 334>>[m]

DayNumber(date) == MonthStart(date[1], date[2]) + date[3] - 1

(* Years of 365 to 366 days from 1970, forwards or back. *)
YearsNear(n) ==
    (1970 + n \div 366)..(1970 + n \div 365) \cup (1970 + n \div 365)..(1970 + n \div 366)

DateOf(n) ==
    LET y == CHOOSE k \in YearsNear(n) : YearStart(k) <= n /\ n < YearStart(k + 1)
        m == CHOOSE k \in 1..12 : MonthStart(y, k) <= n /\ n < MonthStart(y, k) + MonthLength(y, k)
    IN <<y, m, n - MonthStart(y, m) + 1>>

AddDays(date, n) == DateOf(DayNumber(date) + n)

(* checked_add_months(1): the same day of the next month, or its last day. *)
AddMonth(date) ==
    LET y == IF date[2] = 12 THEN date[1] + 1 ELSE date[1]
        m == IF date[2] = 12 THEN 1 ELSE date[2] + 1
    IN <<y, m, Min({date[3], MonthLength(y, m)})>>

-----------------------------------------------------------------------------
(* The dates of a follow-up *)

ShiftDate(date, recurrence) ==
    IF recurrence = "monthly" THEN AddMonth(date)
    ELSE AddDays(date, [daily |-> 1, weekly |-> 7, biweekly |-> 14][recurrence])

ShiftedStartDate(start, recurrence) ==
    IF start = NoDate THEN NoDate ELSE ShiftDate(start, recurrence)

(* Variant: the due date moves by itself, whatever the start. *)
DueByItself(start, due, recurrence) ==
    IF due = NoDate THEN NoDate ELSE ShiftDate(due, recurrence)

ShiftedDueDate(start, due, recurrence) ==
    IF due = NoDate THEN NoDate
    ELSE IF start # NoDate /\ recurrence = "monthly"
         THEN AddDays(ShiftDate(start, recurrence), DayNumber(due) - DayNumber(start))
         ELSE ShiftDate(due, recurrence)

-----------------------------------------------------------------------------
(* The client's calendar *)

Quotient(a, b) == IF a >= 0 THEN a \div b ELSE -((-a) \div b)  \* rounds to zero

(* Which era of this length, in years or days, downwards before the year 0 too. *)
Era(a, length) == Quotient(IF a >= 0 THEN a ELSE a - (length - 1), length)

DaysFromCivil(date) ==
    LET m == date[2]
        y == date[1] - (IF m <= 2 THEN 1 ELSE 0)
        era == Era(y, 400)
        yoe == y - era * 400
        doy == (153 * ((m + 9) % 12) + 2) \div 5 + date[3] - 1
        doe == yoe * 365 + yoe \div 4 - yoe \div 100 + doy
    IN era * 146097 + doe - 719468

CivilFromDays(day) ==
    LET z == day + 719468
        era == Era(z, 146097)
        doe == z - era * 146097
        yoe == (doe - doe \div 1460 + doe \div 36524 - doe \div 146096) \div 365
        doy == doe - (365 * yoe + yoe \div 4 - yoe \div 100)
        mp == (5 * doy + 2) \div 153
        m == IF mp < 10 THEN mp + 3 ELSE mp - 9
    IN <<yoe + era * 400 + (IF m <= 2 THEN 1 ELSE 0), m, doy - (153 * mp + 2) \div 5 + 1>>

(* A year before 0 is spelled with the sign that separates the parts. *)
ParseIso(date) ==
    IF /\ date # NoDate
       /\ date[1] >= 0
       /\ date[2] \in 1..12
       /\ date[3] \in 1..DaysInMonth(date[1], date[2])
    THEN date ELSE NoDate

(* The day number of a date, none for a missing or impossible one: a set of at *)
(* most one element.                                                            *)
IsoDayNumber(date) == IF ParseIso(date) = NoDate THEN {} ELSE {DaysFromCivil(date)}

PrevMonth(c) == IF c[2] = 1 THEN <<c[1] - 1, 12>> ELSE <<c[1], c[2] - 1>>
NextMonth(c) == IF c[2] = 12 THEN <<c[1] + 1, 1>> ELSE <<c[1], c[2] + 1>>

(* Monday is 0. *)
WeekdayIndex(day) == (day + 3) % 7

IsWeekend(day) == WeekdayIndex(day) >= 5

MonthOffset(c) == WeekdayIndex(DaysFromCivil(<<c[1], c[2], 1>>))

Blank == <<>>  \* a cell without a day

(* The cells of a month, seven to a row: blank ones, then one for each day. *)
CalendarGrid(c) ==
    [i \in 1..MonthOffset(c) |-> Blank] \o [d \in 1..DaysInMonth(c[1], c[2]) |-> <<c[1], c[2], d>>]

VisibleItems == 4  \* CALENDAR_VISIBLE_ITEMS

(* What the cell of a day shows of its items: how many chips, and the number *)
(* on the button for the others (0: no such button).                         *)
CellShows(total, expanded) ==
    [chips |-> Min({total, IF expanded THEN total ELSE VisibleItems}),
     more |-> IF total <= VisibleItems \/ expanded THEN 0 ELSE total - VisibleItems]
=============================================================================
