------------------------------- MODULE Schedule -------------------------------
(***************************************************************************)
(* The tasks of a project with their dates: Tasks has the control of the   *)
(* requests, Dates and Timeline what is computed from the dates.  Dates do  *)
(* not steer any request, so they are not part of the state: a property     *)
(* about them quantifies over the dates a task may have when it is stored,  *)
(* copied or shown.                                                         *)
(***************************************************************************)
EXTENDS Tasks, Timeline

CONSTANTS
    SampleYears,  \* years whose every day and month is checked
    SampleStarts, \* day numbers of start dates
    SampleSpans,  \* days from a start date to the due date
    ChartDates    \* the dates of two charted tasks and a milestone, NoDate among them

ASSUME ScheduleAssumption ==
    /\ SampleYears \subseteq Int
    /\ SampleStarts \subseteq Int
    /\ SampleSpans \subseteq Int
    /\ \A n \in SampleStarts, span \in SampleSpans :
        \A date \in {DateOf(n), DateOf(n + span)} : ParseIso(date) = date
    /\ \A date \in ChartDates \ {NoDate} :
        date \in Int \X Int \X Int /\ ParseIso(date) = date  \* a date there is

-----------------------------------------------------------------------------
(* Properties *)

StepDays(recurrence) ==
    IF recurrence = "monthly" THEN 28..31
    ELSE {[daily |-> 1, weekly |-> 7, biweekly |-> 14][recurrence]}

MovedOn(old, new, recurrence) ==
    /\ DayNumber(new) - DayNumber(old) \in StepDays(recurrence)
    /\ IsoDayNumber(new) = {DayNumber(new)}

FollowUpKept(start, due, recurrence) ==
    LET s == ShiftedStartDate(start, recurrence)
        d == ShiftedDueDate(start, due, recurrence)
    IN
    /\ (s = NoDate) = (start = NoDate)
    /\ (d = NoDate) = (due = NoDate)
    /\ start # NoDate => MovedOn(start, s, recurrence)
    /\ start = NoDate /\ due # NoDate => MovedOn(due, d, recurrence)
    /\ start # NoDate /\ due # NoDate =>
        /\ DayNumber(d) - DayNumber(s) = DayNumber(due) - DayNumber(start)
        /\ IsoDayNumber(d) = {DayNumber(d)}

AllFollowUpsKept ==
    \A n \in SampleStarts, span \in SampleSpans, rec \in Recurrences :
        /\ FollowUpKept(DateOf(n), DateOf(n + span), rec)
        /\ FollowUpKept(DateOf(n), NoDate, rec)
        /\ FollowUpKept(NoDate, DateOf(n), rec)

(* recurrence.rs:164: whatever dates a completed task has, from the year 0 on,  *)
(* the follow-up that is inserted for it lies one step later, takes as many days *)
(* as it did, also over the ends of short months, and has dates the client's     *)
(* calendar reads as the same days.                                              *)
FollowUpDates ==
    \A r \in Requests : pc[r] = "insert_follow_up" => AllFollowUpsKept

Monday == DayNumber(<<2024, 1, 1>>)

GridRight(c) ==
    LET grid == CalendarGrid(c)
        cells == {i \in DOMAIN grid : grid[i] # Blank}
    IN
    /\ PrevMonth(NextMonth(c)) = c /\ NextMonth(PrevMonth(c)) = c
    /\ Cardinality(cells) = MonthLength(c[1], c[2])
    /\ \A i \in cells : (i - 1) % 7 = (DayNumber(grid[i]) - Monday) % 7
    /\ \A i \in cells : IsWeekend(DayNumber(grid[i])) <=> (i - 1) % 7 \in {5, 6}
    /\ MonthOffset(NextMonth(c)) = Len(grid) % 7

CalendarRight ==
    /\ \A y \in SampleYears :
        /\ \A n \in YearStart(y)..(YearStart(y + 1) - 1) :
            DaysFromCivil(DateOf(n)) = n /\ CivilFromDays(n) = DateOf(n)
        /\ \A m \in 1..12 : GridRight(<<y, m>>)
    /\ \A total \in 0..(2 * VisibleItems) :
        LET shows == CellShows(total, FALSE) IN
        shows.chips + shows.more = total /\ CellShows(total, TRUE).chips = total

(* i18n.rs:323 and views_timeline.rs: while there is a task to show, the client's *)
(* day arithmetic agrees with the server's calendar on every day, both ways, and   *)
(* the month view has each day once, under its weekday, month after month.         *)
TasksOnTheirDay == (\E t \in TaskIds : Present(t)) => CalendarRight

(* The day after the first i headings, which stand side by side. *)
HeadingEnd(first, segments, i) ==
    LET end[k \in 0..i] == IF k = 0 THEN first ELSE end[k - 1] + segments[k].days
    IN end[i]

(* The headings cover the days from first up to the end, each under its month. *)
HeadingsFit(first, after, segments) ==
    /\ HeadingEnd(first, segments, Len(segments)) = after
    /\ \A i \in DOMAIN segments :
        \A n \in HeadingEnd(first, segments, i - 1)..(HeadingEnd(first, segments, i) - 1) :
            Front(DateOf(n)) = segments[i].month

DaysOf(dates) == {DayNumber(d) : d \in {dates[1], dates[2]} \ {NoDate}}

ChartFits(chart, tasks) ==
    /\ \A b \in chart.bars : b[1] + b[2] <= chart.range
    /\ \A mark \in chart.marks : mark < 2 * chart.range
    /\ \A left \in chart.today : left < chart.range
    /\ HeadingsFit(chart.first, chart.first + chart.range, chart.segments)
    /\ \A t \in tasks : DaysOf(t) # {} =>
        \E b \in chart.bars : \A day \in DaysOf(t) :
            day - chart.first \in b[1]..(b[1] + b[2] - 1)

AllChartsFit ==
    \A s, t \in ChartDates \X ChartDates, m \in ChartDates :
        {s[1], s[2], t[1], t[2], m} # {NoDate} =>
            ChartFits(GanttView({s, t}, {m}, Monday), {s, t})

(* views_gantt.rs: whatever dates the stored tasks and milestones have, also a  *)
(* start after the due date or one date only, each bar covers its dates and all  *)
(* bars, marks and month headings lie on the chart, under the days they name.    *)
BarsOnTheChart == (\E t \in TaskIds : Present(t)) => AllChartsFit
=============================================================================
