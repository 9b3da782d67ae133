------------------------------- MODULE Timeline -------------------------------
(***************************************************************************)
(* The layout of the Gantt chart (views_gantt.rs): which days it spans,    *)
(* how the days fall into months, and where bars, milestones and the line  *)
(* of today are.  A span is the <<start, due>> of a task; positions are    *)
(* counted in days from the left edge, and in half days for what is        *)
(* centred on a day (the code divides them by the range, to a percentage). *)
(***************************************************************************)
EXTENDS Dates, FiniteSets, SequencesExt

(* Variant: the days as they are, though the start may be after the due date. *)
UnorderedDays(span) ==
    LET start == IsoDayNumber(span[1])
        due == IsoDayNumber(span[2])
        First(set, other) == CHOOSE n \in IF set # {} THEN set ELSE other : TRUE
    IN IF start \cup due = {} THEN <<>> ELSE <<First(start, due), First(due, start)>>

(* First and last day of a bar; none for a task without dates. *)
ScheduledTaskDays(span) ==
    LET days == IsoDayNumber(span[1]) \cup IsoDayNumber(span[2]) IN
    IF days = {} THEN <<>> ELSE <<Min(days), Max(days)>>

(* First and last day of the chart of some bars and milestone days. *)
TimelineBounds(bars, days) ==
    <<Min({b[1] : b \in bars} \cup days), Max({b[2] : b \in bars} \cup days)>>

(* The days of the chart that open a month heading: the first one, and each *)
(* whose month is not the one of the day before.                            *)
SegmentStarts(minDay, range) ==
    {n \in minDay..(minDay + range - 1) :
        n = minDay \/ Front(CivilFromDays(n)) # Front(CivilFromDays(n - 1))}

(* The headings that start at these days, the last one up to the day `after`. *)
MonthSegments(starts, after) ==
    LET start(i) == CHOOSE n \in starts : Cardinality({k \in starts : k <= n}) = i
        end(i) == IF i = Cardinality(starts) THEN after ELSE start(i + 1)
    IN [i \in 1..Cardinality(starts) |->
            [month |-> Front(CivilFromDays(start(i))), days |-> end(i) - start(i)]]

DayCenter(day, minDay) == 2 * Max({day - minDay, 0}) + 1
SpanLeft(start, minDay) == Max({start - minDay, 0})
SpanWidth(start, due) == Max({due - start + 1, 1})

TimelineRange(bounds) == Max({bounds[2] - bounds[1] + 1, 1})

(* The chart of bars and milestone days within their bounds. *)
Chart(bars, days, bounds, today) ==
    LET first == bounds[1]
        range == TimelineRange(bounds)
    IN [first |-> first, range |-> range,
        segments |-> MonthSegments(SegmentStarts(first, range), first + range),
        bars |-> {<<SpanLeft(b[1], first), SpanWidth(b[1], b[2])>> : b \in bars},
        marks |-> {DayCenter(d, first) : d \in days},
        today |-> IF today \in first..bounds[2] THEN {SpanLeft(today, first)} ELSE {}]

(* The chart of a set of tasks and of milestone dates (not both without dates). *)
GanttView(tasks, milestones, today) ==
    LET bars == {ScheduledTaskDays(t) : t \in tasks} \ {<<>>}
        days == UNION {IsoDayNumber(m) : m \in milestones}
    IN Chart(bars, days, TimelineBounds(bars, days), today)
=============================================================================
