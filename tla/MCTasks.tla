------------------------------- MODULE MCTasks -------------------------------
(* TLC's instances of Tasks and of the dates of Schedule. *)
EXTENDS Schedule, TLC

TaskSymmetry == Permutations(TaskIds) \cup Permutations(Requests)
SmallDrafts == {{}, {0}}

(* A PATCH of one thing: a status or a recurrence, or the assignees alone; and a *)
(* completion that sets a recurrence, or the assignees.                          *)
SomePatches ==
    {<<"open", "keep", "keep">>, <<"done", "keep", "keep">>, <<"keep", "set", "keep">>,
     <<"keep", "clear", "keep">>, <<"keep", "keep", "only">>,
     <<"done", "set", "keep">>, <<"done", "keep", "set">>}

(* Leap years by all three rules, and the years around them. *)
CenturyYears == {1970, 1999, 2000, 2023, 2024, 2100}

(* Every day of the winters with and without a 29th of February. *)
WinterStarts ==
    DayNumber(<<2023, 12, 20>>)..DayNumber(<<2024, 3, 5>>)
        \cup DayNumber(<<2099, 12, 20>>)..DayNumber(<<2100, 3, 5>>)
ShortAndLong == {-3, 0, 1, 30, 60}

LeapDates == {NoDate, <<2023, 12, 30>>, <<2024, 2, 29>>, <<2024, 3, 1>>, <<2024, 4, 2>>}
=============================================================================
