SPECIFICATION Spec
CONSTANTS
  TaskIds = {t1, t2}
  Requests = {r1, r2}
  MaxKey = 102
  MaxPosition = 1
  MaxGrants = 1
  Patches <- SomePatches
  Drafts <- SmallDrafts
  Free = Free
  SampleYears <- CenturyYears
  SampleStarts <- WinterStarts
  SampleSpans <- ShortAndLong
  ChartDates <- LeapDates
CHECK_DEADLOCK FALSE
SYMMETRY TaskSymmetry
INVARIANTS TypeOK KeysNeverCollide PositionsNeverCollide MarkersNeverMultiply NothingWithoutTask DeadlocksNeedRewrite FollowUpDates TasksOnTheirDay BarsOnTheChart
