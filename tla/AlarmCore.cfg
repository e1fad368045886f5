\* Safety of the alarm and its refinement of AlarmTimeline, and that every
\* alarm ends.
SPECIFICATION FairSpec
CONSTANTS
  rise_time = 3
  hold_max_time = 1
  decrease_to_mid_time = 2
  hold_mid_time = 4
  decrease_to_zero_time = 2
  disarm_hold_mid_time = 3
  WordMod = 32
  MaxTime = 16
  WaitTimes <- MCWaitTimes
INVARIANTS
  TypeOK
  NoAssert
  Deadline
  DisarmedNotBright
  Consistent
  CrossTestPasses
PROPERTIES
  DisarmKept
  TimelineSpec
  EveryAlarmEnds
