\* Power cuts between writes only: the system implements AlarmCore, and nobody
\* waits for ever.
SPECIFICATION FairSpec
CONSTANTS
  rise_time = 1
  hold_max_time = 1
  decrease_to_mid_time = 1
  hold_mid_time = 1
  decrease_to_zero_time = 1
  disarm_hold_mid_time = 2
  HalfMod = 8
  WordMod = 64
  MaxTime = 7
  FaultInWindow = FALSE
  WaitTimes <- MCWaitTimes
  DefaultWait = 1
INVARIANTS
  TypeOK
  MainNeverStuck
  DisarmWasAsked
PROPERTIES
  WaitersGoOn
  CoreSpec
