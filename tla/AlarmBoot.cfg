\* The first power on, power cuts at any point, and CNTL running over.
SPECIFICATION BootSpec
CONSTANTS
  rise_time = 1
  hold_max_time = 1
  decrease_to_mid_time = 1
  hold_mid_time = 1
  decrease_to_zero_time = 1
  disarm_hold_mid_time = 2
  HalfMod = 4
  WordMod = 16
  MaxTime = 7
  FaultInWindow = TRUE
  WaitTimes <- MCWaitTimes
  DefaultWait = 0
INVARIANTS
  ClockOK
  OnlyScheduled
  FailsOnlyWhenTorn
  DisarmedNotBright
