\* A power cut between the adjustment and the flags, then a disarm.
SPECIFICATION Spec
CONSTANTS
  rise_time = 1
  hold_max_time = 1
  decrease_to_mid_time = 1
  hold_mid_time = 1
  decrease_to_zero_time = 1
  disarm_hold_mid_time = 2
  HalfMod = 8
  WordMod = 64
  MaxTime = 7
  FaultInWindow = TRUE
  WaitTimes <- MCWaitTimes
  DefaultWait = 1
INVARIANT AdjustmentIsZero
