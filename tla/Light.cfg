\* What is on when an alarm is dimmed, with lamp commands and other alarms in
\* between.
SPECIFICATION Spec
CONSTANTS
  rise_time = 2
  hold_max_time = 1
  decrease_to_mid_time = 3
  hold_mid_time = 1
  decrease_to_zero_time = 2
  disarm_hold_mid_time = 1
  WordMod = 32
  MAX_TIM_PWM = 4
  MID_OUT_VAL = 3
  LAMP_PWM_MIN_TRASHOLD = 1
  LampPeriod = 3
  WaitTimes = {1}
  MaxTime = 10
INVARIANTS
  TypeOK
  DimsFromWhatWasOn
  DimmingIsBounded
  RampsMeetHolds
