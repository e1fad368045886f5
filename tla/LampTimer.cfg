\* TimerSwitchesOff is not kept.
SPECIFICATION Spec
CONSTANTS
  MaxLevel = 3
  LAMP_PWM_MIN_TRASHOLD = 1
INVARIANT TimerSwitchesOff
