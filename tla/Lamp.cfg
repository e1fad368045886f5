\* The lamp and the alarm share the PWM.
SPECIFICATION FairSpec
CONSTANTS
  MaxLevel = 3
  LAMP_PWM_MIN_TRASHOLD = 1
INVARIANTS
  ShowsBrighter
  ShowsLamp
PROPERTIES
  LampIsShown
