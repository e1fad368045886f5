\* Windows of 6 and 12 reads, in the firmware of 8 and 64.
SPECIFICATION Spec
CONSTANTS
  BUTTON_READS_STD = 5
  BUTTON_READS_STD_TRASHOLD = 3
  BUTTON_READS_LONG = 11
  BUTTON_READS_LONG_TRASHOLD = 7
INVARIANTS
  RestedPressCallsBack
  BootPressNeverCallsBack
