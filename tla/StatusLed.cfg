\* The signal LED between an alarm that marks changes and alarms that replace it.
SPECIFICATION LedSpec
CONSTANT BlinkCount = 5
INVARIANTS
  EnableFindsItSuspended
  BlinksUnlessLost
  NotTooMany
  DarkAtRest
PROPERTY BlinkingEnds
