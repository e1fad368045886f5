------------------------------- MODULE LedProofs -------------------------------
(***************************************************************************)
(* The LEDs of the board: the lamp's, for every number of PWM levels and   *)
(* every threshold, and the signal LED, for every number of blinks.        *)
(***************************************************************************)
EXTENDS Lamp, StatusLed, TLAPS

\* The steps between two lines of the worker's loop body.
Round == {"compare", "use", "write", "sleep"}

\* Unless the lamp has been changed since it was looked at, what the worker
\* carries from step to step is the brighter light; the light of a last round
\* is none; and the worker owns the PWM from its first round to its end.
LampInv ==
  /\ TypeOK
  /\ worker \in Round \cup {"light", "exit"} => lamp_alarm_active
  /\ worker = "none" => ~lamp_alarm_active
  /\ finished /\ worker \in Round \cup {"exit"} => led = 0
  /\ worker = "exit" => finished
  /\ worker = "use" /\ ~owed => led < lamp_led
  /\ worker = "write" /\ ~owed => arg = Brighter(led, lamp_led)
  /\ worker \in {"sleep", "exit"} /\ ~owed => ccr = Brighter(led, lamp_led)
  /\ worker = "none" /\ ~owed => ccr = lamp_led

\* At power on lamp and PWM are out.
LEMMA LampInit == Init => LampInv
PROOF
<1> SUFFICES ASSUME Init PROVE LampInv
  OBVIOUS
<1>1. 0 \in PWM
  BY LevelsAssumption DEF PWM
<1>2. TypeOK
  <2>1. {lamp_led, ccr, led, arg} \subseteq PWM
    BY <1>1 DEF Init
  <2>2. {lamp_alarm_active, finished, owed} \subseteq BOOLEAN
    BY Zenon DEF Init
  <2>3. timer = "off" /\ worker = "none"
    BY DEF Init
  <2> QED BY <2>1, <2>2, <2>3 DEF TypeOK, WorkerSteps
<1> QED BY <1>2 DEF Init, LampInv, Round

\* With no light of the alarm the brighter one is the lamp.
LEMMA BrighterThanNone ==
  ASSUME NEW l \in PWM PROVE Brighter(0, l) = l
  BY LevelsAssumption DEF Brighter, PWM

\* What lamp_set_leds leaves alone, and what it does to the invariant.
LEMMA LampChange ==
  ASSUME LampInv, NEW level \in PWM, lamp_set_leds(level), timer' \in {"off", "running"},
         UNCHANGED <<lamp_alarm_active, worker, led, finished, arg>>
  PROVE  LampInv'
PROOF
<1>1. lamp_led' \in PWM /\ owed' = lamp_alarm_active
  BY LevelsAssumption DEF lamp_set_leds, PWM
<1>2. CASE lamp_alarm_active
  BY <1>1, <1>2 DEF lamp_set_leds, LampInv, TypeOK, Round
<1>3. CASE ~lamp_alarm_active
  <2>1. ccr' = lamp_led'
    BY <1>3 DEF lamp_set_leds
  <2>2. worker \notin Round \cup {"light", "exit"}
    BY <1>3 DEF LampInv
  <2> QED BY <1>1, <1>3, <2>1, <2>2 DEF LampInv, TypeOK, Round
<1> QED BY <1>2, <1>3 DEF LampInv, TypeOK

\* Every step of worker, main and timer keeps what the worker carries.
LEMMA LampStep == LampInv /\ [Next]_vars => LampInv'
PROOF
<1> SUFFICES ASSUME LampInv, [Next]_vars PROVE LampInv'
  OBVIOUS
<1> USE DEF LampInv, TypeOK, Round, lampVars
<1>1. CASE WorkerStart
  BY <1>1 DEF WorkerStart, WorkerSteps
<1>2. CASE WorkerLight
  <2>1. 0 \in PWM
    BY LevelsAssumption DEF PWM
  <2>2. CASE led' \in PWM /\ finished' = FALSE
    BY <1>2, <2>2 DEF WorkerLight, WorkerSteps
  <2>3. CASE led' = 0 /\ finished' = TRUE
    BY <1>2, <2>1, <2>3 DEF WorkerLight, WorkerSteps
  <2> QED BY <1>2, <2>2, <2>3 DEF WorkerLight
<1>3. CASE WorkerCompare
  <2>1. CASE led >= lamp_led
    BY <1>3, <2>1 DEF WorkerCompare, WorkerSteps, Brighter
  <2>2. CASE ~(led >= lamp_led)
    <3>1. led < lamp_led
      BY <2>2, LevelsAssumption DEF PWM
    <3> QED BY <1>3, <2>2, <3>1 DEF WorkerCompare, WorkerSteps
  <2> QED BY <2>1, <2>2
<1>4. CASE WorkerUse
  <2>1. ~owed => lamp_led = Brighter(led, lamp_led)
    BY <1>4, LevelsAssumption DEF WorkerUse, Brighter, PWM
  <2> QED BY <1>4, <2>1 DEF WorkerUse, WorkerSteps
<1>5. CASE WorkerWrite
  BY <1>5 DEF WorkerWrite, WorkerSteps
<1>6. CASE WorkerWake
  BY <1>6 DEF WorkerWake, WorkerSteps
<1>7. CASE WorkerExit
  BY <1>7, BrighterThanNone DEF WorkerExit, WorkerSteps
<1>8. CASE NewWorker
  BY <1>8 DEF NewWorker, WorkerSteps
<1>9. ASSUME NEW level \in PWM, LampCommand(level)
      PROVE  LampInv'
  BY <1>9, LampChange DEF LampCommand
<1>10. CASE TimerExpires
  BY <1>10 DEF TimerExpires
<1>11. CASE TimerFires
  <2>1. 0 \in PWM
    BY LevelsAssumption DEF PWM
  <2> QED BY <1>11, <2>1, LampChange DEF TimerFires
<1>12. CASE UNCHANGED vars
  BY <1>12 DEF vars
<1> QED
  BY <1>1, <1>2, <1>3, <1>4, <1>5, <1>6, <1>7, <1>8, <1>9, <1>10, <1>11, <1>12
  DEF Next, Worker

\* The invariant holds in every state, whatever lamp commands come into a
\* round.
LEMMA LampInvariance == Spec => []LampInv
  BY LampInit, LampStep, PTL DEF Spec

\* Lamp, PWM and what the worker carries stay levels of the PWM, and the timer
\* and the worker in states they have, for every number of levels.
THEOREM TypeCorrect == Spec => []TypeOK
<1>1. LampInv => TypeOK
  BY DEF LampInv
<1> QED BY <1>1, LampInvariance, PTL

\* Whatever lamp commands, timer and new alarms do to a round of the worker: if
\* the lamp was not changed during it, the PWM shows the brighter of the two.
THEOREM AlwaysShowsBrighter == Spec => []ShowsBrighter
<1>1. LampInv => ShowsBrighter
  BY DEF LampInv, ShowsBrighter
<1> QED BY <1>1, LampInvariance, PTL

\* An alarm that ends gives the PWM back and leaves the lamp as it was set,
\* unless it was set in the alarm's last round.
THEOREM AlwaysShowsLamp == Spec => []ShowsLamp
<1>1. LampInv => ShowsLamp
  BY DEF LampInv, ShowsLamp
<1> QED BY <1>1, LampInvariance, PTL

------------------------------------------------------------------------------
(* The signal LED *)

\* The steps at which a blink is going on, or is over but not yet counted.
InBlink == {"on", "off", "load", "store"}

\* Blinks shown and blinks still to be shown are never more than were asked
\* for, and what the thread has loaded is not more than the count: a new alarm
\* that comes in between sets the count to its highest value and shown to zero.
\* The LED is lit by a blink, or by the worker while the thread is suspended
\* with nothing to do; the worker's light is still on when an alarm that
\* replaces the worker has just resumed the thread.
BlinkInv ==
  /\ LedTypeOK
  /\ thread \in InBlink => led_blink_count > 0 /\ shown + led_blink_count <= BlinkCount + 1
  /\ thread \notin InBlink => shown + led_blink_count <= BlinkCount
  /\ thread = "store" => loaded > 0 /\ loaded <= led_blink_count
  /\ thread \in {"suspend", "suspended"} /\ led_blink_count # 0 => lost
  /\ thread \in {"off", "load", "store", "suspend"} => ~signal_led
  /\ thread = "test" /\ signal_led => led_blink_count # 0
  /\ thread = "suspended" /\ signal_led => marked = "change" /\ led_blink_count = 0

\* At power on nothing blinks.
LEMMA BlinkInit ==
  ASSUME LedInit PROVE BlinkInv
PROOF
<1>1. {signal_led, lost} \subseteq BOOLEAN
  BY Zenon DEF LedInit
<1>2. {led_blink_count, loaded} \subseteq Counts /\ shown \in Counts
  BY BlinkAssumption DEF LedInit, Counts
<1>3. thread \in ThreadSteps /\ marked \in {"none", "new", "change", "steady"}
  BY DEF LedInit, ThreadSteps
<1>4. shown + led_blink_count <= BlinkCount
  BY BlinkAssumption DEF LedInit
<1>5. LedTypeOK
  BY <1>1, <1>2, <1>3 DEF LedTypeOK
<1> QED BY <1>4, <1>5 DEF LedInit, BlinkInv, InBlink

\* Blink, worker and new alarms keep the invariant, at every step of the thread.
LEMMA BlinkStep ==
  ASSUME BlinkInv, [LedNext]_ledVars PROVE BlinkInv'
PROOF
<1> USE BlinkAssumption DEF BlinkInv, LedTypeOK, InBlink, Counts, ThreadSteps
<1>1. CASE Test
  <2>1. CASE /\ led_blink_count # 0 /\ signal_led' = TRUE
             /\ shown' = OneMore(shown) /\ thread' = "on"
    <3>1. shown' = shown + 1
      BY <1>1, <2>1 DEF Test, OneMore
    <3> QED BY <1>1, <2>1, <3>1 DEF Test
  <2>2. CASE led_blink_count = 0 /\ thread' = "suspend" /\ UNCHANGED <<signal_led, shown>>
    BY <1>1, <2>2 DEF Test
  <2> QED BY <1>1, <2>1, <2>2 DEF Test
<1>2. CASE TurnOff
  BY <1>2 DEF TurnOff
<1>3. CASE WakeUp
  BY <1>3 DEF WakeUp
<1>4. CASE Load
  BY <1>4 DEF Load
<1>5. CASE Store
  BY <1>5 DEF Store
<1>6. CASE Suspend
  BY <1>6 DEF Suspend
<1>7. ASSUME NEW change \in BOOLEAN, Mark(change)
      PROVE  BlinkInv'
  <2>1. CASE led_blink_count = 0
    <3>1. thread = "suspended" /\ signal_led' = change
      BY <1>7, <2>1 DEF Mark, Asleep
    <3> QED BY <1>7, <2>1, <3>1 DEF Mark
  <2>2. CASE led_blink_count # 0
    BY <1>7, <2>2 DEF Mark, Asleep
  <2> QED BY <2>1, <2>2
<1>8. CASE Finish
  BY <1>8 DEF Finish, Asleep
<1>9. CASE NewAlarm
  <2>1. lost' \in BOOLEAN
    BY <1>9, Zenon DEF NewAlarm
  <2>2. thread = "suspend" => lost'
    BY <1>9, Zenon DEF NewAlarm
  <2>3. CASE thread = "suspended"
    BY <1>9, <2>1, <2>3 DEF NewAlarm
  <2>4. CASE thread # "suspended"
    <3>1. thread' = thread
      BY <1>9, <2>4 DEF NewAlarm
    <3>2. marked' = "new" /\ led_blink_count' = BlinkCount /\ shown' = 0
            /\ signal_led' = signal_led /\ loaded' = loaded
      BY <1>9 DEF NewAlarm
    <3> QED BY <2>1, <2>2, <2>4, <3>1, <3>2
  <2> QED BY <2>3, <2>4
<1>10. CASE UNCHANGED ledVars
  BY <1>10 DEF ledVars
<1> HIDE DEF BlinkInv, LedTypeOK, InBlink, Counts, ThreadSteps
<1> QED
  BY <1>1, <1>2, <1>3, <1>4, <1>5, <1>6, <1>7, <1>8, <1>9, <1>10, Zenon
  DEF LedNext, Thread

\* The invariant holds in every state.
LEMMA BlinkInvariance == LedSpec => []BlinkInv
<1>1. LedInit => BlinkInv
  BY BlinkInit
<1>2. BlinkInv /\ [LedNext]_ledVars => BlinkInv'
  BY BlinkStep
<1> QED BY <1>1, <1>2, PTL DEF LedSpec

\* The count, which is unsigned, is never decremented below zero, however often
\* it is set while it is being decremented.
THEOREM LedTypeCorrect == LedSpec => []LedTypeOK
<1>1. BlinkInv => LedTypeOK
  BY DEF BlinkInv
<1> QED BY <1>1, BlinkInvariance, PTL

\* led_gpio_enable of the worker, whose k_thread_suspend is there "in case of led
\* is already blinking", never comes into a blink.
THEOREM NeverFreezesABlink == LedSpec => []EnableFindsItSuspended
<1>1. BlinkInv => EnableFindsItSuspended
  BY DEF BlinkInv, EnableFindsItSuspended, Asleep, InBlink, LedTypeOK, Counts
<1> QED BY <1>1, BlinkInvariance, PTL

\* A blinking gets lost in one way only: led_gpio_blink just before the thread
\* suspends itself.
THEOREM LostInOneWay == LedSpec => []BlinksUnlessLost
<1>1. BlinkInv => BlinksUnlessLost
  BY DEF BlinkInv, BlinksUnlessLost
<1> QED BY <1>1, BlinkInvariance, PTL

\* No interleaving of led_gpio_blink with the decrement makes a blink too many.
THEOREM NeverTooMany == LedSpec => []NotTooMany
<1>1. BlinkInv => NotTooMany
  BY BlinkAssumption DEF BlinkInv, NotTooMany, InBlink, LedTypeOK, Counts
<1> QED BY <1>1, BlinkInvariance, PTL

\* After the last alarm the LED is dark, whatever blink or mark it was in when
\* the alarm came or ended.
THEOREM AlwaysDarkAtRest == LedSpec => []DarkAtRest
<1>1. BlinkInv => DarkAtRest
  BY DEF BlinkInv, DarkAtRest
<1> QED BY <1>1, BlinkInvariance, PTL
==============================================================================
