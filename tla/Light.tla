-------------------------------- MODULE Light --------------------------------
(***************************************************************************)
(* How bright the two LEDs are: the brightness model of                    *)
(* src/brightness-model/brightness-unified-model.c, between the alarm that *)
(* asks for ramps and the PWM that the alarm and the lamp share.           *)
(*                                                                         *)
(* A disarm dims the alarm from the brightness that is on.  What is on is  *)
(* read from the PWM and kept in the static variables pev_ops and          *)
(* cached_value, which the alarm worker and the lamp commands of main both *)
(* go through; main runs between any two steps of the worker and is never  *)
(* interrupted by it.                                                      *)
(***************************************************************************)
EXTENDS CoreModel

CONSTANTS
  MAX_TIM_PWM,            \* the highest value of a PWM channel
  MID_OUT_VAL,            \* the middle brightness, both channels together
  LAMP_PWM_MIN_TRASHOLD,  \* a lamp this low is switched off
  LampPeriod,             \* lamp commands ask for 0 .. LampPeriod - 1
  WaitTimes,              \* the wait times alarms are scheduled with
  MaxTime                 \* bound: where the modelled RTC stops

MAX_OUT_VAL == MAX_TIM_PWM * 2

ASSUME LightAssumption ==
  /\ {MAX_TIM_PWM, LAMP_PWM_MIN_TRASHOLD, MaxTime} \subseteq Nat
  /\ MID_OUT_VAL \in 0 .. MAX_OUT_VAL
  /\ LampPeriod \in Nat \ {0, 1}
  /\ MaxTime < WordMod /\ WaitTimes \subseteq Word

VARIABLES
  rtc,                \* RTC CNTH:CNTL
  wait,               \* alarm_params.wait_time
  io,                 \* the alarm's struct core_model_io, and what is stored of it
  worker,             \* what alarm_sched_worker does next
  pev_ops,            \* what the last ramp that was asked for started from
  cached_value,       \* the brightness that was on when the PWM was last read
  value_from,         \* what the worker's ramp starts from
  led,                \* the two values it has computed
  lamp_led,           \* lamp_led0, lamp_led1
  lamp_alarm_active,  \* whether the worker owns the PWM
  ccr,                \* TIM3->CCR4, CCR3
  start,              \* history: the PWM when the present dimming began
  peak,               \* history: the highest it has shown since
  quiet,              \* history: no lamp command has come since
  leftover            \* history: pev_ops was left behind by the dimming of an
                      \* alarm that was dropped

history == <<start, peak, quiet, leftover>>
vars == <<rtc, wait, io, worker, pev_ops, cached_value, value_from, led, lamp_led,
          lamp_alarm_active, ccr, history>>

PWM   == 0 .. MAX_TIM_PWM
Total(leds) == leds[1] + leds[2]

TypeOK ==
  /\ rtc \in 0 .. MaxTime /\ wait \in WaitTimes
  /\ io \in IO
  /\ worker \in {"none", "start", "model", "sample", "remember", "leds", "exit"}
  /\ pev_ops \in Levels
  /\ {cached_value, value_from, start, peak} \subseteq 0 .. MAX_OUT_VAL
  /\ {led, lamp_led, ccr} \subseteq PWM \X PWM
  /\ {lamp_alarm_active, quiet, leftover} \subseteq BOOLEAN

------------------------------------------------------------------------------
(* The brightness model *)

AtMost(bound, x) == IF x > bound THEN bound ELSE x

set_sequential(value) ==
  LET v == AtMost(MAX_OUT_VAL, value)
  IN  IF v < MAX_TIM_PWM THEN <<v, 0>> ELSE <<MAX_TIM_PWM, v - MAX_TIM_PWM>>

\* Shares the brightness out without halving it.
Badset_parallel(value) == <<AtMost(MAX_OUT_VAL, value), AtMost(MAX_OUT_VAL, value)>>

set_parallel(value) ==
  LET half == AtMost(MAX_OUT_VAL, value) \div 2
  IN  <<half, half>>

Value(ops) == CASE ops = "MID" -> MID_OUT_VAL
                [] ops = "MAX" -> MAX_OUT_VAL
                [] OTHER       -> 0

\* pow of libm, on natural numbers.
pow(base, exponent) ==
  LET power[n \in Nat] == IF n = 0 THEN 1 ELSE base * power[n - 1]
  IN  power[exponent]

\* round(pow(span + 1, curr / (period - 1))), which is what the logarithms come
\* to: the natural number that is less than a half away.
Round(span, curr, period) ==
  LET q == period - 1
      x == pow(2, q) * pow(span + 1, curr)
  IN  CHOOSE r \in 1 .. span + 1 : pow(2 * r - 1, q) <= x /\ x < pow(2 * r + 1, q)

\* Without the "- 1" that makes the ramp begin at its lower end.
BadRamp(from, to, period, xlate_value) ==
  LET curr == AtMost(period - 1, xlate_value)
  IN  IF from < to
      THEN from + Round(to - from, curr, period)
      ELSE to + Round(from - to, period - curr - 1, period)

\* From one value to another along a logarithmic curve.
Ramp(from, to, period, xlate_value) ==
  LET curr == AtMost(period - 1, xlate_value)
  IN  IF from < to
      THEN from + Round(to - from, curr, period) - 1
      ELSE to + Round(from - to, period - curr - 1, period) - 1

\* brightness_log_xlate_to_2_auto: one LED after the other on the way up, both
\* together on the way down.
AutoLeds(from, to, period, xlate_value) ==
  LET value == Ramp(from, to, period, xlate_value)
  IN  IF from < to THEN set_sequential(value) ELSE set_parallel(value)

\* brightness_log_xlate_to_2, as the lamp commands use it.
Lamp(type, brightnes) ==
  LET value == Ramp(Value("OFF"), Value("MAX"), LampPeriod, brightnes)
      leds  == set_sequential(value)
  IN  CASE type = "parallel" -> set_parallel(value)
        [] type = "warm"     -> leds
        [] type = "cold"     -> <<leds[2], leds[1]>>

------------------------------------------------------------------------------
\* After the first power on, no alarm and no lamp.
Init ==
  /\ rtc = 0 /\ wait \in WaitTimes
  /\ io = StartIO(A_ALARM_POR_VALUE, 0)
  /\ worker = "none"
  /\ pev_ops = "OFF" /\ cached_value = 0 /\ value_from = 0
  /\ led = <<0, 0>> /\ lamp_led = <<0, 0>> /\ ccr = <<0, 0>>
  /\ lamp_alarm_active = FALSE
  /\ start = 0 /\ peak = 0 /\ quiet = TRUE /\ leftover = FALSE

\* Nothing is being dimmed.
NoHistory == start' = 0 /\ peak' = 0 /\ quiet' = TRUE /\ leftover' = FALSE

lampVars  == <<lamp_led, lamp_alarm_active>>
alarmVars == <<rtc, wait, io>>
statics   == <<pev_ops, cached_value>>

\* Only WorkerModel reads the RTC: seconds that pass at its other steps are as
\* good as seconds that pass before the next round.
Tick ==
  /\ rtc < MaxTime
  /\ worker = "model"
  /\ rtc' = rtc + 1
  /\ UNCHANGED <<wait, io, worker, statics, value_from, led, lampVars, ccr, history>>

------------------------------------------------------------------------------
(* The worker *)

\* What the round has computed is not used again.
ForgetLocals == value_from' = 0 /\ led' = <<0, 0>>

WorkerStart ==
  /\ worker = "start"
  /\ lamp_alarm_active' = TRUE
  /\ worker' = "model"
  /\ UNCHANGED <<alarmVars, statics, value_from, led, lamp_led, ccr, history>>

Dims(light) == light.from = "THIS_OR_OFF"

\* The model with or without a disarm, the write-back, and what
\* brightness_log_xlate_to_2_auto does before it asks what the ramp starts from:
\* a steady light and a ramp of no length go no further.
WorkerModel(disarm) ==
  /\ worker = "model"
  /\ io' = do_alarm_model(rtc, IF disarm THEN set_disarm_new(io) ELSE io, wait)
  /\ LET light == io'.light
     IN  /\ \/ /\ light.from = light.to
               /\ led' = set_parallel(Value(light.to)) /\ worker' = "leds"
            \/ /\ light.from # light.to /\ light.period < 2
               /\ led' = set_parallel(Value("OFF")) /\ worker' = "leds"
            \/ /\ light.from # light.to /\ light.period >= 2
               /\ worker' = "sample" /\ UNCHANGED led
         /\ \/ Dims(light) /\ Dims(io.light) /\ UNCHANGED history
            \/ /\ Dims(light) /\ ~Dims(io.light)
               /\ start' = Total(ccr) /\ peak' = Total(ccr)
               /\ quiet' = TRUE /\ leftover' = (pev_ops = "THIS_OR_OFF")
            \/ ~Dims(light) /\ NoHistory
  /\ UNCHANGED <<rtc, wait, statics, value_from, lampVars, ccr>>

\* Takes the first dimming since power on for a later one of a row.
BadWorkerSample ==
  /\ worker = "sample"
  /\ IF Dims(io.light)
     THEN /\ cached_value' = IF pev_ops = "THIS_OR_OFF"
                             THEN AtMost(MAX_OUT_VAL, Total(ccr)) ELSE cached_value
          /\ value_from' = cached_value'
     ELSE value_from' = Value(io.light.from) /\ UNCHANGED cached_value
  /\ worker' = "remember"
  /\ UNCHANGED <<alarmVars, pev_ops, led, lampVars, ccr, history>>

\* brightnes_from_get_value, get_this_or_off_value: pev_ops is read ...
WorkerSample ==
  /\ worker = "sample"
  /\ IF Dims(io.light)
     THEN /\ cached_value' = IF pev_ops # "THIS_OR_OFF"
                             THEN AtMost(MAX_OUT_VAL, Total(ccr)) ELSE cached_value
          /\ value_from' = cached_value'
     ELSE value_from' = Value(io.light.from) /\ UNCHANGED cached_value
  /\ worker' = "remember"
  /\ UNCHANGED <<alarmVars, pev_ops, led, lampVars, ccr, history>>

\* Does not remember that it has read the PWM.
BadWorkerRemember ==
  /\ worker = "remember"
  /\ led' = AutoLeds(value_from, Value(io.light.to), io.light.period, io.light.curr)
  /\ worker' = "leds"
  /\ UNCHANGED <<alarmVars, pev_ops, cached_value, value_from, lampVars, ccr, history>>

\* ... and written, and the ramp computed.
WorkerRemember ==
  /\ worker = "remember"
  /\ pev_ops' = io.light.from
  /\ led' = AutoLeds(value_from, Value(io.light.to), io.light.period, io.light.curr)
  /\ worker' = "leds"
  /\ UNCHANGED <<alarmVars, cached_value, value_from, lampVars, ccr, history>>

\* alarm_set_leds
WorkerLeds ==
  /\ worker = "leds"
  /\ ccr' = [i \in 1 .. 2 |-> IF led[i] >= lamp_led[i] THEN led[i] ELSE lamp_led[i]]
  /\ peak' = IF Dims(io.light) /\ Total(ccr') > peak THEN Total(ccr') ELSE peak
  /\ worker' = IF alarm_finished(io) THEN "exit" ELSE "model"
  /\ ForgetLocals
  /\ UNCHANGED <<alarmVars, statics, lampVars, start, quiet, leftover>>

WorkerExit ==
  /\ worker = "exit"
  /\ lamp_alarm_active' = FALSE
  /\ worker' = "none"
  /\ UNCHANGED <<alarmVars, statics, value_from, led, lamp_led, ccr, history>>

Worker == WorkerStart \/ (\E disarm \in BOOLEAN : WorkerModel(disarm))
            \/ WorkerSample \/ WorkerRemember \/ WorkerLeds \/ WorkerExit

------------------------------------------------------------------------------
(* Everybody else *)

lamp_set_leds(leds) ==
  /\ lamp_led' = [i \in 1 .. 2 |->
                    IF leds[i] <= LAMP_PWM_MIN_TRASHOLD THEN 0 ELSE leds[i]]
  /\ ccr' = IF lamp_alarm_active THEN ccr ELSE lamp_led'

\* alarm_lamp_mode.  Its own ramp starts from OFF, and pev_ops says so.
LampCommand(type, brightnes) ==
  /\ pev_ops' = "OFF"
  /\ lamp_set_leds(Lamp(type, brightnes))
  /\ quiet' = (quiet /\ ~Dims(io.light))
  /\ UNCHANGED <<alarmVars, worker, cached_value, value_from, led, lamp_alarm_active,
                 start, peak, leftover>>

\* lamp_timer_handler
LampTimer ==
  /\ lamp_set_leds(<<0, 0>>)
  /\ UNCHANGED <<alarmVars, worker, statics, value_from, led, lamp_alarm_active, history>>

\* alarm_init_new_new: the worker is dropped wherever it is.
NewAlarm(w) ==
  /\ rtc' = 0 /\ wait' = w
  /\ io' = StartIO(A_ALARM_NEW, 0)
  /\ worker' = "start"
  /\ ForgetLocals /\ NoHistory
  /\ UNCHANGED <<statics, lampVars, ccr>>

\* Power is cut and comes back: the static variables, the lamp and the PWM
\* begin anew, the alarm goes on if it was not over.
PowerFault ==
  /\ io' = StartIO(io.info, io.adj)
  /\ worker' = IF alarm_finished(io) THEN "none" ELSE "start"
  /\ pev_ops' = "OFF" /\ cached_value' = 0
  /\ lamp_led' = <<0, 0>> /\ ccr' = <<0, 0>>
  /\ lamp_alarm_active' = FALSE
  /\ ForgetLocals /\ NoHistory
  /\ UNCHANGED <<rtc, wait>>

Next ==
  \/ Tick
  \/ Worker
  \/ \E type \in {"parallel", "warm", "cold"}, brightnes \in 0 .. LampPeriod - 1 :
       LampCommand(type, brightnes)
  \/ LampTimer
  \/ \E w \in WaitTimes : NewAlarm(w)
  \/ PowerFault

Spec == Init /\ [][Next]_vars

------------------------------------------------------------------------------
(* Properties *)

Ramping == worker = "leds" /\ io.light.from # io.light.to /\ io.light.period >= 2

\* However many rounds a dimming takes, and whatever alarm it follows, it is one
\* ramp from the light that was on at its beginning to the middle, unless a
\* lamp command comes in between or pev_ops was left over from another alarm.
DimsFromWhatWasOn ==
  Ramping /\ Dims(io.light) /\ quiet /\ ~leftover =>
    led = AutoLeds(start, MID_OUT_VAL, io.light.period, io.light.curr)

\* With lamp commands in between, too, a dimming never asks for more light than
\* there has been since it began, or than the middle.
DimmingIsBounded ==
  Ramping /\ Dims(io.light) /\ ~leftover =>
    Total(led) <= peak \/ Total(led) <= MID_OUT_VAL

\* Ramps join the steady lights before and after them: the first second of one
\* shows what it comes from, the last what it leads to, a lost half excepted.
RampsMeetHolds ==
  Ramping =>
    /\ io.light.curr = 0 => value_from - Total(led) \in {0, 1}
    /\ io.light.curr = io.light.period - 1 =>
         Value(io.light.to) - Total(led) \in {0, 1}
==============================================================================
