-------------------------------- MODULE Lamp --------------------------------
(***************************************************************************)
(* The light as a lamp and as an alarm: the PWM compare registers that the *)
(* alarm worker, the lamp commands of the host and the lamp timer share    *)
(* (src/main.c, "cached LAMP leds values" and after).                      *)
(*                                                                         *)
(* The worker has the lowest priority: main, which handles the commands,   *)
(* and the timer handler, which is an ISR, run between any two of its      *)
(* memory accesses, and neither is ever interrupted by it.  A command      *)
(* restarts the timer before it does anything else and four hours pass     *)
(* before it expires, so a command and the handler do not interleave.      *)
(*                                                                         *)
(* One PWM channel stands for both: the code treats them alike, one after  *)
(* the other.                                                              *)
(***************************************************************************)
EXTENDS Integers

CONSTANTS
  MaxLevel,             \* the highest PWM value
  LAMP_PWM_MIN_TRASHOLD \* a lamp this low is switched off

ASSUME LevelsAssumption ==
  MaxLevel \in Nat /\ LAMP_PWM_MIN_TRASHOLD \in 0 .. MaxLevel

VARIABLES
  lamp_led,           \* lamp_led0/1: what the lamp alone would show
  lamp_alarm_active,  \* whether the worker owns the PWM
  ccr,                \* TIM3->CCR4/3
  timer,              \* the lamp timer: "off", "running" or "expired"
  worker,             \* what alarm_sched_worker does next
  led,                \* the value it has computed
  finished,           \* alarm_finished in this round of its loop
  arg,                \* its argument of raw_set_leds
  owed                \* history: lamp_led was left to the worker to show, which
                      \* has not looked at it since

vars == <<lamp_led, lamp_alarm_active, ccr, timer, worker, led, finished, arg, owed>>

PWM == 0 .. MaxLevel
WorkerSteps == {"none", "start", "light", "compare", "use", "write", "sleep", "exit"}

Brighter(a, b) == IF a >= b THEN a ELSE b

TypeOK ==
  /\ {lamp_led, ccr, led, arg} \subseteq PWM
  /\ {lamp_alarm_active, finished, owed} \subseteq BOOLEAN
  /\ timer \in {"off", "running", "expired"}
  /\ worker \in WorkerSteps

\* lamp_mode_init and timer3_pwm_init
Init ==
  /\ lamp_led = 0 /\ ccr = 0
  /\ lamp_alarm_active = FALSE /\ timer = "off"
  /\ worker = "none"
  /\ led = 0 /\ finished = FALSE /\ arg = 0
  /\ owed = FALSE

------------------------------------------------------------------------------
(* The worker *)

lampVars == <<lamp_led, timer>>

WorkerStart ==
  /\ worker = "start"
  /\ lamp_alarm_active' = TRUE
  /\ worker' = "light"
  /\ UNCHANGED <<lampVars, ccr, led, finished, arg, owed>>

\* The model and brightness_log_xlate_to_2_auto: any light, and none when the
\* alarm is finished.
WorkerLight ==
  /\ worker = "light"
  /\ \/ led' \in PWM /\ finished' = FALSE
     \/ led' = 0 /\ finished' = TRUE
  /\ worker' = "compare"
  /\ UNCHANGED <<lampVars, lamp_alarm_active, ccr, arg, owed>>

\* Compares the wrong way round.
BadWorkerCompare ==
  /\ worker = "compare"
  /\ IF led <= lamp_led
     THEN arg' = led /\ worker' = "write"
     ELSE worker' = "use" /\ UNCHANGED arg
  /\ owed' = FALSE
  /\ UNCHANGED <<lampVars, lamp_alarm_active, ccr, led, finished>>

\* alarm_set_leds reads the volatile lamp_led twice: here to compare ...
WorkerCompare ==
  /\ worker = "compare"
  /\ IF led >= lamp_led
     THEN arg' = led /\ worker' = "write"
     ELSE worker' = "use" /\ UNCHANGED arg
  /\ owed' = FALSE
  /\ UNCHANGED <<lampVars, lamp_alarm_active, ccr, led, finished>>

\* ... and there to use it.
WorkerUse ==
  /\ worker = "use"
  /\ arg' = lamp_led
  /\ worker' = "write"
  /\ UNCHANGED <<lampVars, lamp_alarm_active, ccr, led, finished, owed>>

WorkerWrite ==
  /\ worker = "write"
  /\ ccr' = arg
  /\ worker' = "sleep"
  /\ UNCHANGED <<lampVars, lamp_alarm_active, led, finished, arg, owed>>

WorkerWake ==
  /\ worker = "sleep"
  /\ worker' = IF finished THEN "exit" ELSE "light"
  /\ UNCHANGED <<lampVars, lamp_alarm_active, ccr, led, finished, arg, owed>>

\* Goes without giving the PWM back.
BadWorkerExit ==
  /\ worker = "exit"
  /\ worker' = "none"
  /\ UNCHANGED <<lampVars, lamp_alarm_active, ccr, led, finished, arg, owed>>

WorkerExit ==
  /\ worker = "exit"
  /\ lamp_alarm_active' = FALSE
  /\ worker' = "none"
  /\ UNCHANGED <<lampVars, ccr, led, finished, arg, owed>>

Worker == WorkerStart \/ WorkerLight \/ WorkerCompare \/ WorkerUse \/ WorkerWrite
            \/ WorkerWake \/ WorkerExit

\* check_for_alarm, or alarm_init_new_new: an old worker is aborted where it
\* is and the new one starts from the top.
NewWorker ==
  /\ worker' = "start"
  /\ UNCHANGED <<lampVars, lamp_alarm_active, ccr, led, finished, arg, owed>>

------------------------------------------------------------------------------
(* The lamp *)

lamp_set_leds(level) ==
  LET value == IF level <= LAMP_PWM_MIN_TRASHOLD THEN 0 ELSE level
  IN  /\ lamp_led' = value
      /\ ccr' = IF lamp_alarm_active THEN ccr ELSE value
      /\ owed' = lamp_alarm_active

\* alarm_lamp_mode, for HOST_CMD_LAMP_MODE
LampCommand(level) ==
  /\ timer' = "running"
  /\ lamp_set_leds(level)
  /\ UNCHANGED <<lamp_alarm_active, worker, led, finished, arg>>

\* LAMP_DURATION_MAX_S are as good as over: from now on the handler may come at
\* any point of a round.  A round takes a tenth of a second, so the worker, if
\* there is one, has been through many since the command.
TimerExpires ==
  /\ timer = "running"
  /\ worker = "none" \/ (worker = "sleep" /\ ~finished /\ ~owed)
  /\ timer' = "expired"
  /\ UNCHANGED <<lamp_led, lamp_alarm_active, ccr, worker, led, finished, arg, owed>>

\* lamp_timer_handler
TimerFires ==
  /\ timer = "expired"
  /\ timer' = "off"
  /\ lamp_set_leds(0)
  /\ UNCHANGED <<lamp_alarm_active, worker, led, finished, arg>>

Next ==
  \/ Worker
  \/ NewWorker
  \/ \E level \in PWM : LampCommand(level)
  \/ TimerExpires \/ TimerFires

Spec == Init /\ [][Next]_vars

\* The kernel runs the worker whenever main waits for the host.
FairSpec == Spec /\ WF_vars(Worker)

------------------------------------------------------------------------------
(* Properties *)

\* After each round of the worker the PWM shows the brighter of lamp and
\* alarm, unless the lamp was changed during the round.
ShowsBrighter ==
  worker = "sleep" /\ ~owed => ccr = Brighter(led, lamp_led)

\* With no alarm the PWM shows the lamp, whatever alarms came and went, unless
\* the lamp was changed in the last round of an alarm and left to its worker.
ShowsLamp ==
  worker = "none" /\ ~owed => ccr = lamp_led /\ ~lamp_alarm_active

\* When no more lamp commands and no new alarms come, the PWM comes to show at
\* least the lamp and stays so, while the last alarm goes on and when it is
\* over.  Only a lamp changed in that alarm's last round, after its worker had
\* looked at it for the last time, is never shown: nobody writes it any more.
LampIsShown ==
  \A level \in PWM :
    <>[](lamp_led = level /\ worker # "start")
      => <>[](ccr >= level \/ (worker = "none" /\ owed))

\* main.c:348 "disarm lamp after LAMP_DURATION_MAX_S of inactivity": when the
\* timer has fired, and no alarm is on, the light is out.
TimerSwitchesOff ==
  worker = "none" /\ timer = "off" => ccr = 0
==============================================================================
