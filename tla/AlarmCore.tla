------------------------------ MODULE AlarmCore ------------------------------
(***************************************************************************)
(* An alarm's life around the model: the worker thread of src/main.c that  *)
(* runs do_alarm_model every 100 ms and writes the result to the battery   *)
(* backed registers, the disarm request other threads leave for it, the    *)
(* RTC that ticks whether or not the board has power, power cuts, and new  *)
(* alarms.                                                                 *)
(*                                                                         *)
(* The grain is that of the model: one call with the disarm check before   *)
(* it is one step, and the write-back after it another.  AlarmSystem has   *)
(* the grain of a register.                                                *)
(***************************************************************************)
EXTENDS CoreModel

CONSTANTS
  WaitTimes,  \* the wait times alarms are scheduled with
  MaxTime     \* bound: where the modelled RTC stops

ASSUME TimesAssumption ==
  /\ MaxTime \in Nat /\ MaxTime < WordMod
  /\ WaitTimes \subseteq Word

VARIABLES
  rtc,           \* RTC counter
  wait,          \* BKP DR1:DR2, alarm_params.wait_time
  bkp,           \* BKP DR3 (info) and DR4:DR5 (adj)
  worker,        \* where alarm_sched_worker is
  io,            \* its struct core_model_io
  disarm_alarm,  \* alarm_info.disarm_alarm
  last           \* history: RTC time of the worker's last call of the model

vars == <<rtc, wait, bkp, worker, io, disarm_alarm, last>>

\* "none": no thread, or one that has returned; "check": about to look for a
\* disarm request; "store": back from the model; "assert": spinning in it.
WorkerStates == {"none", "check", "store", "assert"}

TypeOK ==
  /\ rtc \in 0 .. MaxTime
  /\ wait \in Word
  /\ bkp \in [info : SUBSET Flags, adj : Word]
  /\ worker \in WorkerStates
  /\ io \in IO
  /\ disarm_alarm \in BOOLEAN
  /\ last \in 0 .. MaxTime

------------------------------------------------------------------------------
\* The first power on: rtc_configure starts the RTC and writes
\* A_ALARM_POR_VALUE, 0 and 0xFFFFFFFF to the backup registers.
Init ==
  /\ rtc = 0
  /\ wait = WordMod - 1
  /\ bkp = [info |-> A_ALARM_POR_VALUE, adj |-> 0]
  /\ worker = "none"
  /\ io = StartIO(A_ALARM_POR_VALUE, 0)
  /\ disarm_alarm = FALSE
  /\ last = 0

Tick ==
  /\ rtc < MaxTime
  /\ rtc' = rtc + 1
  /\ UNCHANGED <<wait, bkp, worker, io, disarm_alarm, last>>

\* disarm_status_set, from the button thread or from main.
Disarm ==
  /\ disarm_alarm' = TRUE
  /\ UNCHANGED <<rtc, wait, bkp, worker, io, last>>

\* The worker's loop up to the return from do_alarm_model.
Model ==
  /\ worker = "check"
  /\ io' = do_alarm_model(rtc, IF disarm_alarm THEN set_disarm_new(io) ELSE io, wait)
  /\ worker' = IF io'.failed = {} THEN "store" ELSE "assert"
  /\ disarm_alarm' = FALSE
  /\ last' = rtc
  /\ UNCHANGED <<rtc, wait, bkp>>

\* The rest of the loop: write back, sleep, and leave when finished.
Store ==
  /\ worker = "store"
  /\ bkp' = [info |-> io.info, adj |-> io.adj]
  /\ worker' = IF alarm_finished(io) THEN "none" ELSE "check"
  /\ UNCHANGED <<rtc, wait, io, disarm_alarm, last>>

\* Power is lost and comes back: check_for_alarm starts a worker from the
\* backup registers (alarm_powerfault_restore) unless the alarm is finished.
PowerFault ==
  /\ worker' = IF "FINISHED" \in bkp.info THEN "none" ELSE "check"
  /\ io' = StartIO(bkp.info, bkp.adj)
  /\ disarm_alarm' = FALSE
  /\ UNCHANGED <<rtc, wait, bkp, last>>

\* Takes the rise off a sleep time nobody has checked.
BadNewAlarm(w) ==
  /\ wait' = w - rise_time
  /\ bkp' = [info |-> A_ALARM_NEW, adj |-> 0]
  /\ rtc' = 0
  /\ worker' = "check"
  /\ io' = StartIO(A_ALARM_NEW, 0)
  /\ disarm_alarm' = FALSE
  /\ last' = 0

\* alarm_init_new_new, for a command of the host or for a button held at boot:
\* the old worker is aborted, whatever it does.
NewAlarm(w) ==
  /\ wait' = w
  /\ bkp' = [info |-> A_ALARM_NEW, adj |-> 0]
  /\ rtc' = 0
  /\ worker' = "check"
  /\ io' = StartIO(A_ALARM_NEW, 0)
  /\ disarm_alarm' = FALSE
  /\ last' = 0

Next ==
  \/ Tick
  \/ Disarm
  \/ Model
  \/ Store
  \/ PowerFault
  \/ \E w \in WaitTimes : NewAlarm(w)

Spec == Init /\ [][Next]_vars

\* The RTC ticks and the kernel runs the worker; nobody has to press, cut the
\* power or schedule anything.
FairSpec == Spec /\ WF_vars(Tick) /\ WF_vars(Model) /\ WF_vars(Store)

------------------------------------------------------------------------------
(* Properties *)

\* No dynamic_assert of core-model.c ever fails: no disarm flag is set twice,
\* an adjustment is only made from zero, and the RTC is never behind it.
\* (A failed one leaves the worker spinning and the lamp as it is.)
NoAssert == worker # "assert"

\* No sequence of disarms and power cuts stretches an alarm: a call of the
\* model that leaves the alarm unfinished was made before LatestEnd.
Deadline ==
  worker = "store" /\ ~alarm_finished(io) => last < LatestEnd(wait)

\* Once a disarm or the end of the alarm is in the backup registers, the lamp
\* is never told to go to its maximum again, power cut or not.
DisarmedNotBright ==
  bkp.info # A_ALARM_NEW => io.light.to # "MAX"

\* What the backup registers say of disarms and of the end of the alarm only
\* grows, and a disarm's adjustment only moves forward, until the next alarm.
DisarmKept ==
  [][ \/ \E w \in WaitTimes : NewAlarm(w)
      \/ bkp.info \subseteq bkp'.info /\ bkp.adj <= bkp'.adj ]_vars

\* The inductive invariant behind the properties above: the worker's block and
\* the backup registers are both consistent, and the block is never behind.
Consistent ==
  /\ FlagsOK(bkp.info) /\ AdjOK(bkp.info, bkp.adj, rtc, wait)
  /\ FlagsOK(io.info)  /\ AdjOK(io.info, io.adj, rtc, wait)
  /\ bkp.info \subseteq io.info /\ bkp.adj <= io.adj
  /\ io.failed = {}
  /\ worker = "check" => "FINISHED" \notin io.info
  /\ io.info # A_ALARM_NEW => io.light.to # "MAX"

\* The alarm does what AlarmTimeline promises: each pair of flags and
\* adjustment stands for a course.
CourseOf(info, adj) ==
  IF "FINISHED" \in info THEN [kind |-> "over", since |-> 0]
  ELSE IF "SECONDARY" \in info THEN [kind |-> "out", since |-> adj]
  ELSE IF "PRIMARY" \in info THEN [kind |-> "dimmed", since |-> adj]
  ELSE [kind |-> "normal", since |-> 0]

Timeline == INSTANCE AlarmTimeline WITH
  now     <- rtc,
  trigger <- wait,
  course  <- CourseOf(io.info, io.adj),
  stable  <- CourseOf(bkp.info, bkp.adj),
  pressed <- disarm_alarm,
  shown   <- io.light

TimelineSpec == Timeline!Spec

\* Every alarm ends, and ends in the backup registers too, unless power cuts
\* or new alarms keep coming.
EveryAlarmEnds ==
  \/ []<><<PowerFault \/ \E w \in WaitTimes : NewAlarm(w)>>_vars
  \/ <>[](worker = "none" /\ "FINISHED" \in bkp.info)
==============================================================================
