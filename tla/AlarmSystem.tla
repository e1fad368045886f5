----------------------------- MODULE AlarmSystem -----------------------------
(***************************************************************************)
(* The alarm of src/main.c and src/rtc/rtc-ctl.c at the grain of a 16 bit  *)
(* register and of a mutex: the threads that share it, the registers they  *)
(* write one half after the other, and power cuts between any two writes.  *)
(*                                                                         *)
(*  button thread  cooperative, above everybody: long presses disarm       *)
(*  main thread    commands of the host: disarm, schedule                  *)
(*  worker thread  alarm_sched_worker, below both                          *)
(*                                                                         *)
(* What the button and main do under disarm_mtx nobody can interleave with *)
(* (a waiter lends its priority to the holder), so only the worker is ever *)
(* seen to hold it.  A thread that blocks on it lends the worker its       *)
(* priority; k_mutex_unlock hands it over at once.                         *)
(***************************************************************************)
EXTENDS CoreModel

CONSTANTS
  HalfMod,       \* 2^16: range of a backup register and of CNTH and CNTL
  WaitTimes,     \* the wait times alarms are scheduled with
  DefaultWait,   \* SLEEP_TIME_S - RISE_TIME_S
  MaxTime,       \* bound: where the modelled RTC stops
  FaultInWindow  \* whether power is cut in the middle of a write, too

ASSUME SystemAssumption ==
  /\ HalfMod \in Nat \ {0} /\ WordMod = HalfMod * HalfMod
  /\ MaxTime \in Nat /\ MaxTime < WordMod
  /\ WaitTimes \subseteq Word /\ DefaultWait \in WaitTimes
  /\ FaultInWindow \in BOOLEAN

VARIABLES
  cnt,           \* RTC CNTH:CNTL
  dr,            \* BKP DR1..DR5
  wait_time,     \* alarm_params.wait_time
  disarm_alarm,  \* alarm_info.disarm_alarm
  held,          \* whether (only ever) the worker holds disarm_mtx
  worker,        \* what alarm_sched_worker does next
  io,            \* its struct core_model_io
  high,          \* the CNTH it has read
  main,          \* what the main thread does next
  target,        \* the wait time of the alarm it is setting up
  button,        \* the button thread
  asked,         \* history: a disarm was asked for since the last alarm was dropped
  last           \* history: the time of the worker's last call of the model

vars == <<cnt, dr, wait_time, disarm_alarm, held, worker, io, high, main, target,
          button, asked, last>>

\* The registers between them.
registers == <<cnt, dr>>

WorkerSteps == {"none", "start", "lock", "reset", "rtc", "model",
                "data_hi", "data_lo", "state", "hung"}
\* The steps of alarm_init_new_new after the abort.
Setup       == {"mutex", "flag", "data_hi", "data_lo", "state",
                "wait_hi", "wait_lo", "count", "create"}
MainSteps   == {"boot", "idle", "waiting", "abort"} \cup Setup
Half        == 0 .. HalfMod - 1

TypeOK ==
  /\ cnt \in 0 .. MaxTime
  /\ dr \in [info : SUBSET Flags, adjHi : Half, adjLo : Half,
             waitHi : Half, waitLo : Half]
  /\ wait_time \in Word /\ target \in Word /\ last \in Word
  /\ {disarm_alarm, held, asked} \subseteq BOOLEAN
  /\ worker \in WorkerSteps /\ main \in MainSteps
  /\ button \in {"ready", "blocked", "lost"}
  /\ io \in IO
  /\ high \in Half

Lo(x) == x % HalfMod

\* Masks the high half, but does not shift it.
BadHi(x) == x - Lo(x)
Hi(x) == x \div HalfMod

backup_data_get == dr.adjHi * HalfMod + dr.adjLo
rtc_get_alarm   == dr.waitHi * HalfMod + dr.waitLo

------------------------------------------------------------------------------
\* After the first power on: rtc_init is through, check_for_alarm is next.
Init ==
  /\ cnt = 0
  /\ dr = [info |-> A_ALARM_POR_VALUE, adjHi |-> 0, adjLo |-> 0,
           waitHi |-> HalfMod - 1, waitLo |-> HalfMod - 1]
  /\ wait_time = DefaultWait /\ target = 0 /\ last = 0
  /\ disarm_alarm = FALSE /\ held = FALSE /\ asked = FALSE
  /\ worker = "none" /\ main = "boot" /\ button = "ready"
  /\ io = StartIO(A_ALARM_POR_VALUE, 0)
  /\ high = 0

Tick ==
  /\ cnt < MaxTime
  /\ cnt' = cnt + 1
  /\ UNCHANGED <<dr, wait_time, disarm_alarm, held, worker, io, high, main, target,
                 button, asked, last>>

------------------------------------------------------------------------------
(* The worker *)

\* It runs while main waits, or with the priority of a blocked button thread.
WorkerAt(step) ==
  /\ worker = step
  /\ main \in {"idle", "waiting"} \/ button = "blocked"

WorkerStart ==
  /\ WorkerAt("start")
  /\ wait_time' = rtc_get_alarm
  /\ io' = StartIO(dr.info, backup_data_get)
  /\ worker' = "lock"
  /\ UNCHANGED <<registers, disarm_alarm, held, high, main, target, button, asked, last>>

\* disarm_status_check_and_reset
WorkerLock ==
  /\ WorkerAt("lock")
  /\ ~held
  /\ held' = TRUE
  /\ worker' = "reset"
  /\ UNCHANGED <<registers, wait_time, disarm_alarm, io, high, main, target, button,
                 asked, last>>

\* ... and its unlock: whoever waits has set the flag again before the worker
\* goes on.
WorkerReset ==
  /\ WorkerAt("reset")
  /\ io' = IF disarm_alarm THEN set_disarm_new(io) ELSE io
  /\ disarm_alarm' = (button = "blocked" \/ main = "waiting")
  /\ held' = FALSE
  /\ button' = IF button = "blocked" THEN "ready" ELSE button
  /\ main' = IF main = "waiting" THEN "idle" ELSE main
  /\ worker' = "rtc"
  /\ UNCHANGED <<registers, wait_time, high, target, asked, last>>

\* rtc_get_time reads CNTH, then CNTL.
WorkerReadHigh ==
  /\ WorkerAt("rtc")
  /\ high' = Hi(cnt)
  /\ worker' = "model"
  /\ UNCHANGED <<registers, wait_time, disarm_alarm, held, io, main, target, button,
                 asked, last>>

WorkerModel ==
  /\ WorkerAt("model")
  /\ LET rtc_time == high * HalfMod + Lo(cnt)
     IN  /\ io' = do_alarm_model(rtc_time, io, wait_time)
         /\ last' = rtc_time
  /\ worker' = IF io'.failed = {} THEN "data_hi" ELSE "hung"
  /\ UNCHANGED <<registers, wait_time, disarm_alarm, held, high, main, target, button,
                 asked>>

\* backup_data_set, atomic_state_set, and the end of the loop.
WorkerDataHi ==
  /\ WorkerAt("data_hi")
  /\ dr' = [dr EXCEPT !.adjHi = Hi(io.adj)]
  /\ worker' = "data_lo"
  /\ UNCHANGED <<cnt, wait_time, disarm_alarm, held, io, high, main, target, button,
                 asked, last>>

WorkerDataLo ==
  /\ WorkerAt("data_lo")
  /\ dr' = [dr EXCEPT !.adjLo = Lo(io.adj)]
  /\ worker' = "state"
  /\ UNCHANGED <<cnt, wait_time, disarm_alarm, held, io, high, main, target, button,
                 asked, last>>

WorkerState ==
  /\ WorkerAt("state")
  /\ dr' = [dr EXCEPT !.info = io.info]
  /\ worker' = IF alarm_finished(io) THEN "none" ELSE "lock"
  /\ UNCHANGED <<cnt, wait_time, disarm_alarm, held, io, high, main, target, button,
                 asked, last>>

Worker == WorkerStart \/ WorkerLock \/ WorkerReset \/ WorkerReadHigh \/ WorkerModel
            \/ WorkerDataHi \/ WorkerDataLo \/ WorkerState

------------------------------------------------------------------------------
(* Disarm requests *)

\* A long press: disarm_alarm_button in the button thread.
PressLong ==
  /\ button = "ready" /\ main # "boot"
  /\ IF held
     THEN button' = "blocked" /\ UNCHANGED disarm_alarm
     ELSE disarm_alarm' = TRUE /\ UNCHANGED button
  /\ asked' = TRUE
  /\ UNCHANGED <<registers, wait_time, held, worker, io, high, main, target, last>>

\* main runs unless a blocked button thread has lent the worker its priority.
MainAt(step) ==
  /\ main = step
  /\ button = "blocked" => worker = "none"

\* HOST_CMD_DISARM_ALARM: disarm_alarm_bt in main.
DisarmByHost ==
  /\ MainAt("idle")
  /\ IF held
     THEN main' = "waiting" /\ UNCHANGED disarm_alarm
     ELSE disarm_alarm' = TRUE /\ UNCHANGED main
  /\ asked' = TRUE
  /\ UNCHANGED <<registers, wait_time, held, worker, io, high, target, button, last>>

------------------------------------------------------------------------------
(* New alarms and boots *)

\* HOST_CMD_SCHEDULE_ALARM: alarm_init_new_new up to the abort.
ScheduleByHost(w) ==
  /\ MainAt("idle")
  /\ main' = "abort" /\ target' = w
  /\ UNCHANGED <<registers, wait_time, disarm_alarm, held, worker, io, high, button,
                 asked, last>>

\* k_thread_abort: the worker goes, whatever it did, and keeps the mutex.
Abort ==
  /\ MainAt("abort")
  /\ worker' = "none" /\ main' = "mutex" /\ asked' = FALSE /\ last' = 0
  /\ UNCHANGED <<registers, wait_time, disarm_alarm, held, io, high, target, button>>

\* Leaves the mutex to its late owner.
BadInitMutex ==
  /\ MainAt("mutex")
  /\ main' = "flag"
  /\ UNCHANGED <<registers, wait_time, disarm_alarm, held, worker, io, high, target,
                 button, asked, last>>

\* k_mutex_init: free again, and with no memory of who was waiting.
InitMutex ==
  /\ MainAt("mutex")
  /\ held' = FALSE
  /\ button' = IF button = "blocked" THEN "lost" ELSE button
  /\ main' = "flag"
  /\ UNCHANGED <<registers, wait_time, disarm_alarm, worker, io, high, target, asked, last>>

\* Leaves a request nobody took to the next alarm.
BadClearFlag ==
  /\ MainAt("flag")
  /\ wait_time' = target
  /\ main' = "data_hi"
  /\ UNCHANGED <<registers, disarm_alarm, held, worker, io, high, target, button, asked,
                 last>>

ClearFlag ==
  /\ MainAt("flag")
  /\ disarm_alarm' = FALSE
  /\ wait_time' = target
  /\ main' = "data_hi"
  /\ UNCHANGED <<registers, held, worker, io, high, target, button, asked, last>>

\* One register of backup_data_set(0), atomic_state_set(A_ALARM_NEW) or
\* backup_alarm.
SetUp(step, next, field, value) ==
  /\ MainAt(step)
  /\ dr' = [dr EXCEPT ![field] = value]
  /\ main' = next
  /\ UNCHANGED <<cnt, wait_time, disarm_alarm, held, worker, io, high, target, button,
                 asked, last>>

\* Forgets the low half of the adjustment.
BadSetUpRegisters ==
  \/ SetUp("data_hi", "data_lo", "adjHi",  0)
  \/ SetUp("data_lo", "state",   "adjHi",  0)
  \/ SetUp("state",   "wait_hi", "info",   A_ALARM_NEW)
  \/ SetUp("wait_hi", "wait_lo", "waitHi", Hi(wait_time))
  \/ SetUp("wait_lo", "count",   "waitLo", Lo(wait_time))

SetUpRegisters ==
  \/ SetUp("data_hi", "data_lo", "adjHi",  0)
  \/ SetUp("data_lo", "state",   "adjLo",  0)
  \/ SetUp("state",   "wait_hi", "info",   A_ALARM_NEW)
  \/ SetUp("wait_hi", "wait_lo", "waitHi", Hi(wait_time))
  \/ SetUp("wait_lo", "count",   "waitLo", Lo(wait_time))

\* The rest of rtc_set_alarm: the RTC takes both halves when CNF is cleared.
SetUpCount ==
  /\ MainAt("count")
  /\ cnt' = 0
  /\ main' = "create"
  /\ UNCHANGED <<dr, wait_time, disarm_alarm, held, worker, io, high, target, button,
                 asked, last>>

CreateWorker ==
  /\ MainAt("create")
  /\ worker' = "start" /\ main' = "idle"
  /\ UNCHANGED <<registers, wait_time, disarm_alarm, held, io, high, target, button, asked,
                 last>>

\* check_for_alarm: a new alarm if the button is held, ...
ScheduleAtBoot ==
  /\ main = "boot"
  /\ main' = "mutex" /\ target' = DefaultWait /\ asked' = FALSE /\ last' = 0
  /\ UNCHANGED <<registers, wait_time, disarm_alarm, held, worker, io, high, button>>

\* ... the old one if it is not over (alarm_powerfault_restore), or none.
Boot ==
  /\ main = "boot"
  /\ worker' = IF "FINISHED" \in dr.info THEN "none" ELSE "start"
  /\ main' = "idle"
  /\ UNCHANGED <<registers, wait_time, disarm_alarm, held, io, high, target, button, asked,
                 last>>

\* Registers that belong together have been written in part, or are about to
\* be after the alarm they describe was aborted.
InWindow == worker \in {"data_lo", "state"} \/ main \in Setup \ {"create"}

\* Everything but the RTC and the backup registers is lost.  The io block has
\* no contents until a worker starts; the model shows those it will start from.
PowerFault ==
  /\ InWindow => FaultInWindow
  /\ io' = StartIO(dr.info, backup_data_get)
  /\ wait_time' = DefaultWait /\ target' = 0 /\ high' = 0
  /\ disarm_alarm' = FALSE /\ held' = FALSE
  /\ worker' = "none" /\ main' = "boot" /\ button' = "ready"
  /\ UNCHANGED <<registers, asked, last>>

Next ==
  \/ Tick
  \/ Worker
  \/ PressLong
  \/ DisarmByHost
  \/ \E w \in WaitTimes : ScheduleByHost(w)
  \/ ScheduleAtBoot
  \/ Abort \/ InitMutex \/ ClearFlag \/ SetUpRegisters \/ SetUpCount \/ CreateWorker
  \/ Boot
  \/ PowerFault

Spec == Init /\ [][Next]_vars

\* The steps of main that do not wait for a command or for a mutex.
MainGoesOn == Abort \/ InitMutex \/ ClearFlag \/ SetUpRegisters \/ SetUpCount \/ CreateWorker

\* The kernel runs main when it is ready, and the worker when nobody above it
\* is.
FairSpec == Spec /\ WF_vars(MainGoesOn) /\ WF_vars(Worker)

------------------------------------------------------------------------------
(* Properties *)

\* Main never waits for a mutex nobody will unlock: its holder is alive, in
\* the critical section, and has main's priority.
MainNeverStuck == main = "waiting" => held /\ worker = "reset"

\* Main gets the mutex whatever happens to its holder, and so does a button
\* thread, unless k_mutex_init forgets that it waits: it is "lost" then, and
\* waits until the power is cut.
WaitersGoOn ==
  button = "blocked" \/ main = "waiting" ~> button # "blocked" /\ main # "waiting"

\* An alarm is only ever disarmed by somebody who asked for it after the alarm
\* before it was dropped: no request outlives the alarm it was meant for.
DisarmWasAsked ==
  main \notin Setup =>
    /\ worker \notin {"none", "start"} /\ io.info \ {"FINISHED"} # {} => asked
    /\ dr.info \ {"FINISHED"} # {} => asked

\* Once a disarm is in the backup registers no power cut, not even in the
\* middle of a write, brings the maximum back.
DisarmedNotBright ==
  worker \notin {"none", "start"} /\ dr.info # A_ALARM_NEW => io.light.to # "MAX"

\* core-model.c:132 and 143, as they stand: a first disarm finds the adjustment
\* at zero.
AdjustmentIsZero == "adjustment is zero" \notin io.failed

\* As long as power is not cut in the middle of a write and CNTL does not run
\* over, the system implements AlarmCore.  The worker's write-back counts from
\* its first register, a new alarm from the abort of the old one, and a request
\* that arrives while the worker is past its check from its next check.
AbstractRtc  == IF main \in Setup \ {"create"} THEN 0 ELSE cnt
AbstractWait == IF main \in Setup THEN target ELSE rtc_get_alarm

AbstractBkp ==
  IF main \in Setup THEN [info |-> A_ALARM_NEW, adj |-> 0]
  ELSE IF worker \in {"data_lo", "state"} THEN [info |-> io.info, adj |-> io.adj]
  ELSE [info |-> dr.info, adj |-> backup_data_get]

AbstractWorker ==
  IF main \in Setup THEN "check"
  ELSE IF main = "boot" THEN IF "FINISHED" \in dr.info THEN "none" ELSE "check"
  ELSE IF worker \in {"data_lo", "state"} THEN IF alarm_finished(io) THEN "none" ELSE "check"
  ELSE IF worker = "none" THEN "none"
  ELSE IF worker = "hung" THEN "assert"
  ELSE IF worker = "data_hi" THEN "store"
  ELSE "check"

AbstractIo ==
  IF main \in Setup THEN StartIO(A_ALARM_NEW, 0)
  ELSE IF worker = "start" THEN StartIO(dr.info, backup_data_get)
  ELSE ClearNew(io)

AbstractDisarm ==
  IF main \in {"mutex", "flag"} THEN FALSE
  ELSE IF worker \in {"rtc", "model", "data_hi", "data_lo", "state", "hung"}
  THEN worker \in {"rtc", "model"} /\ "NEW" \in io.info
  ELSE disarm_alarm

Core == INSTANCE AlarmCore WITH
  rtc          <- AbstractRtc,
  wait         <- AbstractWait,
  bkp          <- AbstractBkp,
  worker       <- AbstractWorker,
  io           <- AbstractIo,
  disarm_alarm <- AbstractDisarm,
  last         <- last

CoreSpec == Core!Spec
==============================================================================
