------------------------------ MODULE AlarmBoot ------------------------------
(***************************************************************************)
(* AlarmSystem from the very first power on: rtc_init of                   *)
(* src/rtc/rtc-ctl.c starts the 32 kHz oscillator (LSE) and the RTC and    *)
(* fills the backup registers, one register after the other, and power is  *)
(* cut in the middle of that as well.  RCC BDCR, like the RTC and the      *)
(* backup registers, lives on the battery: what a cut leaves half done is  *)
(* taken for done at the next power on.                                    *)
(***************************************************************************)
EXTENDS AlarmSystem

VARIABLES
  bdcr,       \* the bits of RCC BDCR that are set
  clock,      \* what rtc_init does next
  attempts,   \* lse_init's attempts left
  scheduled,  \* history: an alarm has been scheduled
  cuts        \* history: where power was cut: "init", before rtc_configure had
              \* stored that there is no alarm; "write", in a write of the
              \* present alarm

clockVars == <<bdcr, clock, attempts>>
bootVars  == <<vars, clockVars, scheduled, cuts>>

ClockSteps == {"lse", "spin", "select", "enable", "count",
               "info", "adjHi", "adjLo", "waitHi", "waitLo", "done"}
\* The steps of rtc_init at which the RTC runs for the next power on, but the
\* backup registers do not yet say that there is no alarm.
Unsaid == {"count", "info"}

\* What holds of RCC BDCR and rtc_init, the RTC enabled above all: lse_init
\* gives up after five attempts, and rtc_init would go on without a clock, but
\* this never happens, whether or not the oscillator ever starts.
ClockOK ==
  /\ bdcr \subseteq {"LSEON", "LSERDY", "RTCSEL", "RTCEN"}
  /\ clock \in ClockSteps /\ attempts \in 0 .. 5
  /\ "LSERDY" \in bdcr => "LSEON" \in bdcr
  /\ "RTCEN" \in bdcr => {"LSEON", "RTCSEL"} \subseteq bdcr
  /\ clock = "done" => "RTCEN" \in bdcr

------------------------------------------------------------------------------
\* A battery is put in and power comes: the backup domain is all zeros, which
\* in the backup registers is A_ALARM_NEW.
BootInit ==
  /\ cnt = 0
  /\ dr = [info |-> A_ALARM_NEW, adjHi |-> 0, adjLo |-> 0, waitHi |-> 0, waitLo |-> 0]
  /\ wait_time = DefaultWait /\ target = 0 /\ last = 0
  /\ disarm_alarm = FALSE /\ held = FALSE /\ asked = FALSE
  /\ worker = "none" /\ main = "boot" /\ button = "ready"
  /\ io = StartIO(A_ALARM_NEW, 0)
  /\ high = 0
  /\ bdcr = {} /\ clock = "lse" /\ attempts = 5
  /\ scheduled = FALSE /\ cuts = {}

\* The oscillator starts, or not, whenever it likes.
OscillatorStarts ==
  /\ "LSEON" \in bdcr /\ "LSERDY" \notin bdcr
  /\ bdcr' = bdcr \cup {"LSERDY"}
  /\ UNCHANGED <<vars, clock, attempts, scheduled, cuts>>

RtcTick ==
  /\ {"LSERDY", "RTCEN"} \subseteq bdcr
  /\ Tick
  /\ UNCHANGED <<clockVars, scheduled, cuts>>

------------------------------------------------------------------------------
(* rtc_init *)

ClockStep(step, next) ==
  /\ clock = step
  /\ clock' = next
  /\ UNCHANGED <<scheduled, cuts>>

\* lse_init: nothing to do when LSEON is set, ready or not.
LseInit ==
  /\ ClockStep("lse", IF "LSEON" \in bdcr THEN "select" ELSE "spin")
  /\ bdcr' = bdcr \cup {"LSEON"}
  /\ UNCHANGED <<vars, attempts>>

\* Takes the end of the loop without an oscillator for a failure.
BadLseSpin ==
  /\ \/ "LSERDY" \in bdcr /\ ClockStep("spin", "select") /\ UNCHANGED attempts
     \/ /\ "LSERDY" \notin bdcr
        /\ ClockStep("spin", IF attempts = 1 THEN "done" ELSE "spin")
        /\ attempts' = attempts - 1
  /\ UNCHANGED <<vars, bdcr>>

\* lse_enable's loop and its end.  A timeout that has run out has been
\* decremented once more, from zero, and is not zero any more: that is a
\* success.  The failure is the oscillator that is ready just when timeout is
\* zero; it is ready at the next attempt.
LseSpin ==
  /\ \/ ClockStep("spin", "select") /\ UNCHANGED attempts
     \/ /\ "LSERDY" \in bdcr /\ attempts = 5
        /\ ClockStep("spin", "spin")
        /\ attempts' = attempts - 1
  /\ UNCHANGED <<vars, bdcr>>

\* rtc_enable: nothing to do when RTCEN is set, configured or not.
RtcSelect ==
  /\ ClockStep("select", IF "RTCEN" \in bdcr THEN "done" ELSE "enable")
  /\ bdcr' = bdcr \cup {"RTCSEL"}
  /\ UNCHANGED <<vars, attempts>>

RtcEnable ==
  /\ ClockStep("enable", "count")
  /\ bdcr' = bdcr \cup {"RTCEN"}
  /\ UNCHANGED <<vars, attempts>>

\* rtc_configure
RtcConfigure ==
  /\ ClockStep("count", "info")
  /\ cnt' = 0
  /\ UNCHANGED <<dr, wait_time, disarm_alarm, held, worker, io, high, main, target, button,
                 asked, last, bdcr, attempts>>

\* One register of backup_domain_init.
Store(step, next, value) ==
  /\ ClockStep(step, next)
  /\ dr' = [dr EXCEPT ![step] = value]
  /\ UNCHANGED <<cnt, wait_time, disarm_alarm, held, worker, io, high, main, target, button,
                 asked, last, bdcr, attempts>>

\* Leaves the zeros where they are.
BadBackupDomainInit ==
  \/ Store("info",   "adjHi",  A_ALARM_NEW)
  \/ Store("adjHi",  "adjLo",  0)
  \/ Store("adjLo",  "waitHi", 0)
  \/ Store("waitHi", "waitLo", HalfMod - 1)
  \/ Store("waitLo", "done",   HalfMod - 1)

BackupDomainInit ==
  \/ Store("info",   "adjHi",  A_ALARM_POR_VALUE)
  \/ Store("adjHi",  "adjLo",  0)
  \/ Store("adjLo",  "waitHi", 0)
  \/ Store("waitHi", "waitLo", HalfMod - 1)
  \/ Store("waitLo", "done",   HalfMod - 1)

RtcInit == LseInit \/ LseSpin \/ RtcSelect \/ RtcEnable \/ RtcConfigure \/ BackupDomainInit

------------------------------------------------------------------------------
(* The rest of the system *)

\* A new alarm has registers of its own to write.
NewAlarm ==
  /\ clock = "done"
  /\ ScheduleAtBoot \/ Abort
  /\ scheduled' = TRUE /\ cuts' = cuts \ {"write"}
  /\ UNCHANGED clockVars

Running ==
  /\ clock = "done"
  /\ \/ Worker \/ PressLong \/ DisarmByHost
     \/ \E w \in WaitTimes : ScheduleByHost(w)
     \/ InitMutex \/ ClearFlag \/ SetUpRegisters \/ SetUpCount \/ CreateWorker
     \/ Boot
  /\ UNCHANGED <<clockVars, scheduled, cuts>>

PowerCut ==
  /\ PowerFault
  /\ clock' = "lse" /\ attempts' = 5
  /\ cuts' = cuts \cup (IF clock \in Unsaid THEN {"init"} ELSE {})
                  \cup (IF InWindow THEN {"write"} ELSE {})
  /\ UNCHANGED <<bdcr, scheduled>>

BootNext == OscillatorStarts \/ RtcTick \/ RtcInit \/ NewAlarm \/ Running \/ PowerCut

BootSpec == BootInit /\ [][BootNext]_bootVars

------------------------------------------------------------------------------
(* Properties *)

\* There is no alarm that nobody has scheduled, unless the very first power on
\* was cut short before backup_domain_init.  (Then there is one: the next boot
\* finds the RTC enabled, and A_ALARM_NEW.)
OnlyScheduled == worker # "none" => scheduled \/ "init" \in cuts

\* An assert of core-model.c fails only after a power cut between registers
\* that belong together, or when CNTL has run over between the reads of CNTH and
\* CNTL and the time is HalfMod too small.
FailsOnlyWhenTorn ==
  worker = "hung" =>
    \/ "write" \in cuts
    \/ io.failed = {"rtc not before adjustment"} /\ last + HalfMod <= cnt
==============================================================================
