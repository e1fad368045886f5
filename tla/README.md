# A verification development for the rff-light-alarm firmware

The firmware turns a lamp into a sunrise alarm. A host schedules an alarm over
Bluetooth; the light rises, holds, fades to a middle level, holds again and goes
out; a long press of the button, or a command, dims it and a second one puts it
out. Power may be cut at any time: the clock and a few registers have a battery.
It runs on an STM32F103 under Zephyr 2.2. These modules model it in TLA+, TLC
checks small instances of them, and TLAPS proves theorems for all of them.

Paths below are relative to the firmware's `src/` directory.

## 1. Inventory

| Part | Source | State it keeps | Operations | Modules |
|---|---|---|---|---|
| Alarm model | `core-model/core-model.c` | none: the caller's io block | `do_alarm_model`, `set_disarm_new`, `alarm_finished` | `CoreModel`, `AlarmTimeline` |
| Alarm scheduling | `main.c` 22-282 | `alarm_params`, `alarm_info`, `disarm_mtx`, the worker's io block | `alarm_sched_worker`, `disarm_status_set`, `alarm_init_new_new`, `alarm_powerfault_restore`, `check_for_alarm` | `AlarmCore`, `AlarmSystem` |
| RTC and backup registers | `rtc/rtc-ctl.c` | RTC counter, BKP DR1..DR5 | `rtc_init`, `rtc_set_alarm`, getters and setters | `AlarmSystem`, `AlarmBoot` |
| Lamp | `main.c` 107-147, 348-388 | `lamp_led0/1`, `lamp_alarm_active`, PWM compare registers, lamp timer | `alarm_lamp_mode`, `lamp_timer_handler`, `alarm_set_leds` | `Lamp` |
| Button | `button-ctl.c` | bit history, this and the last state | read thread, `button_io_init`, `button_get_state` | `Button` |
| Brightness | `brightness-model/` | `pev_ops`, `cached_value` | `brightness_log_xlate_to_2(_auto)` | `Light` |
| Status LED | `status-led-ctl.c` | blink request, LED | `led_gpio_enable*`, `led_gpio_blink`, blink thread | `StatusLed` |
| HM-11 module | `bt/bt-hm11-ctl.c` 111-319 | retries, reset flag, nested command lists | `hm11_do_at_cmd`, its handlers, `hm11_init` | `BtAt`; its use of buffer and stack: `BtHost` |
| Host protocol | `bt/bt-hm11-ctl.c`, `main.c` 412-431 | receive buffer, notification stack, the packet | ISR, `bt_uart_reconfig`, `hm11_wait_for_host_pkt`, `hm11_host_pkt_verify`, main's loop | `BtHost` |
| Test of the alarm model | `core-model/model-cross-test.c` | none | 16 checks | `CrossTest` |

What is left out, and why, is in section 5.

### Who talks to whom

* The **button thread** is cooperative and above everybody. It reads the pin
  every 25 ms; a long press calls `disarm_alarm_button`, which sets
  `disarm_alarm` under `disarm_mtx`.
* The **main thread** waits for packets of the host. A disarm command sets the
  same flag. A schedule command aborts the worker, initialises the mutex, clears
  the flag, writes five backup registers and the RTC counter and creates a new
  worker. A lamp command sets `lamp_led0/1` and, unless an alarm is on, the PWM.
* The **worker** (`alarm_sched_worker`) has the lowest priority. Ten times a
  second it takes the disarm flag, reads the RTC, calls `do_alarm_model`, writes
  the adjustment and the flags back, and sets the PWM to the brighter of alarm
  and lamp. It returns when the alarm is finished.
* The **lamp timer**'s handler is an ISR. It switches the lamp off after four
  hours.
* The **blink thread** of the status LED has the worker's priority. main makes it
  blink for a new alarm; when it does not, the worker lights the LED while the
  light changes.
* **Power cuts** take everything but the RTC and the backup registers. At the
  next boot `check_for_alarm` schedules a new alarm if the button is held,
  restores the old one if it was not finished, or does nothing.

### What is hard

Wrapping unsigned arithmetic in the model, with comparisons whose order makes it
harmless; presses in any number and at any time; power cuts between any two
writes, of which only some belong together; the abort of a thread that may hold
a mutex; a disarm flag that outlives the alarm it was meant for; values read
twice while a higher priority writes them; a timer whose effect is handed to a
thread that is about to leave; static variables that two threads and several
alarms go through; a thread that suspends itself while another resumes it; a
first power on that is cut short. `PROJECT.json` lists these hazards, each at its
line, with the properties that would notice.

## 2. Modules

```
AlarmTimeline            what an alarm promises: courses and timetables
      ^ refined by
AlarmCore                model call, write-back, power cuts, presses, new alarms
      ^ refined by       \-- AlarmCoreProofs   its theorems
AlarmSystem              threads, mutex, registers one half at a time
      ^ extended by
AlarmBoot                from the first power on, cut anywhere
                         \-- AlarmSystemProofs   theorems about both, and with
                             AlarmCoreProofs from the registers to the timetable

CoreModel                core-model.c, one operator per function (used by all of them)
                         \-- CoreModelProofs     lemmas about its operators
CrossTest                model-cross-test.c, replayed on CoreModel

Lamp                     PWM shared by alarm worker, lamp commands, lamp timer
Light                    brightness model, between alarm and lamp (uses CoreModel)
StatusLed                blink thread, alarm worker, main
Button                   raw reads, debounced states, callback
BtAt                     setting up the HM-11: retries, resets, nested lists
BtHost                   from the receive interrupt to a host command
LightProofs, LedProofs (Lamp and StatusLed), ButtonProofs, BtAtProofs, BtHostProofs
                         theorems about them
MCAlarmCore, MCAlarmSystem, MCAlarmBoot, MCBtAt, MCBtHost   instances for TLC
```

Definitions called `Bad...` are wrong on purpose. Each is what a plausible slip
would make of the definition after it, and each property of a passing run has
one that violates it; nothing uses them.

### CoreModel

A C function is an operator of the same name that takes the io block and returns
it. `info` is the set of the flags that are set, `adj` is
`disarm_time_adjustment`, `light` the four outputs. `Sub` is `uint32_t`
subtraction modulo `WordMod`. A `dynamic_assert` that does not hold adds its name
to `failed`; the thread that called the model then spins for ever, which AlarmCore
shows as worker state `"assert"` and AlarmSystem as `"hung"`. The parameters of
`struct core_model_params` are constants, `wait_time` excepted, which is an
argument.

### CrossTest

The repository tests `core-model.c` with 16 checks, each a list of times with what is
asserted after `do_alarm_model` was called. Each is a script here, under its C
name, of the same calls; `Passes` replays it. 2^30 stands for 2^32, with its last
value for `0xFFFFFFFF`. `set_const_params_b` leaves one parameter uninitialised, so
`check_b` is replayed with several values of it. `CrossTestPasses` is a constant
formula: it ties CoreModel to what the authors say the code does, in a form that
neither AlarmTimeline nor the invariants depend on.

### AlarmTimeline

The promise in plain intervals: no flags, no adjustment, no wrapping. An alarm is
on a course (normal, dimmed since t, going out since t, over). A course is a
timetable of stretches; a stretch says what is shown and what a press does. The
timetables were written down independently of the nested differences of the code.

### AlarmCore

One step is one of: the RTC ticks, somebody asks for a disarm, the worker calls
the model, the worker writes back, power is cut and comes back, a new alarm is
scheduled (at any time, in any state).

| State | Code |
|---|---|
| `rtc` | RTC CNTH:CNTL |
| `wait` | BKP DR1:DR2 and `alarm_params.wait_time` |
| `bkp.info`, `bkp.adj` | BKP DR3, DR4:DR5 |
| `worker`, `io` | where `alarm_sched_worker` is, its `struct core_model_io` |
| `disarm_alarm` | `alarm_info.disarm_alarm` |
| `last` | history: the time of the last call of the model |

### AlarmSystem

The same alarm at the grain of a register access. The worker takes eight steps
a round, a new alarm nine. Its scheduling is the kernel's: main runs before the
worker; the worker runs when main waits for a packet or for the mutex, or when
the button thread waits for the mutex and lends its priority. What button and
main do under the mutex cannot be interleaved with and is one step;
`k_mutex_unlock` hands the mutex to the waiter, so the flag the worker has just
cleared may be set again before the worker goes on (`WorkerReset`).

`PowerFault` may come between any two steps. `FaultInWindow` says whether it may
also come between writes that belong together: with it FALSE the module is shown to
implement AlarmCore; with it TRUE, AlarmBoot shows what can still be relied on.

`rtc_get_time` is read as the code has it, CNTH and then CNTL. C does not fix the
order of the operands of `|`; the other order fails in the same place.

The waits for RTOFF in `rtc_set_alarm` have a timeout that is only reported; they
are taken to succeed. The counter takes its new value when CNF is cleared, which
is one step (`SetUpCount`).

### AlarmBoot

AlarmSystem, preceded by `rtc_init`: a battery has been put in, the backup domain is
all zeros. `bdcr` is RCC BDCR, which the battery keeps: `lse_init` and `rtc_enable`
skip what its bits say was done, whether it was finished or not. The registers of
`backup_domain_init` are written one at a time (`Store`). The oscillator is ready
whenever it likes, or never. `lse_enable` fails only when the oscillator gets ready
in the very cycle in which the timeout is zero: a timeout that expires is
decremented once more, and is then not zero.

### Light

`CoreModel` drives the worker here, too, but only one write-back a round: what is
of interest is what comes after it. `WorkerSample` and `WorkerRemember` are the read and
the write of the static variables `cached_value` and `pev_ops`; lamp commands, which
go through `pev_ops` as well, come between them. `Round` is the rounded power that the
logarithms of `brightness_log_xlate_to_2` come to: `r` is the number for which
`r - 1/2 <= (span + 1)^(curr / (period - 1)) < r + 1/2`, with both sides doubled and raised
to the `period - 1`, so that only whole numbers occur. `pow` is a recursive function, which
can be proved about. The rounding of `float` before it is left out. The PWM's two channels are two
values. `start`, `peak`, `quiet` and `leftover` are history variables of the dimming
that is going on.

The double reads of `lamp_led0/1` are the subject of Lamp; here `alarm_set_leds` is one
step.

### StatusLed

`led_blink_count--` is a load and a store. The thread and the worker share the
lowest priority and do not interrupt one another; main interrupts both, so
`led_gpio_blink` is one step, anywhere. How long a `k_sleep` takes does not matter; it
ends for a suspended thread as well. Zephyr's `k_thread_suspend` does not end a sleep
and `k_thread_resume` only takes the suspension away.

### Lamp

Two reads of `lamp_led0` in one expression are two steps (`WorkerCompare`,
`WorkerUse`). The alarm's light is any value, and 0 in the last round. One channel
stands for both. The timer counts four hours since the last lamp command, many
rounds of the worker: `TimerExpires` says so, and `TimerFires` may then come at any
point of a round. `owed` is a history variable: the lamp's value was left to the
worker, which has not looked at it since.

### Button

One read is one step, at boot in `fill_button_read_pool` and then in the thread.
`reads_raw` is the set of the bits that are set. `rest`, `hold`, `called` and
`always` are history variables.

### BtAt

A step is an attempt at a command, or one branch of what `hm11_do_at_cmd` does with its
result. `calls` is the C call stack: `simple_reconfig_h` calls `hm11_do_at_cmd` again,
with a `retry` and a `reset_left` of its own. The HM-11 is not part of the firmware; it is
modelled as a set of parameters that are as expected (`good`), some that it will not have
set (`refused`), and a bound on the answers lost in a row. A lost set command may or may
not have been carried out. An answer comes while main waits for it or never.

### BtHost

Before main gets to its loop `hm11_init` runs `hm11_do_at_cmd`, which uses the same buffer,
interrupt and notification stack; what it leaves there is what the loop begins with. So the
module begins with `bt_uart_init` and has an attempt of `hm11_do_at_cmd` as well, action by
action (`AtReconfig` to `AtStop`); only how many bytes the HM-11 sends then, and when, is
looked at. Whether there is another attempt is left open: that is BtAt's business, and main
ignores what `hm11_init` returns.

After that the host sends bytes whenever it likes and pauses where it likes. `notify_stack` is a
count, as nobody looks at the entries; `k_stack_push` hands an entry to main when main is
blocked ("pend1", "pend2", "at_pend1", "at_pend2"). It does not look for room: one entry too
many is written over the stack's own wait queue, and main is "wild" from then on.

A byte takes a millisecond at 9600 baud. Between two steps of main with the interrupt
enabled at most `LagBytes` arrive. What can hold main up there is the button thread, which
prints two messages at a long press (`button-ctl.c:64` and `main.c:206`): 58 characters at
115200 baud, 5.03 ms, in which at most five bytes of a packet of six come. `LagAssumption`
says that: less than a packet. With the interrupt disabled, main may be busy for seconds, and
the UART keeps one byte. `due` is a history variable.

## 3. What is checked

All runs are in `PROJECT.json`. Every one of them is exhaustive.

| Run | Shows |
|---|---|
| `alarm_core` | Type correctness; no assert of the model fails; no alarm outlives its latest end; a stored disarm is kept and keeps the light from its maximum; the inductive invariant of the proofs; refinement of AlarmTimeline; every alarm ends, in the backup registers too; the repository's test passes |
| `alarm_system` | Main is never stuck on the mutex; main always gets it, and so does a button thread that `k_mutex_init` does not forget; a request never reaches an alarm it was not meant for; refinement of AlarmCore, with power cuts between writes |
| `alarm_boot` | From the first power on, with power cuts anywhere: the RTC gets enabled whatever the oscillator does; no alarm that nobody scheduled, unless the very first power on was cut short; asserts fail only after a cut inside a write or on a torn read; a stored disarm still prevents the maximum |
| `lamp` | The PWM shows the brighter of lamp and alarm; the lamp survives alarms; left alone, it is shown in the end, unless it was changed in an alarm's last round |
| `light` | A dimming is one ramp from the light that was on; with lamp commands in between it asks for no more light than there was; ramps meet the steady lights before and after them |
| `status_led` | The worker never freezes a blink; a blinking is lost only just before the thread suspends itself; never too many blinks; dark after an alarm; blinking ends |
| `bt_host` | A packet that begins when main waits, without pauses, is answered and carried out as what it is, whatever came before and follows; from the first time on that main has waited for the host two notification entries suffice; main gets back to waiting |
| `bt_at` | Success of `hm11_init` means every parameter is right; no `MAX_RETRY_AT` lost answers in a row make it fail; it returns if fewer are lost |
| `button` | After a rest a steady press calls back at its threshold, neither earlier nor later; the press at power on never does |

Three runs show what the code does differently from what it says:

| Run | Violated | What happens |
|---|---|---|
| `alarm_system_torn_write` | `core-model.c:132`, the adjustment of a first disarm is zero | Power is cut between `backup_data_set` and `atomic_state_set` (`main.c:171`, `172`) after a first disarm; the alarm comes back undisarmed with an adjustment, and the next press fails the assert |
| `lamp_timer` | `main.c:348`, the timer disarms the lamp | It fires in the worker's last sleep, and nobody writes the zero |
| `bt_host_cut` | `bt-hm11-ctl.c:431`, the packet is full | The second `k_stack_pop` times out; a command is carried out with zeros for what is missing |

Met on the way, without a run of their own:

* `bt-hm11-ctl.c:293` has a module reset that still does not respond, but the condition
  in line 295 looks at `retry` and `reset_left` only. For the first command of a list an
  answer that comes with the last retry falls through to it and is thrown away. That is
  why `InitEnds` needs one lost answer in a row fewer than `FailsForAReason`; and a
  module that never answers is asked for ever.
* `rtc_get_time` (`rtc-ctl.c:172`, "TODO: support CNTL overflow") reads CNTH and then CNTL.
  When CNTL runs over in between, at multiples of 65536 s, the time is that much too small
  once, and the asserts of `core-model.c:290` and `317` fail for an alarm disarmed
  shortly before. `FailsOnlyWhenTorn` names the case. An adjustment of which only the
  high half was written is the other way to it: it may be later than the time.
* `alarm_set_leds` reads the volatile `lamp_led0` to compare it and again to use it. A
  lamp command in between makes the PWM show less than the alarm's light for one round,
  against "use MAX" in `main.c:122`: `ShowsBrighter` excludes rounds that a command came
  into.
* `brightness-unified-model.c:66` says that the PWM is read "only on first
  BRIGHTNESS_THIS_OR_OFF". A lamp command in the middle of a dimming sets `pev_ops` to
  OFF, and the worker reads it again: the ramp then starts from a light that is on the
  way down already, and falls below the curve (`quiet`). An alarm that is dropped
  while dimming leaves `pev_ops` behind, and a press in the very first round of the next
  alarm's rise dims from the old alarm's light (`leftover`).
* `led_gpio_blink` just before the blink thread suspends itself is lost: the count
  stays, so that the worker leaves the LED alone as well until the next alarm (`lost`).
* The first power on, cut between RTCEN and the write of the flags, leaves zeros in the
  backup registers, which are `A_ALARM_NEW` with a wait of 0: the next power on
  starts to light up, although `core-model.h:42` has `A_ALARM_POR_VALUE` for that.
  `OnlyScheduled` excludes it (`"init" \in cuts`).
* `lse_init` never fails: a timeout that expires counts as success (`ClockOK`).
* The notification stack can overflow before main has waited for the host for the first time:
  both pops of `hm11_do_at_cmd` (`bt-hm11-ctl.c:275`, `276`) time out, the first and the last byte of the
  answer come in the `k_sleep(10)` after them and push two entries, nothing takes them away, and the
  first byte of the next attempt, or of main's loop, that comes before a pop pushes a third
  into `stack_arr[2]`. That is why `NotifyFits` begins with main's first wait, which empties
  the stack for good. No comment or test says how full the stack may be, so it has no
  run. Entries that are left behind also make main take a first packet too early;
  `DueIsServed` is about packets that come while main waits.
* `bt-hm11-ctl.h:25` has a sleep time "more than RISE_TIME_S" and line 39 a brightness "less than
  100%"; the code takes both when they are equal, and its own messages say so.
* `core-model.c` may lose the exception for a third press (`BadProcessNewDisarm`), and
  the repository's test still passes: it presses again only when an alarm is
  cancelled. `NoAssert` fails.
* A button thread that waits for the mutex at `k_mutex_init` is forgotten: it is
  `"lost"` in AlarmSystem until the next power cut. `WaitersGoOn` counts it as not
  waiting.

### Bounds

* **alarm_core**: durations 3, 1, 2, 4, 2 and 3 s, waits 0 and 2 s, 32 for 2^32 and
  an RTC that stops at 16. The longest alarm ends at 14, so every course runs to its
  end with time to spare; the durations that could be mistaken for one another
  differ; 32 is large enough for no sum to wrap and small enough for every
  difference before its time to do so. Nothing bounds presses, power cuts or new
  alarms: the state does not count them.
* **alarm_system**: stretches of 1 s (the dimmed hold of 2), registers of 3 bits, an
  RTC that stops at 7. The longest alarm that waits 1 s ends before. A wait of 9 s
  needs both halves of a register. Two alarms in a row and any number of presses
  and cuts are reachable.
* **alarm_boot**: registers of 2 bits, so that CNTL runs over at 4, in the middle of an
  alarm that waits 0 s and before one that waits 5; an RTC that stops at 7. Power
  cuts, new alarms and presses in any number. Five attempts for the oscillator, as in
  the code, of which a second is never needed twice.
* **light**: ramps of 2, 3 and 2 s around steady lights of 1; 4 for the PWM's 65535, so
  totals up to 8, and a middle of 3, which is odd and below the first LED's maximum, as
  0x1BFE is; lamps of three steps, whose lowest is below the threshold. An RTC that stops at
  10, when every course is over: 1 + 2 + 1 + 3 + 1 + 2 s undisturbed, less when disarmed.
* **status_led**: 5 blinks for 250.
* **lamp**: levels 0 to 3 and a threshold of 1: below it, on it and above it, with
  room for lamp and alarm to be in either order.
* **button**: windows of 6 and 12 reads with thresholds 3 and 7 for 8 and 64 with 4 and
  57. `WindowsAssumption` keeps what matters: as many released reads as take a full
  long window below its threshold fill the short one. With a rest of only
  `BUTTON_READS_STD` reads the property is false: old reads make the
  press long too early, and with still fewer the callback may be left out.
* **bt_host**: packets of 4 bytes for 6 (prefix, command and two of payload: a lamp needs
  both), one of each kind, valid and not (a lamp, a ping, an alarm in 11 s, a disarm whose
  payload has a byte that is a prefix, a bad prefix); bytes below 8. Answers of the HM-11 of 2 bytes,
  shorter than a packet, and of 4, in any number and cut anywhere. `MAX_RX_SIZE` is 5, a buffer of
  6 that a packet and the bytes behind it overrun. `LagBytes` of 3 is the largest that is smaller
  than a packet; with 4 a whole packet could come between two steps of main, and `NotifyFits` fails.
* **bt_at**: 3 retries for 15, and five parameters: two that must be right, two that can be
  set and between them one that cannot. Any of them may be wrong, any of the two refused.

### Fairness

Safety needs none. `EveryAlarmEnds` assumes that the RTC ticks (its
oscillator runs from the battery) and that the worker takes its two steps when it
can: it has the lowest priority, but nobody above it runs without sleeping. It does not
assume that power cuts or new alarms stop; the property says what happens if
they do. The RTC's bound is no obstacle: it is beyond the latest end.
`WaitersGoOn` assumes that main, when it neither waits for the host nor for the mutex, and
the worker, when it runs at main's or the button's priority, go on.
`BlinkingEnds` assumes that sleeps end and that the blink thread runs when main sleeps.
`LampIsShown` assumes that the worker is run; that lamp commands and new alarms stop is in the
property, and whether the alarm ends is left open.
`ComesToRest` assumes that main runs, that its timeout expires and that a byte on the way
arrives. `InitEnds` assumes that main runs; that answers come is the bound `most`.

## 4. What is proved

`AlarmCoreProofs` proves, for every value of the durations, of the wait times and of
the word size:

| Theorem | Property |
|---|---|
| `TypeCorrect` | `TypeOK`: types only, which a wrapped difference has as well |
| `NoAssertFails` | `NoAssert` |
| `EndsInTime` | `Deadline` |
| `AlwaysConsistent` | `Consistent` |
| `NeverBrightAfterDisarm` | `DisarmedNotBright` |
| `DisarmIsKept` | `DisarmKept` |
| `Implements` | `TimelineSpec`: AlarmCore refines AlarmTimeline |

**Assumptions.** `DurationsAssumption`: every duration fits a word.
`NoWrapIntoHold`: `decrease_to_mid_time + disarm_hold_mid_time <= WordMod`. It is what
`process_new_disarm` relies on when it compares a difference that may have
wrapped; the firmware's 910 s against 2^32 s leave room. `TimesAssumption`: the
RTC's bound and the wait times fit a word. Sums like `wait_time + rise_time` need
not fit: they are formed by the properties only, never by the code.

**Argument.** `NoAssert` and `Deadline` are not inductive: whether an assert
holds depends on which adjustments may go with which flags, in the worker's block
and in the backup registers a power cut returns to. `Consistent` says that: no request
is left in a block between calls; an adjustment is zero until a disarm, then past
and inside the stretches that answer a press; the backup registers are never ahead
of the block. `IInv` is `TypeOK /\ NoAssert /\ Deadline /\ Consistent`. Lemmas about
`CoreModel`'s operators (what a first, a second and a late request make of flags
and adjustment, which branch of the model is taken when) carry the step of
`Model`; the others follow from the parts the action leaves alone. For the
refinement `CourseOf` maps flags and adjustment to a course, and a lemma per course
shows that the branch of the code is the stretch of the timetable that is on.

`AlarmSystemProofs` has the theorems about AlarmSystem and AlarmBoot, for every width of
the registers, every duration, wait and bound of the RTC:

| Theorem | States | Assumption |
|---|---|---|
| `MainIsNeverStuck` | `Spec => []MainNeverStuck` | none |
| `TypeCorrect` | `Spec => []TypeOK` | |
| `DisarmsAreAskedFor` | `Spec => []DisarmWasAsked` | `~FaultInWindow` |
| `SystemImplementsCore` | `Spec /\ []NotTorn => CoreSpec`: AlarmSystem refines AlarmCore | `~FaultInWindow` |
| `ShortAlarmsImplementCore` | `Spec => CoreSpec` | `~FaultInWindow`, `MaxTime < HalfMod` |
| `NeverBrightAfterDisarm` | `Spec => []DisarmedNotBright` | |
| `NeverBrightAfterDisarmFromBoot` | `BootSpec => []DisarmedNotBright` | |
| `SystemImplementsTimeline` | `Spec /\ []NotTorn => TimelineSpec`, of AlarmCore under the refinement mapping | `~FaultInWindow` |
| `SystemNeverHangs` | `Spec /\ []NotTorn => []NeverHangs`: no assert fails | `~FaultInWindow` |
| `ShortAlarmsImplementTimeline` | `Spec =>` both | `~FaultInWindow`, `MaxTime < HalfMod` |
| `ClockIsOK` | `BootSpec => []ClockOK` | |
| `AlarmsAreScheduled` | `BootSpec => []OnlyScheduled` | |
| `OnlyTornAlarmsFail` | `BootSpec => []FailsOnlyWhenTorn` | |

All but the first rest on `SystemAssumption`, `DurationsAssumption` and `NoWrapIntoHold`;
`FaultInWindow` is free where it is not mentioned. The refinement
needs its two hypotheses: a cut inside a write leaves registers that AlarmCore cannot
have (the run `alarm_system_torn_write` has the consequence), and so does a reading of the
RTC that is too small by an overflow of CNTL.

* `LockInv`: the mutex is held by a worker at `reset`, or by nobody alive between
  the abort and `k_mutex_init`; while a new alarm is set up there is no worker. It
  does not mention what the model computes, so it holds with `FaultInWindow` and
  with any width of the registers.
* `CoreModelProofs` has what core-model.c returns for any time, io block and wait, consistent
  or not: after a torn read or a cut inside a write AlarmSystem's blocks are not. It is an
  io block again; it is free of disarms if the one that was passed was free of disarms
  and requests; and when a consistent block is passed with a time that is before its
  adjustment, one assert fails, that the time is not, or the request dates the alarm back
  and the block is consistent again (`TornCall`). The lemmas about consistent
  blocks that AlarmCoreProofs rests on are there, too.
* `AskInv`: a request has been asked for wherever it is: in the flag, in the worker's
  block, in the registers, or with a thread that waits for the mutex. From the abort until
  the flag is cleared the flag and the registers may still be those of the old alarm, but
  there is no worker; from the write of the state on the registers are clean. A cut
  within the set-up would bring the old alarm back after its requests are
  forgotten, hence `~FaultInWindow`.
* `RefInv` is for the refinement: which registers a worker in the middle of its write-back
  and a set-up have written so far (`RegistersFollow`, `SetUpSoFar`). AlarmCore's write-back
  is the first of the worker's writes and its new alarm the abort of the old worker; until
  the last write the mapping (`AbstractBkp` and the others) shows what the registers are going
  to be, and the writes after the first are stutters.
  `SameModel` says that AlarmCore's CoreModel is AlarmSystem's, function by function; that
  the two halves of a word make it up again takes a little arithmetic of `\div` and `%`.
  `SysInv`, `RefInv` without the first contents of the registers, holds in AlarmBoot, too.
* `CoreProofs` is AlarmCoreProofs under the refinement mapping. `ProvedCore` says that its AlarmCore
  is the one that AlarmSystem implements, so that its theorems are theorems about AlarmSystem:
  `SystemImplementsTimeline` and `SystemNeverHangs`.
* `ClockInv`: which bits of RCC BDCR are set at each step of `rtc_init`, and that main and
  its threads do not start before it is through.
* `BrightInv`: a worker's block has every flag that is in the registers, and once it has one
  its light is not on the way to the maximum. The flags are the last register that is
  written and the only one that is read for them, so no cut matters.
* `ScheduledInv`: after `rtc_init` has written FINISHED, nothing but a set-up takes it away,
  and a set-up means that somebody has scheduled an alarm.
* `DomainInv` and `TornInv`: registers and block are each consistent with the counter,
  unless a write of the present alarm was cut (`"write" \in cuts`); what was read of CNTH is
  not ahead of the counter, so that the time the model gets is right or at least one
  overflow too small; and a worker that hangs does so in the one assert that this explains.

The other components:

| Theorem | Property | Assumption |
|---|---|---|
| `LightProofs!TypeCorrect` | `TypeOK` | `LightAssumption`, `DurationsAssumption`, `NoWrapIntoHold` |
| `LightProofs!AlwaysDimsFromWhatWasOn` | `DimsFromWhatWasOn` | the same |
| `LightProofs!DimmingIsAlwaysBounded` | `DimmingIsBounded` | the same |
| `LightProofs!RampsAlwaysMeetHolds` | `RampsMeetHolds` | the same |
| `LightProofs!RampsGoOneWay` | of any ramp: a rise never gets darker, a decrease never brighter | `LightAssumption` |
| `LedProofs!NeverFreezesABlink` | `EnableFindsItSuspended` | `BlinkAssumption` |
| `LedProofs!LostInOneWay` | `BlinksUnlessLost` | `BlinkAssumption` |
| `LedProofs!NeverTooMany` | `NotTooMany` | `BlinkAssumption` |
| `LedProofs!AlwaysDarkAtRest` | `DarkAtRest` | `BlinkAssumption` |
| `LedProofs!AlwaysShowsBrighter` | `ShowsBrighter` | `LevelsAssumption` |
| `LedProofs!AlwaysShowsLamp` | `ShowsLamp` | `LevelsAssumption` |
| `ButtonProofs!BootPressIsNoCallback` | `BootPressNeverCallsBack` | `WindowsAssumption` |
| `ButtonProofs!RestedPressesCallBack` | `RestedPressCallsBack` | it, and the short threshold below the long one |
| `BtHostProofs!NotifyStackSuffices` | `NotifyFits` | `PacketsAssumption`, `LagAssumption` |
| `BtHostProofs!TypeCorrect` | `TypeOK` | `PacketsAssumption` |
| `BtHostProofs!DuePacketsAreServed` | `DueIsServed` | `PacketsAssumption` |
| `BtAtProofs!TypeCorrect` | `TypeOK` | `ListAssumption` |
| `BtAtProofs!SuccessIsConfigured` | `OkIsConfigured` | `ListAssumption` |
| `BtAtProofs!FailureHasAReason` | `FailsForAReason` | `ListAssumption` |

Lamp, Button and StatusLed each have a theorem for their `TypeOK`, too (`TypeCorrect`, and
`LedTypeCorrect` for StatusLed), which their runs therefore leave out. LedProofs extends
Lamp and StatusLed, which share nothing; hence the names `LedInit`, `LedNext` and so on of
the latter.

* Light's curve: `PowersExist` says that the powers of a number exist as a function (an
  induction over the set of the exponents for which they do, from `WFMin` of
  `WellFoundedInduction`, as the induction theorems themselves take operators); what `pow`
  computes and its monotony and product rule follow. `RoundIsNearest`: there is one number
  that `Round` can choose, the first whose upper half is beyond the power, and it is between
  1 and `span + 1`. It is 1 at the beginning of a ramp and `span + 1` at its end, and no
  smaller for a later second.
* `LightInv` of Light: in `WorkerInv`, the worker owns the PWM from its first round on, so that
  no lamp command changes what it shows; a dimming is a ramp of `decrease_to_mid_time` to the
  middle, in every round; and what a round has computed is the ramp from `value_from`. In
  `StartInv`, the PWM is as it was at the start of a dimming until its first round has read
  it, and from then on `cached_value` is, and `pev_ops` says so at the next round. In `PeakInv`,
  which lamp commands do not disturb, the PWM, what has been read of it and `value_from` are
  never above the peak.
* `BlinkInv`: the blinks that have been shown and those that are left are never more than were
  asked for, counting the one that is on; what the blink thread has loaded is never more
  than the count, since a new alarm can only raise it; and the LED is lit by a blink, or by
  the worker while the thread is suspended and has nothing to do.
* `LampInv`: what the worker carries in `led` and `arg` is, unless `owed`, the
  brighter light, and in a last round the alarm's share of it is 0.
* `BootInv`: while every read has been pressed, `reads_raw` has a run of set bits,
  one longer after each read; it fills the short window before a state is derived from
  it, so that neither state was ever NOT_PRESSED. The cardinality of the window comes
  from `FiniteSetTheorems`.
* `RestInv`: `hold` and `rest` are the runs of set and clear bits that `reads_raw` ends in,
  as far as the long window goes back (`RunsInv`); so a count of a window lies between what
  fits into it of the press, and that and what is older than the rest (`CountRun`). With a
  rest of a whole short window, the older bits are too few to matter for the long threshold and
  out of the short window, and the state follows the length of the press (`PressInv`). If
  the thresholds were met at the same read the press would never be a short one first, and
  not call back: the theorem has to exclude that, which the code's 4 and 57 do.
* `EntriesInv`: however many entries `hm11_init` has left behind, the bytes in the buffer have
  an entry each, unless main has taken it. So main is blocked only when there is no
  byte it has not been told of, and when it is blocked in its first pop the stack and the buffer are
  empty.
* `NotifyInv`, which that establishes and every later step keeps: at most one entry is left from
  one packet to the next, and the bytes that come while main is held up, less than a packet,
  make one more. This is where `LagAssumption` is needed. `NotifyFits` has a box under an
  implication under a box, which is left to the temporal prover.
* `DueInv`: where the packet that is due is at each step of main: on the line, byte for byte in
  the buffer and on the line (`UnderWay`), all in the buffer (`Arrived`), in `host_pkt_curr`.
  `EntriesInv` excludes that an entry of an earlier packet wakes main too early. It holds
  for any `LagBytes`.
* `AtInv`: a parameter that is not good is still on the outer list (`ListInv`), where an inner
  call counts for the one it is about to set; the retries that are used up are answers lost in
  a row (`AnswerInv`), so that silence alone uses up no last one; a failure has met a
  parameter that is wrong and cannot be set, or will not be (`RetInv`).

**Only model-checked**: liveness (`EveryAlarmEnds`, `WaitersGoOn`, `LampIsShown`,
`BlinkingEnds`, `ComesToRest`, `InitEnds`), which is out of the prover's reach; and
`CrossTestPasses`, a calculation.

## 5. Not modelled, and what is left

* **PWM and pin set-up** (`pwm/tim3-pwm.c`, `pinmux.c`): register writes in a straight
  line, once, with no state and no branch. What reads the compare registers is in Light.
* **`send_alarm_info`** changes nothing but main's time: it formats four numbers and
  sleeps 9 s. The numbers after the first sleep are as old as the first ones, and an alarm
  may have ended meanwhile; nothing in the repository says that they are not.
* **`rtc_watchdog`** only prints.
* **Late answers of the HM-11**: how late the module can be is nowhere in the code. An
  answer that comes after main has given it up would be taken for the next
  command's; BtAt takes answers to come in time or never.
* **Bytes lost to the lamp timer**: its handler prints 20 characters in an ISR (`main.c:352`), 1.7 ms
  once in four hours, in which the UART may lose a byte of a packet. `DueIsServed` is about packets
  that arrive whole; nor does `LagBytes` count that time on top of a long press's.
* **`float`** in the brightness curve: `log_const` has 24 bits, so that a ramp of 1200 s may
  be off by a few steps of 131070 in its last seconds; `RampsMeetHolds` is about the exact
  power.
* **A power cut after the host was answered** (`bt-hm11-ctl.c:401` knows of it): the host
  has no other way to learn of it, so there is nothing to relate the answer to.
* **Long presses and host commands that come into a set-up of another alarm** are
  those of AlarmSystem; Light and Lamp take `alarm_init_new_new` as one step.

Every safety property of the passing runs is stated by a theorem, `CrossTestPasses`
excepted. `AdjustmentIsZero`, `TimerSwitchesOff` and `OnlyFullPackets` are false of the code
and have their runs.

## 6. How to run it

```
tlc -config AlarmCore.cfg MCAlarmCore.tla
tlc -config AlarmSystem.cfg MCAlarmSystem.tla
tlc -config AlarmBoot.cfg MCAlarmBoot.tla
tlc -config Lamp.cfg Lamp.tla
tlc -config Light.cfg Light.tla
tlc -config StatusLed.cfg StatusLed.tla
tlc -config Button.cfg Button.tla
tlc -config BtHost.cfg MCBtHost.tla
tlc -config BtAt.cfg MCBtAt.tla
for m in CoreModel AlarmCore AlarmSystem Light Led Button BtAt BtHost; do tlapm ${m}Proofs.tla; done
```
