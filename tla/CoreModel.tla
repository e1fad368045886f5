------------------------------ MODULE CoreModel ------------------------------
(***************************************************************************)
(* The alarm model of src/core-model/core-model.c: a function of the RTC   *)
(* time, the alarm's io block and its parameters that decides what the     *)
(* lamp has to show and which disarm flags are set.  One operator per C    *)
(* function, under its C name; the io block is passed and returned by      *)
(* value.                                                                  *)
(*                                                                         *)
(*  io.info    atomic_alarm_info, as the set of the flags that are set     *)
(*  io.adj     disarm_time_adjustment                                      *)
(*  io.light   the four brightnes_* outputs                                *)
(*  io.failed  the dynamic_asserts that did not hold during the call (the  *)
(*             firmware then spins for ever in the caller's thread)        *)
(***************************************************************************)
EXTENDS Integers

CONSTANTS
  rise_time, hold_max_time, decrease_to_mid_time, hold_mid_time,
  decrease_to_zero_time, disarm_hold_mid_time,   \* struct core_model_params
  WordMod                                        \* 2^32: range of a uint32_t

\* Every duration is a uint32_t.
ASSUME DurationsAssumption ==
  /\ WordMod \in Nat \ {0}
  /\ {rise_time, hold_max_time, decrease_to_mid_time, hold_mid_time,
      decrease_to_zero_time, disarm_hold_mid_time} \subseteq 0 .. WordMod - 1

\* process_new_disarm relies on this when it lets a subtraction wrap: the
\* wrapped value must not be mistaken for a time inside the middle hold.
\* The firmware's 10 s + 900 s are far below 2^32.
ASSUME NoWrapIntoHold ==
  decrease_to_mid_time + disarm_hold_mid_time <= WordMod

Word   == 0 .. WordMod - 1
Levels == {"OFF", "MID", "MAX", "THIS_OR_OFF"}
Flags  == {"NEW", "PRIMARY", "SECONDARY", "PRE_CANCEL", "FINISHED"}

A_ALARM_NEW       == {}
A_ALARM_POR_VALUE == {"FINISHED"}

\* The dynamic_asserts of the file, by the condition they state.
Asserts == {"flag not yet set", "adjustment is zero", "rtc not before adjustment"}

\* struct core_model_io: the outputs have no value until the first call.
Lights  == [period : Word, curr : Word, from : Levels, to : Levels]
NoLight == [period |-> 0, curr |-> 0, from |-> "unset", to |-> "unset"]
IO      == [info : SUBSET Flags, adj : Word, light : Lights \cup {NoLight},
            failed : SUBSET Asserts]

\* The io block a worker starts from: its RW half, the outputs unset.
StartIO(info, adj) ==
  [info |-> info, adj |-> adj, light |-> NoLight, failed |-> {}]

\* a - b on uint32_t operands
Sub(a, b) == IF b <= a THEN a - b ELSE a - b + WordMod

dynamic_assert(io, name, holds) ==
  [io EXCEPT !.failed = IF holds THEN @ ELSE @ \cup {name}]

------------------------------------------------------------------------------
(* Outputs *)

set_const_brightness(io, level) ==
  [io EXCEPT !.light = [period |-> 0, curr |-> 0, from |-> level, to |-> level]]

\* The four assignments every ramp branch makes.
SetRamp(io, period, curr, from, to) ==
  [io EXCEPT !.light =
     [period |-> period, curr |-> curr, from |-> from, to |-> to]]

\* Wrong on purpose, as are all definitions named Bad...: they stand in for the
\* definition after them to show that a property would notice.  This one
\* assigns where the code ors.
BadSetAlarmFinished(io) == [io EXCEPT !.info = {"FINISHED"}]
set_alarm_finished(io) == [io EXCEPT !.info = @ \cup {"FINISHED"}]

\* The last lines of the three models that can run out.
DarkAndFinished(io) == set_alarm_finished(set_const_brightness(io, "OFF"))

alarm_finished(io) == "FINISHED" \in io.info
set_disarm_new(io) == [io EXCEPT !.info = @ \cup {"NEW"}]
ClearNew(io)       == [io EXCEPT !.info = @ \ {"NEW"}]

do_alarm_finished(io) == set_const_brightness(ClearNew(io), "OFF")

------------------------------------------------------------------------------
(* Disarm requests *)

disarm_adjust_secondary(adjustment, io) ==
  [dynamic_assert(io, "flag not yet set", "SECONDARY" \notin io.info)
     EXCEPT !.info = @ \cup {"SECONDARY"}, !.adj = adjustment]

disarm_adjust_primary(adjustment, io) ==
  LET checked == dynamic_assert(
                   dynamic_assert(io, "flag not yet set", "PRIMARY" \notin io.info),
                   "adjustment is zero", io.adj = 0)
  IN  [checked EXCEPT !.info = @ \cup {"PRIMARY"}, !.adj = adjustment]

disarm_adjust_pre_cancel(io) ==
  LET checked == dynamic_assert(
                   dynamic_assert(io, "flag not yet set", "PRE_CANCEL" \notin io.info),
                   "adjustment is zero", io.adj = 0)
  IN  [checked EXCEPT !.info = @ \cup {"PRE_CANCEL"}]

\* A request while the light is on its way to, or held at, the middle level
\* because of an earlier request.  (The assert on its first line repeats the
\* test that led here.)
SecondDisarm(rtc_time, io) ==
  LET model_time                 == Sub(rtc_time, io.adj)
      time_since_disarmed_to_mid == Sub(model_time, decrease_to_mid_time)
  IN  IF time_since_disarmed_to_mid < disarm_hold_mid_time
      THEN disarm_adjust_secondary(rtc_time, io)
      ELSE io

\* Takes a press in the middle hold for a primary one.
BadFirstDisarmHold(rtc_time, io, wait_time) ==
  LET middle == wait_time + rise_time + hold_max_time + decrease_to_mid_time
  IN  IF rtc_time < wait_time
      THEN disarm_adjust_pre_cancel(io)
      ELSE IF rtc_time < middle + hold_mid_time
      THEN disarm_adjust_primary(rtc_time, io)
      ELSE io

\* Does not date a press during the first decrease back to its start.
BadFirstDisarmDate(rtc_time, io, wait_time) ==
  LET middle == wait_time + rise_time + hold_max_time + decrease_to_mid_time
  IN  IF rtc_time < wait_time
      THEN disarm_adjust_pre_cancel(io)
      ELSE IF rtc_time < middle
      THEN disarm_adjust_primary(rtc_time, io)
      ELSE IF rtc_time < middle + hold_mid_time
      THEN disarm_adjust_secondary(rtc_time, io)
      ELSE io

\* A first request.  All the differences are computed, wrapped or not, before
\* the first comparison; the order of the comparisons makes that harmless.
FirstDisarm(rtc_time, io, wait_time) ==
  LET time_since_triggered == Sub(rtc_time, wait_time)
      time_after_max_brght == Sub(time_since_triggered, rise_time)
      time_since_decr_mid  == Sub(time_after_max_brght, hold_max_time)
      time_after_mid_brght == Sub(time_since_decr_mid, decrease_to_mid_time)
  IN  IF rtc_time < wait_time
      THEN disarm_adjust_pre_cancel(io)
      ELSE IF \/ time_since_triggered < rise_time
              \/ time_after_max_brght < hold_max_time
      THEN disarm_adjust_primary(rtc_time, io)
      ELSE IF time_since_decr_mid < decrease_to_mid_time
      THEN disarm_adjust_primary(Sub(rtc_time, time_since_decr_mid), io)
      ELSE IF time_after_mid_brght < hold_mid_time
      THEN disarm_adjust_secondary(rtc_time, io)
      ELSE io

\* Lets a third press through.
BadProcessNewDisarm(rtc_time, io, wait_time) ==
  LET cleared == ClearNew(io)
  IN  IF "PRE_CANCEL" \in io.info
      THEN cleared
      ELSE IF "PRIMARY" \in io.info
      THEN SecondDisarm(rtc_time, cleared)
      ELSE FirstDisarm(rtc_time, cleared, wait_time)

process_new_disarm(rtc_time, io, wait_time) ==
  LET cleared == ClearNew(io)
  IN  IF {"SECONDARY", "PRE_CANCEL"} \cap io.info # {}
      THEN cleared
      ELSE IF "PRIMARY" \in io.info
      THEN SecondDisarm(rtc_time, cleared)
      ELSE FirstDisarm(rtc_time, cleared, wait_time)

------------------------------------------------------------------------------
(* What to show *)

do_alarm_model_disarmed_late(rtc_time, io) ==
  LET checked    == dynamic_assert(io, "rtc not before adjustment", rtc_time >= io.adj)
      model_time == Sub(rtc_time, io.adj)
  IN  IF model_time < decrease_to_zero_time
      THEN SetRamp(checked, decrease_to_zero_time, model_time, "MID", "OFF")
      ELSE DarkAndFinished(checked)

do_alarm_model_disarmed_early(rtc_time, io) ==
  LET checked    == dynamic_assert(io, "rtc not before adjustment", rtc_time >= io.adj)
      model_time == Sub(rtc_time, io.adj)
      time_since_disarmed_to_mid == Sub(model_time, decrease_to_mid_time)
      time_since_decr_zero == Sub(time_since_disarmed_to_mid, disarm_hold_mid_time)
  IN  IF model_time < decrease_to_mid_time
      THEN SetRamp(checked, decrease_to_mid_time, model_time, "THIS_OR_OFF", "MID")
      ELSE IF time_since_disarmed_to_mid < disarm_hold_mid_time
      THEN set_const_brightness(checked, "MID")
      ELSE IF time_since_decr_zero < decrease_to_zero_time
      THEN SetRamp(checked, decrease_to_zero_time, time_since_decr_zero, "MID", "OFF")
      ELSE DarkAndFinished(checked)

\* Dark, but never finished.
BadPreCancel(io) == set_const_brightness(io, "OFF")
do_alarm_model_disarmed_pre_cancel(io) == DarkAndFinished(io)

do_alarm_model_direct(rtc_time, io, wait_time) ==
  LET time_since_triggered == Sub(rtc_time, wait_time)
      time_after_max_brght == Sub(time_since_triggered, rise_time)
      time_since_decr_mid  == Sub(time_after_max_brght, hold_max_time)
      time_after_mid_brght == Sub(time_since_decr_mid, decrease_to_mid_time)
      time_since_decr_zero == Sub(time_after_mid_brght, hold_mid_time)
  IN  IF rtc_time < wait_time
      THEN set_const_brightness(io, "OFF")
      ELSE IF time_since_triggered < rise_time
      THEN SetRamp(io, rise_time, time_since_triggered, "OFF", "MAX")
      ELSE IF time_after_max_brght < hold_max_time
      THEN set_const_brightness(io, "MAX")
      ELSE IF time_since_decr_mid < decrease_to_mid_time
      THEN SetRamp(io, decrease_to_mid_time, time_since_decr_mid, "MAX", "MID")
      ELSE IF time_after_mid_brght < hold_mid_time
      THEN set_const_brightness(io, "MID")
      ELSE IF time_since_decr_zero < decrease_to_zero_time
      THEN SetRamp(io, decrease_to_zero_time, time_since_decr_zero, "MID", "OFF")
      ELSE DarkAndFinished(io)

\* Forgets that an early disarm is one.
BadNoDisarmPending(io) == io.info \cap {"NEW", "PRE_CANCEL", "SECONDARY"} = {}

no_disarm_pending(io) ==
  io.info \cap {"NEW", "PRE_CANCEL", "PRIMARY", "SECONDARY"} = {}

\* The model chosen by the sticky flags.
ModelByFlags(rtc_time, io, wait_time) ==
  IF no_disarm_pending(io)
  THEN do_alarm_model_direct(rtc_time, io, wait_time)
  ELSE IF "SECONDARY" \in io.info
  THEN do_alarm_model_disarmed_late(rtc_time, io)
  ELSE IF "PRIMARY" \in io.info
  THEN do_alarm_model_disarmed_early(rtc_time, io)
  ELSE do_alarm_model_disarmed_pre_cancel(io)

do_alarm_model(rtc_time, io, wait_time) ==
  IF alarm_finished(io)
  THEN do_alarm_finished(io)
  ELSE ModelByFlags(rtc_time,
                    IF "NEW" \in io.info
                    THEN process_new_disarm(rtc_time, io, wait_time)
                    ELSE io,
                    wait_time)

------------------------------------------------------------------------------
(* What properties and proofs say of an alarm *)

\* When an alarm that waits w seconds is through with its maximum, with the
\* decrease after it, and, disarms or not, with its last second of light.
Longer(a, b) == IF a <= b THEN b ELSE a
TopEnd(w)    == w + rise_time + hold_max_time
FadeEnd(w)   == TopEnd(w) + decrease_to_mid_time
LatestEnd(w) == FadeEnd(w) + Longer(hold_mid_time, disarm_hold_mid_time)
                  + decrease_to_zero_time

\* The flags a block may have between two calls of the model: no request is
\* left in it, and a cancelled alarm is finished and nothing else.
FlagsOK(info) ==
  /\ "NEW" \notin info
  /\ "PRE_CANCEL" \in info => info = {"PRE_CANCEL", "FINISHED"}

\* The adjustment that may go with them at time t, for wait time w: zero until
\* a disarm, then a time that is past and within the stretches of the alarm
\* that answer to a press.
AdjOK(info, adj, t, w) ==
  /\ adj <= t
  /\ {"PRIMARY", "SECONDARY"} \cap info = {} => adj = 0
  /\ "PRIMARY" \in info /\ "SECONDARY" \notin info => adj <= TopEnd(w)
  /\ "SECONDARY" \in info =>
       adj < FadeEnd(w) + Longer(hold_mid_time, disarm_hold_mid_time)
==============================================================================
