------------------------------ MODULE CrossTest ------------------------------
(***************************************************************************)
(* The repository's own test of the alarm model,                           *)
(* src/core-model/model-cross-test.c, replayed on the model of CoreModel:  *)
(* one script per check, under its C name, and one entry per call of       *)
(* do_alarm_model, with what is asserted after it.                         *)
(*                                                                         *)
(* The test leaves some outputs of some calls out of its assertions (the   *)
(* period of a steady light, say); here every entry states all of them.    *)
(***************************************************************************)
LOCAL INSTANCE Integers
LOCAL INSTANCE SequencesExt

\* The test's uint32_t, a power of two that TLC can count to; its last value
\* stands for the test's 0xFFFFFFFF.
TestWordMod == 2^30
LastWord    == TestWordMod - 1

\* set_const_params_a
A == INSTANCE CoreModel WITH
       rise_time <- 40, hold_max_time <- 30, decrease_to_mid_time <- 10,
       hold_mid_time <- 70, disarm_hold_mid_time <- 50, decrease_to_zero_time <- 20,
       WordMod <- TestWordMod

\* set_const_params_b.  It does not set the hold after a disarm: any value.
B(unset) == INSTANCE CoreModel WITH
       rise_time <- 1200, hold_max_time <- 900, decrease_to_mid_time <- 50,
       hold_mid_time <- 3600, disarm_hold_mid_time <- unset,
       decrease_to_zero_time <- 60, WordMod <- TestWordMod

A_alarm_model(time_sec, io) == A!do_alarm_model(time_sec, io, 60)
B_alarm_model(unset, time_sec, io) == B(unset)!do_alarm_model(time_sec, io, 27000)

------------------------------------------------------------------------------
(* Calls and what is expected of them *)

\* "disarmed": the disarm flags that are set, not looked at when there are none.
Call(time, light) ==
  [time |-> time, press |-> FALSE, clear |-> FALSE, light |-> light,
   over |-> FALSE, disarmed |-> {}, adj |-> 0]

Steady(level, times) ==
  [i \in DOMAIN times |->
     Call(times[i], [period |-> 0, curr |-> 0, from |-> level, to |-> level])]

Ramp(from, to, start, period, times) ==
  [i \in DOMAIN times |->
     Call(times[i], [period |-> period, curr |-> times[i] - start,
                     from |-> from, to |-> to])]

Over(times) ==
  [i \in DOMAIN times |-> [Steady("OFF", times)[i] EXCEPT !.over = TRUE]]

\* A_ALARM_FINISHED is cleared before each call.
Cleared(calls) == [i \in DOMAIN calls |-> [calls[i] EXCEPT !.clear = TRUE]]

\* set_disarm_new comes before the first call.
Press(calls) == [calls EXCEPT ![1].press = TRUE]

Disarmed(flag, adj, calls) ==
  [i \in DOMAIN calls |-> [calls[i] EXCEPT !.disarmed = {flag}, !.adj = adj]]

AsExpected(call, io) ==
  /\ io.light = call.light
  /\ A!alarm_finished(io) <=> call.over
  /\ "NEW" \notin io.info /\ io.failed = {}
  /\ call.disarmed # {} =>
       /\ io.info \cap {"PRIMARY", "SECONDARY", "PRE_CANCEL"} = call.disarmed
       /\ io.adj = call.adj

Passes(Model(_, _), check) ==
  LET Replay(test, call) ==
        LET cleared == IF call.clear THEN [test.io EXCEPT !.info = @ \ {"FINISHED"}]
                       ELSE test.io
            io == Model(call.time, IF call.press THEN A!set_disarm_new(cleared) ELSE cleared)
        IN  [io |-> io, passed |-> test.passed /\ AsExpected(call, io)]
      start == [io |-> A!StartIO(A!A_ALARM_NEW, 0), passed |-> TRUE]
  IN  FoldLeft(Replay, start, check).passed

------------------------------------------------------------------------------
(* The courses of an alarm with the parameters a *)

Waits(times)    == Steady("OFF", times)
Rises(times)    == Ramp("OFF", "MAX", 60, 40, times)
Holds(times)    == Steady("MAX", times)
Falls(times)    == Ramp("MAX", "MID", 130, 10, times)
HoldsMid(times) == Steady("MID", times)
Fades(times)    == Ramp("MID", "OFF", 210, 20, times)

\* Disarmed early, its adjustment at "start" ...
Dims(start, times)        == Disarmed("PRIMARY", start,
                                      Ramp("THIS_OR_OFF", "MID", start, 10, times))
DimHolds(start, times)    == Disarmed("PRIMARY", start, Steady("MID", times))
DimFades(start, times)    == Disarmed("PRIMARY", start,
                                      Ramp("MID", "OFF", start + 60, 20, times))
\* ... or in the middle hold, or before it was triggered.
GoesOut(start, times)     == Disarmed("SECONDARY", start,
                                      Ramp("MID", "OFF", start, 20, times))
Cancelled(times)          == Disarmed("PRE_CANCEL", 0, Over(times))

Rising  == Waits(<<0, 1, 59>>) \o Rises(<<60, 61, 99>>)
Bright  == Rising \o Holds(<<100, 101, 129>>)
Ages    == Cleared(Over(<<255, 256, 65535, LastWord>>))

check_a ==
  Bright \o Falls(<<130, 131, 139>>) \o HoldsMid(<<140, 141, 209>>)
    \o Fades(<<210, 211, 229>>) \o Over(<<230>>) \o Cleared(Over(<<231, 255>>))
    \o Over(<<256>>) \o Cleared(Over(<<65535, LastWord>>))

check_a_partial_1 ==
  Holds(<<100, 101, 129>>) \o Falls(<<130, 131, 139>>) \o HoldsMid(<<140, 209>>)
    \o Fades(<<210, 229>>) \o Over(<<230>>) \o Cleared(Over(<<231, LastWord>>))

check_a_disarm_before_trigger ==
  Waits(<<0, 1>>) \o Press(Cancelled(<<5, 6>>)) \o Over(<<85>>) \o Ages

check_a_disarm_before_trigger_2 ==
  Press(Cancelled(<<0>>)) \o Over(<<80>>) \o Ages

check_a_disarm_while_rise ==
  Waits(<<0, 1, 59>>) \o Rises(<<60, 61>>) \o Press(Dims(62, <<62, 63, 71>>))
    \o DimHolds(62, <<72, 73, 121>>) \o DimFades(62, <<122, 123, 141>>)
    \o Over(<<142>>) \o Ages

check_a_disarm_while_rise_2 ==
  Waits(<<0, 1, 59>>) \o Press(Dims(60, <<60, 69>>)) \o DimHolds(60, <<70, 119>>)
    \o DimFades(60, <<120, 121, 139>>) \o Over(<<140>>) \o Cleared(Over(<<65535>>))

check_a_disarm_while_hold_max ==
  Rising \o Holds(<<100, 101>>) \o Press(Dims(102, <<102, 103, 111>>))
    \o DimHolds(102, <<112, 113, 161>>) \o DimFades(102, <<162, 163, 181>>)
    \o Over(<<182>>) \o Ages

check_a_disarm_while_hold_max_2 ==
  Rises(<<99>>) \o Press(Dims(100, <<100, 109>>)) \o DimHolds(100, <<110>>)
    \o DimFades(100, <<161, 179>>) \o Over(<<180>>) \o Cleared(Over(<<LastWord>>))

check_a_disarm_while_decr_to_mid ==
  Bright \o Falls(<<130, 131>>) \o Press(Dims(130, <<132, 133, 139>>))
    \o DimHolds(130, <<140, 141, 189>>) \o DimFades(130, <<190, 191, 209>>)
    \o Over(<<210>>) \o Ages

check_a_disarm_while_decr_to_mid_2 ==
  Holds(<<129>>) \o Press(Dims(130, <<130, 133, 139>>)) \o DimHolds(130, <<140>>)
    \o DimFades(130, <<209>>) \o Over(<<210>>)

check_a_disarm_while_hold_mid ==
  Bright \o Falls(<<130, 131, 139>>) \o HoldsMid(<<140, 141>>)
    \o Press(GoesOut(142, <<142, 143, 161>>)) \o Over(<<162>>) \o Ages

check_a_disarm_while_hold_mid_2 ==
  Falls(<<139>>) \o Press(GoesOut(140, <<140, 159>>)) \o Over(<<162>>)

check_a_disarm_while_hold_mid_3 ==
  HoldsMid(<<140, 141>>) \o Press(GoesOut(209, <<209, 210, 228>>)) \o Over(<<229>>)
    \o Cleared(Over(<<255, 65535>>))

check_a_disarm_before_trigger__wsecondary ==
  Waits(<<0, 1>>) \o Press(Cancelled(<<5>>)) \o Press(Cancelled(<<6>>))
    \o Press(Cancelled(<<14>>)) \o Over(<<35>>) \o Press(Cleared(Cancelled(<<255>>)))
    \o Cleared(Over(<<256, 65535, LastWord>>))

\* Once it is over, an alarm stays over whatever the time.
check_a_finish ==
  Waits(<<0>>) \o Rises(<<60>>)
    \o Over(<<230, 61, 0, 99, 1, 100, 101, 129, 130, 131, 139, 140, 141, 209, 210, 211,
              229, 230, 231, 255, 256, 65535, LastWord>>)

check_b ==
  Steady("OFF", <<0, 1, 26999>>)
    \o Ramp("OFF", "MAX", 27000, 1200, <<27000, 27001, 28199>>)
    \o Steady("MAX", <<28200, 28201, 29099>>)
    \o Ramp("MAX", "MID", 29100, 50, <<29100, 29101, 29149>>)
    \o Steady("MID", <<29150, 29151, 32749>>)
    \o Ramp("MID", "OFF", 32750, 60, <<32750, 32751, 32809>>)
    \o Over(<<32810>>) \o Cleared(Over(<<32811, 32812, 65535, LastWord>>))

------------------------------------------------------------------------------
ChecksOfA ==
  {check_a, check_a_partial_1, check_a_finish, check_a_disarm_before_trigger,
   check_a_disarm_before_trigger_2, check_a_disarm_while_rise,
   check_a_disarm_while_rise_2, check_a_disarm_while_hold_max,
   check_a_disarm_while_hold_max_2, check_a_disarm_while_decr_to_mid,
   check_a_disarm_while_decr_to_mid_2, check_a_disarm_while_hold_mid,
   check_a_disarm_while_hold_mid_2, check_a_disarm_while_hold_mid_3,
   check_a_disarm_before_trigger__wsecondary}

\* main of the test.
FailedChecks ==
  {check \in ChecksOfA : ~Passes(A_alarm_model, check)}
    \cup {unset \in {0, 900, LastWord} :
            ~Passes(LAMBDA time_sec, io : B_alarm_model(unset, time_sec, io), check_b)}

\* What the test asserts of core-model.c holds of CoreModel, with the durations
\* of a minute and with those of a night, whatever is in the parameter that
\* set_const_params_b leaves uninitialised.
CrossTestPasses == FailedChecks = {}
==============================================================================
