--------------------------- MODULE CoreModelProofs ---------------------------
(***************************************************************************)
(* What core-model.c returns.                                              *)
(*                                                                         *)
(* First for any RTC time, io block and wait time, be they consistent or   *)
(* not: an io block, which is disarmed only if there was a request or a    *)
(* disarm in the one that was passed.  Then for those that are: the lemmas *)
(* ...Cases turn the wrapped differences of the code into intervals of the *)
(* RTC, and everything after that reasons about the intervals.             *)
(***************************************************************************)
EXTENDS CoreModel, TLAPS

\* The durations are numbers below the word, and the two named sums stay in it.
LEMMA DurationTypes ==
  /\ WordMod \in Nat \ {0}
  /\ rise_time \in Nat /\ rise_time < WordMod
  /\ hold_max_time \in Nat /\ hold_max_time < WordMod
  /\ decrease_to_mid_time \in Nat /\ decrease_to_mid_time < WordMod
  /\ hold_mid_time \in Nat /\ hold_mid_time < WordMod
  /\ decrease_to_zero_time \in Nat /\ decrease_to_zero_time < WordMod
  /\ disarm_hold_mid_time \in Nat /\ disarm_hold_mid_time < WordMod
  /\ decrease_to_mid_time + disarm_hold_mid_time <= WordMod
  BY DurationsAssumption, NoWrapIntoHold

\* The durations are words, and so are zero and all differences of words.
LEMMA Words ==
  /\ 0 \in Word
  /\ {rise_time, hold_max_time, decrease_to_mid_time, hold_mid_time,
      decrease_to_zero_time, disarm_hold_mid_time} \subseteq Word
  /\ \A a, b \in Word : Sub(a, b) \in Word
  BY DurationsAssumption DEF Word, Sub

Dark == [period |-> 0, curr |-> 0, from |-> "OFF", to |-> "OFF"]
RampOf(period, curr, from, to) ==
  [period |-> period, curr |-> curr, from |-> from, to |-> to]

\* r is b with another set of flags and another light.
Outputs(r, b, info, light) ==
  /\ r \in IO
  /\ r.info = info
  /\ r.adj = b.adj
  /\ r.failed = b.failed
  /\ r.light = light

\* A ramp of core-model.c changes the four outputs and nothing else.
LEMMA RampFields ==
  ASSUME NEW b \in IO, NEW p \in Word, NEW c \in Word,
         NEW f \in Levels, NEW l \in Levels
  PROVE  Outputs(SetRamp(b, p, c, f, l), b, b.info, RampOf(p, c, f, l))
PROOF
<1>1. RampOf(p, c, f, l) \in Lights
  BY DEF Lights, RampOf
<1>2. SetRamp(b, p, c, f, l) = [b EXCEPT !.light = RampOf(p, c, f, l)]
  BY DEF SetRamp, RampOf
<1> QED BY <1>1, <1>2 DEF IO, Outputs

\* set_const_brightness changes the four outputs and nothing else.
LEMMA ConstFields ==
  ASSUME NEW b \in IO, NEW l \in Levels
  PROVE  Outputs(set_const_brightness(b, l), b, b.info, RampOf(0, 0, l, l))
PROOF
<1>1. 0 \in Word
  BY DurationTypes DEF Word
<1>2. RampOf(0, 0, l, l) \in Lights
  BY <1>1 DEF Lights, RampOf
<1>3. set_const_brightness(b, l) = [b EXCEPT !.light = RampOf(0, 0, l, l)]
  BY DEF set_const_brightness, RampOf
<1> QED BY <1>2, <1>3 DEF IO, Outputs

\* The last branches of the model put the light out and finish the alarm.
LEMMA DarkFields ==
  ASSUME NEW b \in IO
  PROVE  Outputs(DarkAndFinished(b), b, b.info \cup {"FINISHED"}, Dark)
PROOF
<1>1. Dark \in Lights /\ "FINISHED" \in Flags
  BY DurationTypes DEF Lights, Dark, Word, Levels, Flags
<1>2. DarkAndFinished(b) = [b EXCEPT !.light = Dark, !.info = @ \cup {"FINISHED"}]
  BY DEF DarkAndFinished, set_const_brightness, set_alarm_finished, Dark, IO
<1> QED BY <1>1, <1>2 DEF IO, Outputs

\* An assert changes nothing that the alarm goes by, whether it holds or not.
LEMMA AssertBlock ==
  ASSUME NEW b \in IO, NEW name \in Asserts, NEW holds
  PROVE  /\ dynamic_assert(b, name, holds) \in IO
         /\ dynamic_assert(b, name, holds).info = b.info
         /\ dynamic_assert(b, name, holds).adj = b.adj
PROOF
<1>1. CASE holds
  BY <1>1 DEF dynamic_assert, IO
<1>2. CASE ~holds
  BY <1>2 DEF dynamic_assert, IO
<1> QED BY <1>1, <1>2

\* The flags of a block can be replaced.
LEMMA OtherFlags ==
  ASSUME NEW b \in IO
  PROVE  /\ set_disarm_new(b) \in IO /\ ClearNew(b) \in IO
         /\ set_disarm_new(b).info = b.info \cup {"NEW"}
         /\ ClearNew(b).info = b.info \ {"NEW"}
         /\ ClearNew(b).light = b.light
         /\ "NEW" \notin b.info => ClearNew(b) = b
         /\ ClearNew(set_disarm_new(b)) = ClearNew(b)
         /\ "NEW" \in b.info => set_disarm_new(ClearNew(b)) = b
PROOF
<1>1. /\ b.info \cup {"NEW"} \in SUBSET Flags /\ b.info \ {"NEW"} \in SUBSET Flags
  BY DEF Flags, IO
<1>2. set_disarm_new(b) = [b EXCEPT !.info = b.info \cup {"NEW"}]
  BY DEF set_disarm_new
<1>3. ClearNew(b) = [b EXCEPT !.info = b.info \ {"NEW"}]
  BY DEF ClearNew
<1>0. \A i \in SUBSET Flags : [b EXCEPT !.info = i] \in IO
  BY DEF IO
<1>4. /\ set_disarm_new(b) \in IO /\ set_disarm_new(b).info = b.info \cup {"NEW"}
      /\ ClearNew(b) \in IO /\ ClearNew(b).info = b.info \ {"NEW"}
      /\ ClearNew(b).light = b.light
  BY <1>0, <1>1, <1>2, <1>3 DEF IO
<1>5. \A i : [b EXCEPT !.info = i].info = i
  BY DEF IO
<1>6. \A i, k : [[b EXCEPT !.info = i] EXCEPT !.info = k] = [b EXCEPT !.info = k]
  BY DEF IO
<1>7. [b EXCEPT !.info = b.info] = b
  BY DEF IO
<1>8. "NEW" \notin b.info => ClearNew(b) = b
  <2>1. "NEW" \notin b.info => b.info \ {"NEW"} = b.info
    OBVIOUS
  <2> QED BY <1>3, <1>7, <2>1
<1>9. ClearNew(set_disarm_new(b)) = ClearNew(b)
  <2>1. (b.info \cup {"NEW"}) \ {"NEW"} = b.info \ {"NEW"}
    OBVIOUS
  <2> QED BY <1>2, <1>3, <1>5, <1>6, <2>1 DEF ClearNew
<1>10. "NEW" \in b.info => set_disarm_new(ClearNew(b)) = b
  <2>1. "NEW" \in b.info => (b.info \ {"NEW"}) \cup {"NEW"} = b.info
    OBVIOUS
  <2> QED BY <1>3, <1>5, <1>6, <1>7, <2>1 DEF set_disarm_new
<1> QED BY <1>4, <1>8, <1>9, <1>10

\* Every one of the adjustments leaves an io block and adds its flag.
LEMMA AdjustBlock ==
  ASSUME NEW b \in IO, NEW a \in Word
  PROVE  /\ disarm_adjust_secondary(a, b) \in IO
         /\ disarm_adjust_secondary(a, b).info = b.info \cup {"SECONDARY"}
         /\ disarm_adjust_primary(a, b) \in IO
         /\ disarm_adjust_primary(a, b).info = b.info \cup {"PRIMARY"}
         /\ disarm_adjust_pre_cancel(b) \in IO
         /\ disarm_adjust_pre_cancel(b).info = b.info \cup {"PRE_CANCEL"}
PROOF
<1>1. /\ "flag not yet set" \in Asserts /\ "adjustment is zero" \in Asserts
      /\ {"PRIMARY", "SECONDARY", "PRE_CANCEL"} \subseteq Flags
  BY DEF Asserts, Flags
<1>2. /\ disarm_adjust_secondary(a, b) \in IO
      /\ disarm_adjust_secondary(a, b).info = b.info \cup {"SECONDARY"}
  <2> DEFINE one == dynamic_assert(b, "flag not yet set", "SECONDARY" \notin b.info)
  <2>1. one \in IO /\ one.info = b.info
    BY <1>1, AssertBlock
  <2> HIDE DEF one
  <2>2. disarm_adjust_secondary(a, b)
          = [one EXCEPT !.info = @ \cup {"SECONDARY"}, !.adj = a]
    BY DEF disarm_adjust_secondary, one
  <2> QED BY <1>1, <2>1, <2>2 DEF IO
<1>3. /\ disarm_adjust_primary(a, b) \in IO
      /\ disarm_adjust_primary(a, b).info = b.info \cup {"PRIMARY"}
  <2> DEFINE one == dynamic_assert(b, "flag not yet set", "PRIMARY" \notin b.info)
             two == dynamic_assert(one, "adjustment is zero", b.adj = 0)
  <2>1. two \in IO /\ two.info = b.info
    <3>1. one \in IO /\ one.info = b.info
      BY <1>1, AssertBlock
    <3> HIDE DEF one
    <3> QED BY <1>1, <3>1, AssertBlock
  <2> HIDE DEF two
  <2>2. disarm_adjust_primary(a, b) = [two EXCEPT !.info = @ \cup {"PRIMARY"}, !.adj = a]
    BY DEF disarm_adjust_primary, two
  <2> QED BY <1>1, <2>1, <2>2 DEF IO
<1>4. /\ disarm_adjust_pre_cancel(b) \in IO
      /\ disarm_adjust_pre_cancel(b).info = b.info \cup {"PRE_CANCEL"}
  <2> DEFINE one == dynamic_assert(b, "flag not yet set", "PRE_CANCEL" \notin b.info)
             two == dynamic_assert(one, "adjustment is zero", b.adj = 0)
  <2>1. two \in IO /\ two.info = b.info
    <3>1. one \in IO /\ one.info = b.info
      BY <1>1, AssertBlock
    <3> HIDE DEF one
    <3> QED BY <1>1, <3>1, AssertBlock
  <2> HIDE DEF two
  <2>2. disarm_adjust_pre_cancel(b) = [two EXCEPT !.info = @ \cup {"PRE_CANCEL"}]
    BY DEF disarm_adjust_pre_cancel, two
  <2> QED BY <1>1, <2>1, <2>2 DEF IO
<1> QED BY <1>2, <1>3, <1>4

\* Whatever a request finds, it leaves an io block with no request in it and
\* with every flag that was there.
LEMMA RequestBlock ==
  ASSUME NEW t \in Word, NEW w \in Word, NEW b \in IO
  PROVE  LET m == process_new_disarm(t, b, w)
         IN  /\ m \in IO /\ "NEW" \notin m.info /\ b.info \ {"NEW"} \subseteq m.info
             /\ "FINISHED" \in m.info => "FINISHED" \in b.info
PROOF
<1> DEFINE c == ClearNew(b)
           Keeps(m) == /\ m \in IO /\ "NEW" \notin m.info /\ b.info \ {"NEW"} \subseteq m.info
                       /\ "FINISHED" \in m.info => "FINISHED" \in b.info
<1>1. c \in IO /\ c.info = b.info \ {"NEW"}
  BY OtherFlags
<1> HIDE DEF c
<1>2. \A a \in Word : /\ Keeps(disarm_adjust_primary(a, c))
                      /\ Keeps(disarm_adjust_secondary(a, c))
                      /\ Keeps(disarm_adjust_pre_cancel(c))
  BY <1>1, AdjustBlock
<1>3. Keeps(c)
  BY <1>1
<1> HIDE DEF Keeps
<1>4. Keeps(SecondDisarm(t, c))
  BY <1>2, <1>3 DEF SecondDisarm
<1>5. Keeps(FirstDisarm(t, c, w))
  <2> DEFINE since == Sub(Sub(Sub(t, w), rise_time), hold_max_time)
  <2>1. Sub(t, since) \in Word
    BY Words
  <2>2. FirstDisarm(t, c, w) \in
          {disarm_adjust_pre_cancel(c), disarm_adjust_primary(t, c),
           disarm_adjust_primary(Sub(t, since), c), disarm_adjust_secondary(t, c), c}
    BY DEF FirstDisarm
  <2> HIDE DEF since
  <2> QED BY <1>2, <1>3, <2>1, <2>2
<1>6. Keeps(process_new_disarm(t, b, w))
  BY <1>3, <1>4, <1>5 DEF process_new_disarm, c
<1> QED BY <1>6 DEF Keeps

\* A light of the alarm: only one of its ramps starts from what is on, the one
\* that an early disarm begins with.
Alight(light) ==
  /\ light \in Lights
  /\ light.from = "THIS_OR_OFF" =>
       light.to = "MID" /\ light.period = decrease_to_mid_time

\* The model chosen by the flags leaves an io block, and no flags but its last
\* one that were not there; it goes for the maximum only if none is.
LEMMA ModelBlock ==
  ASSUME NEW t \in Word, NEW w \in Word, NEW b \in IO, "FINISHED" \notin b.info
  PROVE  LET out == ModelByFlags(t, b, w)
         IN  /\ out \in IO /\ out.info \in {b.info, b.info \cup {"FINISHED"}}
             /\ out.light.to = "MAX" => out.info = {}
             /\ Alight(out.light)
PROOF
<1> DEFINE Leaves(out) == /\ out \in IO
                          /\ out.info \in {b.info, b.info \cup {"FINISHED"}}
                          /\ out.light.to = "MAX" => out.info = {}
                          /\ Alight(out.light)
           checked == dynamic_assert(b, "rtc not before adjustment", t >= b.adj)
<1>1. {"OFF", "MID", "MAX", "THIS_OR_OFF"} \subseteq Levels /\ b.adj \in Word
  BY DEF Levels, IO
<1>2. checked \in IO /\ checked.info = b.info
  BY AssertBlock DEF Asserts
<1> HIDE DEF checked
<1>3. ASSUME NEW c \in {b, checked}
      PROVE  /\ \A l \in Levels \ {"THIS_OR_OFF"} :
                   l # "MAX" \/ b.info = {} => Leaves(set_const_brightness(c, l))
             /\ \A p, x \in Word, f \in Levels \ {"THIS_OR_OFF"}, l \in Levels :
                   l # "MAX" \/ b.info = {} => Leaves(SetRamp(c, p, x, f, l))
             /\ \A x \in Word :
                   Leaves(SetRamp(c, decrease_to_mid_time, x, "THIS_OR_OFF", "MID"))
             /\ Leaves(DarkAndFinished(c))
  <2>1. c \in IO /\ c.info = b.info
    BY <1>2
  <2>2. ASSUME NEW p \in Word, NEW x \in Word, NEW f \in Levels, NEW l \in Levels
        PROVE  RampOf(p, x, f, l) \in Lights
    BY DEF RampOf, Lights
  <2>3. ASSUME NEW l \in Levels \ {"THIS_OR_OFF"}, l # "MAX" \/ b.info = {}
        PROVE  Leaves(set_const_brightness(c, l))
    <3>1. Outputs(set_const_brightness(c, l), c, c.info, RampOf(0, 0, l, l))
      BY <2>1, ConstFields
    <3>2. Alight(RampOf(0, 0, l, l))
      BY <2>2, Words DEF Alight, RampOf
    <3> QED BY <2>1, <2>3, <3>1, <3>2 DEF Outputs, RampOf
  <2>4. ASSUME NEW p \in Word, NEW x \in Word, NEW f \in Levels, NEW l \in Levels,
               l # "MAX" \/ b.info = {},
               f # "THIS_OR_OFF" \/ (l = "MID" /\ p = decrease_to_mid_time)
        PROVE  Leaves(SetRamp(c, p, x, f, l))
    <3>1. Outputs(SetRamp(c, p, x, f, l), c, c.info, RampOf(p, x, f, l))
      BY <2>1, RampFields
    <3>2. Alight(RampOf(p, x, f, l))
      BY <2>2, <2>4 DEF Alight, RampOf
    <3> QED BY <2>1, <2>4, <3>1, <3>2 DEF Outputs, RampOf
  <2>5. Leaves(DarkAndFinished(c))
    <3>1. Outputs(DarkAndFinished(c), c, c.info \cup {"FINISHED"}, Dark)
      BY <2>1, DarkFields
    <3>2. Dark = RampOf(0, 0, "OFF", "OFF") /\ Alight(Dark)
      BY <1>1, <2>2, Words DEF Alight, Dark, RampOf
    <3> QED BY <2>1, <3>1, <3>2 DEF Outputs, Dark
  <2> HIDE DEF Leaves
  <2>6. ASSUME NEW x \in Word
        PROVE  Leaves(SetRamp(c, decrease_to_mid_time, x, "THIS_OR_OFF", "MID"))
    BY <1>1, <2>4, Words
  <2> QED BY <2>3, <2>4, <2>5, <2>6
<1> HIDE DEF Leaves
<1>4. CASE no_disarm_pending(b)
  <2> DEFINE triggered == Sub(t, w)
             top       == Sub(triggered, rise_time)
             down      == Sub(top, hold_max_time)
             middle    == Sub(down, decrease_to_mid_time)
             zero      == Sub(middle, hold_mid_time)
  <2>1. triggered \in Word /\ down \in Word /\ zero \in Word
    BY Words
  <2>2. do_alarm_model_direct(t, b, w) \in
          {set_const_brightness(b, "OFF"), SetRamp(b, rise_time, triggered, "OFF", "MAX"),
           set_const_brightness(b, "MAX"),
           SetRamp(b, decrease_to_mid_time, down, "MAX", "MID"),
           set_const_brightness(b, "MID"),
           SetRamp(b, decrease_to_zero_time, zero, "MID", "OFF"), DarkAndFinished(b)}
    BY DEF do_alarm_model_direct
  <2>3. b.info = {}
    BY <1>4 DEF no_disarm_pending, IO, Flags
  <2>4. ModelByFlags(t, b, w) = do_alarm_model_direct(t, b, w)
    BY <1>4 DEF ModelByFlags
  <2> HIDE DEF triggered, top, down, middle, zero
  <2>5. Leaves(do_alarm_model_direct(t, b, w))
    BY <1>1, <1>3, <2>1, <2>2, <2>3, Words
  <2> QED BY <2>4, <2>5 DEF Leaves
<1>5. Leaves(do_alarm_model_disarmed_late(t, b))
  <2>1. Sub(t, b.adj) \in Word
    BY <1>1, Words
  <2>2. do_alarm_model_disarmed_late(t, b) \in
          {SetRamp(checked, decrease_to_zero_time, Sub(t, b.adj), "MID", "OFF"),
           DarkAndFinished(checked)}
    BY DEF do_alarm_model_disarmed_late, checked
  <2> QED BY <1>1, <1>3, <2>1, <2>2, Words
<1>6. Leaves(do_alarm_model_disarmed_early(t, b))
  <2> DEFINE since == Sub(t, b.adj)
             zero  == Sub(Sub(since, decrease_to_mid_time), disarm_hold_mid_time)
  <2>1. since \in Word /\ zero \in Word
    BY <1>1, Words
  <2>2. do_alarm_model_disarmed_early(t, b) \in
          {SetRamp(checked, decrease_to_mid_time, since, "THIS_OR_OFF", "MID"),
           set_const_brightness(checked, "MID"),
           SetRamp(checked, decrease_to_zero_time, zero, "MID", "OFF"),
           DarkAndFinished(checked)}
    BY DEF do_alarm_model_disarmed_early, checked
  <2> HIDE DEF since, zero
  <2> QED BY <1>1, <1>3, <2>1, <2>2, Words
<1>7. Leaves(do_alarm_model_disarmed_pre_cancel(b))
  BY <1>3 DEF do_alarm_model_disarmed_pre_cancel
<1>8. CASE ~no_disarm_pending(b)
  <2>1. Leaves(ModelByFlags(t, b, w))
    BY <1>5, <1>6, <1>7, <1>8 DEF ModelByFlags
  <2> QED BY <2>1 DEF Leaves
<1> QED BY <1>4, <1>8

\* For any RTC time, io block and wait time the model returns an io block.  It
\* has dealt with the request in the one it is passed and kept the other flags,
\* it makes up no disarm, and it goes for the maximum only without any flag.  It
\* has set the outputs.
LEMMA CallBlock ==
  ASSUME NEW t \in Word, NEW w \in Word, NEW b \in IO
  PROVE  LET out == do_alarm_model(t, b, w)
         IN  /\ out \in IO
             /\ "NEW" \notin out.info
             /\ b.info \ {"NEW"} \subseteq out.info
             /\ b.info \subseteq {"FINISHED"} => out.info \subseteq {"FINISHED"}
             /\ out.light.to = "MAX" => out.info = {}
             /\ Alight(out.light)
PROOF
<1>1. CASE alarm_finished(b)
  <2> DEFINE c == ClearNew(b)
  <2>1. c \in IO /\ c.info = b.info \ {"NEW"} /\ "OFF" \in Levels
    BY OtherFlags DEF Levels
  <2> HIDE DEF c
  <2>2. do_alarm_model(t, b, w) = set_const_brightness(c, "OFF")
    BY <1>1 DEF do_alarm_model, do_alarm_finished, c
  <2>3. Outputs(set_const_brightness(c, "OFF"), c, c.info, RampOf(0, 0, "OFF", "OFF"))
    BY <2>1, ConstFields
  <2>4. Alight(RampOf(0, 0, "OFF", "OFF"))
    BY <2>1, Words DEF Alight, RampOf, Lights
  <2> QED BY <2>1, <2>2, <2>3, <2>4 DEF Outputs, RampOf
<1>2. CASE ~alarm_finished(b) /\ "NEW" \in b.info
  <2> DEFINE m == process_new_disarm(t, b, w)
  <2>1. /\ m \in IO /\ "NEW" \notin m.info /\ b.info \ {"NEW"} \subseteq m.info
        /\ do_alarm_model(t, b, w) = ModelByFlags(t, m, w)
    BY <1>2, RequestBlock DEF do_alarm_model
  <2>2. "FINISHED" \notin m.info
    BY <1>2, RequestBlock DEF alarm_finished
  <2> HIDE DEF m
  <2> QED BY <1>2, <2>1, <2>2, ModelBlock
<1>3. CASE ~alarm_finished(b) /\ "NEW" \notin b.info
  <2>1. do_alarm_model(t, b, w) = ModelByFlags(t, b, w)
    BY <1>3 DEF do_alarm_model
  <2> QED BY <1>3, <2>1, ModelBlock DEF alarm_finished
<1> QED BY <1>1, <1>2, <1>3

------------------------------------------------------------------------------
(* The stretches of an alarm triggered at w, by the time each one ends *)

MiddleEnd(w) == FadeEnd(w) + hold_mid_time
NormalEnd(w) == MiddleEnd(w) + decrease_to_zero_time

\* An io block between two calls of the model on an unfinished alarm.
Clean(b) == /\ b \in IO
            /\ b.failed = {}
            /\ {"NEW", "PRE_CANCEL", "FINISHED"} \cap b.info = {}

\* What the three adjustments of core-model.c return when their asserts hold.
LEMMA Adjustments ==
  ASSUME NEW b \in IO, NEW a,
         {"PRIMARY", "SECONDARY", "PRE_CANCEL"} \cap b.info = {}, b.adj = 0
  PROVE  /\ disarm_adjust_pre_cancel(b) = [b EXCEPT !.info = @ \cup {"PRE_CANCEL"}]
         /\ disarm_adjust_primary(a, b)
              = [b EXCEPT !.info = @ \cup {"PRIMARY"}, !.adj = a]
         /\ disarm_adjust_secondary(a, b)
              = [b EXCEPT !.info = @ \cup {"SECONDARY"}, !.adj = a]
  BY DEF disarm_adjust_pre_cancel, disarm_adjust_primary, disarm_adjust_secondary,
         dynamic_assert, IO

\* The outcome of a first press: which flag it sets and with which adjustment.
LEMMA FirstDisarmCases ==
  ASSUME NEW t \in Word, NEW w \in Word, NEW b
  PROVE  \/ /\ t < w
            /\ FirstDisarm(t, b, w) = disarm_adjust_pre_cancel(b)
         \/ /\ w <= t /\ t < TopEnd(w)
            /\ FirstDisarm(t, b, w) = disarm_adjust_primary(t, b)
         \/ /\ TopEnd(w) <= t /\ t < FadeEnd(w)
            /\ FirstDisarm(t, b, w) = disarm_adjust_primary(TopEnd(w), b)
         \/ /\ FadeEnd(w) <= t /\ t < MiddleEnd(w)
            /\ FirstDisarm(t, b, w) = disarm_adjust_secondary(t, b)
         \/ /\ MiddleEnd(w) <= t
            /\ FirstDisarm(t, b, w) = b
PROOF
<1> DEFINE since  == Sub(t, w)
           top    == Sub(since, rise_time)
           fading == Sub(top, hold_max_time)
           middle == Sub(fading, decrease_to_mid_time)
<1>1. FirstDisarm(t, b, w) =
        IF t < w THEN disarm_adjust_pre_cancel(b)
        ELSE IF since < rise_time \/ top < hold_max_time THEN disarm_adjust_primary(t, b)
        ELSE IF fading < decrease_to_mid_time
        THEN disarm_adjust_primary(Sub(t, fading), b)
        ELSE IF middle < hold_mid_time THEN disarm_adjust_secondary(t, b)
        ELSE b
  BY DEF FirstDisarm
<1>2. t \in Nat /\ w \in Nat
  BY DurationTypes DEF Word
<1> HIDE DEF since, top, fading, middle
<1>3. CASE t < w
  BY <1>1, <1>3
<1>4. CASE ~(t < w)
  <2>1. since = t - w /\ since \in Nat
    BY <1>2, <1>4 DEF Sub, since
  <2>2. CASE since < rise_time
    <3>1. w <= t /\ t < TopEnd(w)
      BY <1>2, <1>4, <2>1, <2>2, DurationTypes DEF TopEnd
    <3> QED BY <1>1, <1>4, <2>2, <3>1
  <2>3. CASE ~(since < rise_time)
    <3>1. top = t - w - rise_time /\ top \in Nat
      BY <1>2, <2>1, <2>3, DurationTypes DEF Sub, top
    <3>2. CASE top < hold_max_time
      <4>1. w <= t /\ t < TopEnd(w)
        BY <1>2, <1>4, <3>1, <3>2, DurationTypes DEF TopEnd
      <4> QED BY <1>1, <1>4, <3>2, <4>1
    <3>3. CASE ~(top < hold_max_time)
      <4>1. fading = t - TopEnd(w) /\ fading \in Nat
        BY <1>2, <3>1, <3>3, DurationTypes DEF Sub, TopEnd, fading
      <4>2. Sub(t, fading) = TopEnd(w)
        BY <1>2, <4>1, DurationTypes DEF Sub, TopEnd
      <4>3. CASE fading < decrease_to_mid_time
        <5>1. TopEnd(w) <= t /\ t < FadeEnd(w)
          BY <1>2, <4>1, <4>3, DurationTypes DEF FadeEnd, TopEnd
        <5> QED BY <1>1, <1>4, <2>3, <3>3, <4>2, <4>3, <5>1
      <4>4. CASE ~(fading < decrease_to_mid_time)
        <5>1. middle = t - FadeEnd(w) /\ middle \in Nat
          BY <1>2, <4>1, <4>4, DurationTypes DEF Sub, FadeEnd, TopEnd, middle
        <5>2. CASE middle < hold_mid_time
          <6>1. FadeEnd(w) <= t /\ t < MiddleEnd(w)
            BY <1>2, <5>1, <5>2, DurationTypes DEF MiddleEnd, FadeEnd, TopEnd
          <6> QED BY <1>1, <1>4, <2>3, <3>3, <4>4, <5>2, <6>1
        <5>3. CASE ~(middle < hold_mid_time)
          <6>1. MiddleEnd(w) <= t
            BY <1>2, <5>1, <5>3, DurationTypes DEF MiddleEnd, FadeEnd, TopEnd
          <6> QED BY <1>1, <1>4, <2>3, <3>3, <4>4, <5>3, <6>1
        <5> QED BY <5>2, <5>3
      <4> QED BY <4>3, <4>4
    <3> QED BY <3>2, <3>3
  <2> QED BY <2>2, <2>3
<1> QED BY <1>3, <1>4

\* A second press on an alarm already dimmed since b.adj is answered exactly
\* while the middle level is held.
LEMMA SecondDisarmCases ==
  ASSUME NEW t \in Word, NEW b \in IO, b.adj <= t
  PROVE  SecondDisarm(t, b) =
           IF /\ b.adj + decrease_to_mid_time <= t
              /\ t < b.adj + decrease_to_mid_time + disarm_hold_mid_time
           THEN disarm_adjust_secondary(t, b)
           ELSE b
PROOF
<1>1. t \in Nat /\ b.adj \in Nat /\ t < WordMod
  BY DurationTypes DEF Word, IO
<1>2. Sub(t, b.adj) = t - b.adj
  BY <1>1 DEF Sub
<1>3. Sub(t - b.adj, decrease_to_mid_time) < disarm_hold_mid_time
        <=> /\ b.adj + decrease_to_mid_time <= t
            /\ t < b.adj + decrease_to_mid_time + disarm_hold_mid_time
  BY <1>1, DurationTypes DEF Sub
<1> QED BY <1>2, <1>3 DEF SecondDisarm

\* The normal course.
LEMMA DirectCases ==
  ASSUME NEW t \in Word, NEW w \in Word, NEW b
  PROVE  \/ /\ t < w
            /\ do_alarm_model_direct(t, b, w) = set_const_brightness(b, "OFF")
         \/ /\ w <= t /\ t < w + rise_time
            /\ do_alarm_model_direct(t, b, w) = SetRamp(b, rise_time, t - w, "OFF", "MAX")
         \/ /\ w + rise_time <= t /\ t < TopEnd(w)
            /\ do_alarm_model_direct(t, b, w) = set_const_brightness(b, "MAX")
         \/ /\ TopEnd(w) <= t /\ t < FadeEnd(w)
            /\ do_alarm_model_direct(t, b, w)
                 = SetRamp(b, decrease_to_mid_time, t - TopEnd(w), "MAX", "MID")
         \/ /\ FadeEnd(w) <= t /\ t < MiddleEnd(w)
            /\ do_alarm_model_direct(t, b, w) = set_const_brightness(b, "MID")
         \/ /\ MiddleEnd(w) <= t /\ t < NormalEnd(w)
            /\ do_alarm_model_direct(t, b, w)
                 = SetRamp(b, decrease_to_zero_time, t - MiddleEnd(w), "MID", "OFF")
         \/ /\ NormalEnd(w) <= t
            /\ do_alarm_model_direct(t, b, w) = DarkAndFinished(b)
PROOF
<1> DEFINE since  == Sub(t, w)
           top    == Sub(since, rise_time)
           fading == Sub(top, hold_max_time)
           middle == Sub(fading, decrease_to_mid_time)
           ending == Sub(middle, hold_mid_time)
<1>1. do_alarm_model_direct(t, b, w) =
        IF t < w THEN set_const_brightness(b, "OFF")
        ELSE IF since < rise_time THEN SetRamp(b, rise_time, since, "OFF", "MAX")
        ELSE IF top < hold_max_time THEN set_const_brightness(b, "MAX")
        ELSE IF fading < decrease_to_mid_time
        THEN SetRamp(b, decrease_to_mid_time, fading, "MAX", "MID")
        ELSE IF middle < hold_mid_time THEN set_const_brightness(b, "MID")
        ELSE IF ending < decrease_to_zero_time
        THEN SetRamp(b, decrease_to_zero_time, ending, "MID", "OFF")
        ELSE DarkAndFinished(b)
  BY DEF do_alarm_model_direct
<1>2. t \in Nat /\ w \in Nat
  BY DurationTypes DEF Word
<1> HIDE DEF since, top, fading, middle, ending
<1>3. CASE t < w
  BY <1>1, <1>3
<1>4. CASE ~(t < w)
  <2>1. since = t - w /\ since \in Nat
    BY <1>2, <1>4 DEF Sub, since
  <2>2. CASE since < rise_time
    <3>1. w <= t /\ t < w + rise_time
      BY <1>2, <1>4, <2>1, <2>2, DurationTypes
    <3> QED BY <1>1, <1>4, <2>1, <2>2, <3>1
  <2>3. CASE ~(since < rise_time)
    <3>1. top = t - w - rise_time /\ top \in Nat /\ w + rise_time <= t
      BY <1>2, <2>1, <2>3, DurationTypes DEF Sub, top
    <3>2. CASE top < hold_max_time
      <4>1. t < TopEnd(w)
        BY <1>2, <3>1, <3>2, DurationTypes DEF TopEnd
      <4> QED BY <1>1, <1>4, <2>3, <3>1, <3>2, <4>1
    <3>3. CASE ~(top < hold_max_time)
      <4>1. fading = t - TopEnd(w) /\ fading \in Nat /\ TopEnd(w) <= t
        BY <1>2, <3>1, <3>3, DurationTypes DEF Sub, TopEnd, fading
      <4>2. CASE fading < decrease_to_mid_time
        <5>1. t < FadeEnd(w)
          BY <1>2, <4>1, <4>2, DurationTypes DEF FadeEnd, TopEnd
        <5> QED BY <1>1, <1>4, <2>3, <3>3, <4>1, <4>2, <5>1
      <4>3. CASE ~(fading < decrease_to_mid_time)
        <5>1. middle = t - FadeEnd(w) /\ middle \in Nat /\ FadeEnd(w) <= t
          BY <1>2, <4>1, <4>3, DurationTypes DEF Sub, FadeEnd, TopEnd, middle
        <5>2. CASE middle < hold_mid_time
          <6>1. t < MiddleEnd(w)
            BY <1>2, <5>1, <5>2, DurationTypes DEF MiddleEnd, FadeEnd, TopEnd
          <6> QED BY <1>1, <1>4, <2>3, <3>3, <4>3, <5>1, <5>2, <6>1
        <5>3. CASE ~(middle < hold_mid_time)
          <6>1. ending = t - MiddleEnd(w) /\ ending \in Nat /\ MiddleEnd(w) <= t
            BY <1>2, <5>1, <5>3, DurationTypes
               DEF Sub, MiddleEnd, FadeEnd, TopEnd, ending
          <6>2. CASE ending < decrease_to_zero_time
            <7>1. t < NormalEnd(w)
              BY <1>2, <6>1, <6>2, DurationTypes
                 DEF NormalEnd, MiddleEnd, FadeEnd, TopEnd
            <7> QED BY <1>1, <1>4, <2>3, <3>3, <4>3, <5>3, <6>1, <6>2, <7>1
          <6>3. CASE ~(ending < decrease_to_zero_time)
            <7>1. NormalEnd(w) <= t
              BY <1>2, <6>1, <6>3, DurationTypes
                 DEF NormalEnd, MiddleEnd, FadeEnd, TopEnd
            <7> QED BY <1>1, <1>4, <2>3, <3>3, <4>3, <5>3, <6>3, <7>1
          <6> QED BY <6>2, <6>3
        <5> QED BY <5>2, <5>3
      <4> QED BY <4>2, <4>3
    <3> QED BY <3>2, <3>3
  <2> QED BY <2>2, <2>3
<1> QED BY <1>3, <1>4

\* An assert that holds leaves the io block as it is.
LEMMA AssertHolds ==
  ASSUME NEW b \in IO, NEW n
  PROVE  dynamic_assert(b, n, TRUE) = b
  BY DEF dynamic_assert, IO

\* The course of an alarm put out at b.adj.
LEMMA LateCases ==
  ASSUME NEW t \in Word, NEW b \in IO, b.adj <= t
  PROVE  do_alarm_model_disarmed_late(t, b) =
           IF t < b.adj + decrease_to_zero_time
           THEN SetRamp(b, decrease_to_zero_time, t - b.adj, "MID", "OFF")
           ELSE DarkAndFinished(b)
PROOF
<1>1. t \in Nat /\ b.adj \in Nat
  BY DurationTypes DEF Word, IO
<1>2. Sub(t, b.adj) = t - b.adj
  BY <1>1 DEF Sub
<1>3. t - b.adj < decrease_to_zero_time <=> t < b.adj + decrease_to_zero_time
  BY <1>1, DurationTypes
<1>4. (t >= b.adj) = TRUE
  BY <1>1
<1>5. dynamic_assert(b, "rtc not before adjustment", t >= b.adj) = b
  BY <1>4, AssertHolds
<1> QED BY <1>2, <1>3, <1>5 DEF do_alarm_model_disarmed_late

\* The course of an alarm dimmed since b.adj.
LEMMA EarlyCases ==
  ASSUME NEW t \in Word, NEW b \in IO, b.adj <= t
  PROVE  LET middle == b.adj + decrease_to_mid_time
             ending == middle + disarm_hold_mid_time
             finish == ending + decrease_to_zero_time
             r      == do_alarm_model_disarmed_early(t, b)
         IN  \/ /\ t < middle
                /\ r = SetRamp(b, decrease_to_mid_time, t - b.adj, "THIS_OR_OFF", "MID")
             \/ /\ middle <= t /\ t < ending
                /\ r = set_const_brightness(b, "MID")
             \/ /\ ending <= t /\ t < finish
                /\ r = SetRamp(b, decrease_to_zero_time, t - ending, "MID", "OFF")
             \/ /\ finish <= t
                /\ r = DarkAndFinished(b)
PROOF
<1> DEFINE start    == b.adj
           middle   == start + decrease_to_mid_time
           ending   == middle + disarm_hold_mid_time
           finish   == ending + decrease_to_zero_time
           r        == do_alarm_model_disarmed_early(t, b)
           dimming  == Sub(t, start)
           holding  == Sub(dimming, decrease_to_mid_time)
           going    == Sub(holding, disarm_hold_mid_time)
<1>1. t \in Nat /\ start \in Nat /\ start <= t
  BY DurationTypes DEF Word, IO
<1>2. dynamic_assert(b, "rtc not before adjustment", t >= b.adj) = b
  <2>1. (t >= b.adj) = TRUE
    BY <1>1
  <2> QED BY <2>1, AssertHolds
<1>3. r = IF dimming < decrease_to_mid_time
          THEN SetRamp(b, decrease_to_mid_time, dimming, "THIS_OR_OFF", "MID")
          ELSE IF holding < disarm_hold_mid_time THEN set_const_brightness(b, "MID")
          ELSE IF going < decrease_to_zero_time
          THEN SetRamp(b, decrease_to_zero_time, going, "MID", "OFF")
          ELSE DarkAndFinished(b)
  BY <1>2 DEF do_alarm_model_disarmed_early
<1>4. dimming = t - start /\ dimming \in Nat
  BY <1>1 DEF Sub
<1> SUFFICES \/ /\ t < middle
                /\ r = SetRamp(b, decrease_to_mid_time, t - start, "THIS_OR_OFF", "MID")
             \/ /\ middle <= t /\ t < ending
                /\ r = set_const_brightness(b, "MID")
             \/ /\ ending <= t /\ t < finish
                /\ r = SetRamp(b, decrease_to_zero_time, t - ending, "MID", "OFF")
             \/ /\ finish <= t
                /\ r = DarkAndFinished(b)
  OBVIOUS
<1> HIDE DEF start, dimming, holding, going, r
<1>5. CASE dimming < decrease_to_mid_time
  <2>1. t < middle
    BY <1>1, <1>4, <1>5, DurationTypes
  <2> QED BY <1>3, <1>4, <1>5, <2>1
<1>6. CASE ~(dimming < decrease_to_mid_time)
  <2>1. holding = t - middle /\ holding \in Nat /\ middle <= t
    BY <1>1, <1>4, <1>6, DurationTypes DEF Sub, holding
  <2>2. CASE holding < disarm_hold_mid_time
    <3>1. t < ending
      BY <1>1, <2>1, <2>2, DurationTypes
    <3> QED BY <1>3, <1>6, <2>1, <2>2, <3>1
  <2>3. CASE ~(holding < disarm_hold_mid_time)
    <3>1. going = t - ending /\ going \in Nat /\ ending <= t
      BY <1>1, <2>1, <2>3, DurationTypes DEF Sub, going
    <3>2. CASE going < decrease_to_zero_time
      <4>1. t < finish
        BY <1>1, <3>1, <3>2, DurationTypes
      <4> QED BY <1>3, <1>6, <2>3, <3>1, <3>2, <4>1
    <3>3. CASE ~(going < decrease_to_zero_time)
      <4>1. finish <= t
        BY <1>1, <3>1, <3>3, DurationTypes
      <4> QED BY <1>3, <1>6, <2>3, <3>3, <4>1
    <3> QED BY <3>2, <3>3
  <2> QED BY <2>2, <2>3
<1> QED BY <1>5, <1>6

------------------------------------------------------------------------------
(* One call of the model *)

\* The io block an unfinished alarm is shown from, once a press is dealt with.
Decided(b, t, w) ==
  /\ b \in IO
  /\ b.failed = {}
  /\ {"NEW", "FINISHED"} \cap b.info = {}
  /\ "PRE_CANCEL" \in b.info => b.info = {"PRE_CANCEL"}
  /\ AdjOK(b.info, b.adj, t, w)

\* The io block after the worker's check for a request and, if there is one,
\* process_new_disarm.
Decide(t, b, request, w) ==
  IF request THEN process_new_disarm(t, set_disarm_new(b), w) ELSE b

\* process_new_disarm takes a request for the first or for the second disarm by
\* the flags that are set, and drops any further one.
LEMMA DecideCases ==
  ASSUME NEW t, NEW w, NEW b, NEW request \in BOOLEAN, Clean(b)
  PROVE  Decide(t, b, request, w) =
           IF ~request \/ "SECONDARY" \in b.info THEN b
           ELSE IF "PRIMARY" \in b.info THEN SecondDisarm(t, b)
           ELSE FirstDisarm(t, b, w)
PROOF
<1> DEFINE asked == set_disarm_new(b)
<1>1. /\ asked.info = b.info \cup {"NEW"}
      /\ ClearNew(asked) = b
  BY DEF Clean, set_disarm_new, ClearNew, IO
<1>2. {"SECONDARY", "PRE_CANCEL"} \cap asked.info # {} <=> "SECONDARY" \in b.info
  BY <1>1 DEF Clean
<1>3. "PRIMARY" \in asked.info <=> "PRIMARY" \in b.info
  BY <1>1
<1> HIDE DEF asked
<1>4. process_new_disarm(t, asked, w) =
        IF "SECONDARY" \in b.info THEN b
        ELSE IF "PRIMARY" \in b.info THEN SecondDisarm(t, b)
        ELSE FirstDisarm(t, b, w)
  BY <1>1, <1>2, <1>3 DEF process_new_disarm
<1> QED BY <1>4 DEF Decide, asked

\* On an alarm that goes on, do_alarm_model first answers the request and then
\* shows what the flags say.
LEMMA CallIsDecideAndShow ==
  ASSUME NEW t, NEW w, NEW b, NEW request \in BOOLEAN, Clean(b)
  PROVE  do_alarm_model(t, IF request THEN set_disarm_new(b) ELSE b, w)
           = ModelByFlags(t, Decide(t, b, request, w), w)
PROOF
<1>1. /\ set_disarm_new(b).info = b.info \cup {"NEW"}
      /\ "NEW" \notin b.info /\ "FINISHED" \notin b.info
  BY DEF Clean, set_disarm_new, IO
<1>2. CASE request
  BY <1>1, <1>2 DEF do_alarm_model, Decide, alarm_finished
<1>3. CASE ~request
  BY <1>1, <1>3 DEF do_alarm_model, Decide, alarm_finished
<1> QED BY <1>2, <1>3

\* A press leaves the block fit to be shown, forgets no flag and moves the
\* adjustment only forward.
LEMMA DecideIsDecided ==
  ASSUME NEW t \in Word, NEW w \in Word, NEW b, NEW request \in BOOLEAN,
         Clean(b), AdjOK(b.info, b.adj, t, w)
  PROVE  LET m == Decide(t, b, request, w)
         IN  /\ Decided(m, t, w)
             /\ b.info \subseteq m.info
             /\ b.adj <= m.adj
PROOF
<1> DEFINE m == Decide(t, b, request, w)
<1>0. /\ b \in IO /\ b.failed = {} /\ b.info \in SUBSET Flags
      /\ {"NEW", "PRE_CANCEL", "FINISHED"} \cap b.info = {}
      /\ t \in Nat /\ w \in Nat /\ b.adj \in Nat /\ b.adj <= t /\ t < WordMod
  BY DurationTypes DEF Clean, IO, Word, AdjOK
<1>1. CASE m = b
  BY <1>0, <1>1 DEF Decided
<1>2. CASE /\ "PRIMARY" \in b.info /\ "SECONDARY" \notin b.info
           /\ m = SecondDisarm(t, b) /\ m # b
  <2>1. /\ m = disarm_adjust_secondary(t, b)
        /\ t < b.adj + decrease_to_mid_time + disarm_hold_mid_time
    BY <1>0, <1>2, SecondDisarmCases
  <2>2. m = [b EXCEPT !.info = @ \cup {"SECONDARY"}, !.adj = t]
    BY <1>0, <1>2, <2>1 DEF disarm_adjust_secondary, dynamic_assert, IO
  <2>3. /\ m \in IO /\ m.failed = {} /\ m.adj = t
        /\ m.info = b.info \cup {"SECONDARY"}
    BY <1>0, <2>2 DEF IO, Flags
  <2>4. b.adj <= TopEnd(w)
    BY <1>2 DEF AdjOK
  <2>5. t < FadeEnd(w) + Longer(hold_mid_time, disarm_hold_mid_time)
    BY <1>0, <2>1, <2>4, DurationTypes DEF FadeEnd, TopEnd, Longer
  <2> HIDE DEF m
  <2>6. AdjOK(m.info, m.adj, t, w)
    BY <1>0, <2>3, <2>5 DEF AdjOK
  <2>7. Decided(m, t, w)
    BY <1>0, <1>2, <2>3, <2>6 DEF Decided
  <2> QED BY <1>0, <2>3, <2>7 DEF m
<1>3. CASE /\ {"PRIMARY", "SECONDARY"} \cap b.info = {}
           /\ m = FirstDisarm(t, b, w) /\ m # b
  <2>1. b.adj = 0 /\ {"PRIMARY", "SECONDARY", "PRE_CANCEL"} \cap b.info = {}
    BY <1>0, <1>3 DEF AdjOK
  <2>2. b.info = {}
    BY <1>0, <2>1 DEF Flags
  <2>3. CASE t < w /\ m = disarm_adjust_pre_cancel(b)
    <3>1. m = [b EXCEPT !.info = @ \cup {"PRE_CANCEL"}]
      BY <1>0, <2>1, <2>3, Adjustments
    <3>2. m \in IO /\ m.failed = {} /\ m.adj = 0 /\ m.info = {"PRE_CANCEL"}
      BY <1>0, <2>1, <2>2, <3>1 DEF IO, Flags
    <3> HIDE DEF m
    <3>3. Decided(m, t, w)
      BY <1>0, <3>2 DEF Decided, AdjOK
    <3> QED BY <2>1, <2>2, <3>2, <3>3 DEF m
  <2>4. ASSUME NEW a \in Word, a <= t, a <= TopEnd(w), m = disarm_adjust_primary(a, b)
        PROVE  Decided(m, t, w) /\ b.info \subseteq m.info /\ b.adj <= m.adj
    <3>1. m = [b EXCEPT !.info = @ \cup {"PRIMARY"}, !.adj = a]
      BY <1>0, <2>1, <2>4, Adjustments
    <3>2. m \in IO /\ m.failed = {} /\ m.adj = a /\ m.info = {"PRIMARY"}
      BY <1>0, <2>2, <2>4, <3>1 DEF IO, Flags
    <3>3. a \in Nat
      BY DurationTypes DEF Word
    <3> HIDE DEF m
    <3>4. Decided(m, t, w)
      BY <1>0, <2>4, <3>2 DEF Decided, AdjOK
    <3> QED BY <2>1, <2>2, <3>2, <3>3, <3>4 DEF m
  <2>5. CASE /\ FadeEnd(w) <= t /\ t < MiddleEnd(w)
             /\ m = disarm_adjust_secondary(t, b)
    <3>1. m = [b EXCEPT !.info = @ \cup {"SECONDARY"}, !.adj = t]
      BY <1>0, <2>1, <2>5, Adjustments
    <3>2. m \in IO /\ m.failed = {} /\ m.adj = t /\ m.info = {"SECONDARY"}
      BY <1>0, <2>2, <3>1 DEF IO, Flags
    <3>3. t < FadeEnd(w) + Longer(hold_mid_time, disarm_hold_mid_time)
      BY <1>0, <2>5, DurationTypes DEF MiddleEnd, FadeEnd, TopEnd, Longer
    <3> HIDE DEF m
    <3>4. Decided(m, t, w)
      BY <1>0, <3>2, <3>3 DEF Decided, AdjOK
    <3> QED BY <1>0, <2>2, <3>2, <3>4 DEF m
  <2>6. t < TopEnd(w) /\ m = disarm_adjust_primary(t, b) =>
          Decided(m, t, w) /\ b.info \subseteq m.info /\ b.adj <= m.adj
    BY <1>0, <2>4, DurationTypes DEF TopEnd
  <2>7. TopEnd(w) <= t /\ m = disarm_adjust_primary(TopEnd(w), b) =>
          Decided(m, t, w) /\ b.info \subseteq m.info /\ b.adj <= m.adj
    <3>1. TopEnd(w) <= t => TopEnd(w) \in Word /\ TopEnd(w) <= TopEnd(w)
      BY <1>0, DurationTypes DEF TopEnd, Word
    <3> QED BY <2>4, <3>1
  <2> QED BY <1>3, <2>3, <2>5, <2>6, <2>7, FirstDisarmCases
<1> QED BY <1>0, <1>1, <1>2, <1>3, DecideCases

\* What the rest of the call may do to a decided block: show something and
\* leave the alarm unfinished, or end it.
Shown(m, out, t, w) ==
  \/ /\ out.info = m.info
     /\ out.light \in Lights
     /\ m.info # {} => out.light.to # "MAX"
     /\ t < LatestEnd(w)
  \/ /\ out.info = m.info \cup {"FINISHED"}
     /\ out.light = Dark

\* What is shown for flags and adjustment that go together: no assert fails,
\* the adjustment stays, and the outputs are those of the branch that is on.
LEMMA ShowOutcome ==
  ASSUME NEW t \in Word, NEW w \in Word, NEW m, Decided(m, t, w)
  PROVE  LET out == ModelByFlags(t, m, w)
         IN  /\ out \in IO
             /\ out.adj = m.adj
             /\ out.failed = {}
             /\ Shown(m, out, t, w)
PROOF
<1> DEFINE out  == ModelByFlags(t, m, w)
           Goal == /\ out \in IO
                   /\ out.adj = m.adj
                   /\ out.failed = {}
                   /\ Shown(m, out, t, w)
<1>0. /\ m \in IO /\ m.failed = {} /\ m.info \in SUBSET Flags
      /\ {"NEW", "FINISHED"} \cap m.info = {}
      /\ t \in Nat /\ w \in Nat /\ m.adj \in Nat /\ m.adj <= t /\ t < WordMod
      /\ Longer(hold_mid_time, disarm_hold_mid_time) \in Nat
  BY DurationTypes DEF Decided, IO, Word, AdjOK, Longer
<1> SUFFICES Goal
  OBVIOUS
<1>1. ASSUME out = DarkAndFinished(m)
      PROVE  Goal
  <2>1. Outputs(out, m, m.info \cup {"FINISHED"}, Dark)
    BY <1>0, <1>1, DarkFields
  <2> HIDE DEF out
  <2> QED BY <1>0, <2>1 DEF Outputs, Shown
<1>2. ASSUME NEW p \in Word, NEW c \in Word, NEW f \in Levels, NEW l \in Levels,
             out = SetRamp(m, p, c, f, l),
             m.info # {} => l # "MAX",
             t < LatestEnd(w)
      PROVE  Goal
  <2>1. Outputs(SetRamp(m, p, c, f, l), m, m.info, RampOf(p, c, f, l))
    BY <1>0, RampFields
  <2>2. Outputs(out, m, m.info, RampOf(p, c, f, l))
    BY <1>2, <2>1
  <2>3. RampOf(p, c, f, l) \in Lights /\ RampOf(p, c, f, l).to = l
    BY DEF Lights, RampOf
  <2> HIDE DEF out
  <2> QED BY <1>0, <1>2, <2>2, <2>3 DEF Outputs, Shown
<1>3. ASSUME NEW l \in Levels, out = set_const_brightness(m, l),
             m.info # {} => l # "MAX",
             t < LatestEnd(w)
      PROVE  Goal
  <2>1. Outputs(out, m, m.info, RampOf(0, 0, l, l))
    BY <1>0, <1>3, ConstFields
  <2>2. RampOf(0, 0, l, l) \in Lights /\ RampOf(0, 0, l, l).to = l
    BY DurationTypes DEF Lights, RampOf, Word
  <2> HIDE DEF out
  <2> QED BY <1>0, <1>3, <2>1, <2>2 DEF Outputs, Shown
<1>4. {"OFF", "MID", "MAX", "THIS_OR_OFF"} \subseteq Levels
  BY DEF Levels
<1>5. /\ rise_time \in Word /\ decrease_to_mid_time \in Word
      /\ decrease_to_zero_time \in Word
  BY DurationTypes DEF Word
<1>6. \A x \in Nat : x <= t => t - x \in Word
  BY <1>0, DurationTypes DEF Word
<1>7. CASE "SECONDARY" \in m.info
  <2>1. out = do_alarm_model_disarmed_late(t, m)
    BY <1>7 DEF ModelByFlags, no_disarm_pending
  <2>2. m.adj < FadeEnd(w) + Longer(hold_mid_time, disarm_hold_mid_time)
    BY <1>7 DEF Decided, AdjOK
  <2>3. CASE t < m.adj + decrease_to_zero_time
    <3>1. out = SetRamp(m, decrease_to_zero_time, t - m.adj, "MID", "OFF")
      BY <1>0, <2>1, <2>3, LateCases
    <3>2. t < LatestEnd(w)
      BY <1>0, <2>2, <2>3, DurationTypes DEF LatestEnd, FadeEnd, TopEnd
    <3>3. t - m.adj \in Word
      BY <1>0, <1>6
    <3> HIDE DEF out, Goal
    <3> QED BY <1>2, <1>4, <1>5, <3>1, <3>2, <3>3
  <2>4. CASE ~(t < m.adj + decrease_to_zero_time)
    BY <1>0, <1>1, <2>1, <2>4, LateCases
  <2> QED BY <2>3, <2>4
<1>8. CASE "SECONDARY" \notin m.info /\ "PRIMARY" \in m.info
  <2> DEFINE middle == m.adj + decrease_to_mid_time
             ending == middle + disarm_hold_mid_time
             finish == ending + decrease_to_zero_time
  <2>1. out = do_alarm_model_disarmed_early(t, m)
    BY <1>8 DEF ModelByFlags, no_disarm_pending
  <2>2. m.adj <= TopEnd(w)
    BY <1>8 DEF Decided, AdjOK
  <2>3. /\ middle \in Nat /\ ending \in Nat /\ finish \in Nat
        /\ t < finish => t < LatestEnd(w)
        /\ t < middle => t < finish
        /\ t < ending => t < finish
    BY <1>0, <2>2, DurationTypes DEF LatestEnd, FadeEnd, TopEnd, Longer
  <2>4. \/ /\ t < middle
           /\ out = SetRamp(m, decrease_to_mid_time, t - m.adj, "THIS_OR_OFF", "MID")
        \/ /\ t < ending
           /\ out = set_const_brightness(m, "MID")
        \/ /\ ending <= t /\ t < finish
           /\ out = SetRamp(m, decrease_to_zero_time, t - ending, "MID", "OFF")
        \/ out = DarkAndFinished(m)
    BY <1>0, <2>1, EarlyCases
  <2>5. t - m.adj \in Word /\ (ending <= t => t - ending \in Word)
    BY <1>0, <1>6, <2>3
  <2> HIDE DEF out, Goal, middle, ending, finish
  <2> QED BY <1>1, <1>2, <1>3, <1>4, <1>5, <2>3, <2>4, <2>5
<1>9. CASE {"SECONDARY", "PRIMARY"} \cap m.info = {} /\ "PRE_CANCEL" \in m.info
  <2>1. out = DarkAndFinished(m)
    BY <1>9 DEF ModelByFlags, no_disarm_pending, do_alarm_model_disarmed_pre_cancel
  <2> QED BY <1>1, <2>1
<1>10. CASE m.info = {}
  <2>1. out = do_alarm_model_direct(t, m, w)
    BY <1>10 DEF ModelByFlags, no_disarm_pending
  <2>2. /\ TopEnd(w) \in Nat /\ FadeEnd(w) \in Nat /\ MiddleEnd(w) \in Nat
        /\ t < NormalEnd(w) => t < LatestEnd(w)
        /\ t < MiddleEnd(w) => t < NormalEnd(w)
        /\ t < FadeEnd(w) => t < NormalEnd(w)
        /\ t < TopEnd(w) => t < NormalEnd(w)
        /\ t < w + rise_time => t < NormalEnd(w)
        /\ t < w => t < NormalEnd(w)
    BY <1>0, DurationTypes DEF NormalEnd, MiddleEnd, LatestEnd, FadeEnd, TopEnd, Longer
  <2>3. /\ w <= t => t - w \in Word
        /\ TopEnd(w) <= t => t - TopEnd(w) \in Word
        /\ MiddleEnd(w) <= t => t - MiddleEnd(w) \in Word
    BY <1>0, <1>6, <2>2
  <2> HIDE DEF out, Goal
  <2> QED BY <1>1, <1>2, <1>3, <1>4, <1>5, <1>10, <2>1, <2>2, <2>3, DirectCases
<1>11. m.info = {} \/ {"PRIMARY", "SECONDARY", "PRE_CANCEL"} \cap m.info # {}
  BY <1>0 DEF Flags
<1> QED BY <1>7, <1>8, <1>9, <1>10, <1>11

\* What a call of the model at time t returns for block b: every assert holds,
\* the flags and the adjustment are consistent and have only grown, and an
\* alarm left unfinished still has time.
Called(out, b, t, w) ==
  /\ out \in IO
  /\ out.failed = {}
  /\ FlagsOK(out.info)
  /\ AdjOK(out.info, out.adj, t, w)
  /\ b.info \subseteq out.info
  /\ b.adj <= out.adj
  /\ out.info # A_ALARM_NEW => out.light.to # "MAX"
  /\ ~alarm_finished(out) => t < LatestEnd(w)

\* A call of do_alarm_model on a block whose adjustment goes with its flags
\* leaves one of which that is true again.
LEMMA CallOutcome ==
  ASSUME NEW t \in Word, NEW w \in Word, NEW b, NEW request \in BOOLEAN,
         Clean(b), AdjOK(b.info, b.adj, t, w)
  PROVE  Called(do_alarm_model(t, IF request THEN set_disarm_new(b) ELSE b, w), b, t, w)
PROOF
<1> DEFINE m   == Decide(t, b, request, w)
           out == ModelByFlags(t, m, w)
<1>1. do_alarm_model(t, IF request THEN set_disarm_new(b) ELSE b, w) = out
  BY CallIsDecideAndShow
<1>2. Decided(m, t, w) /\ b.info \subseteq m.info /\ b.adj <= m.adj
  BY DecideIsDecided
<1> HIDE DEF m
<1>3. out \in IO /\ out.adj = m.adj /\ out.failed = {} /\ Shown(m, out, t, w)
  BY <1>2, ShowOutcome
<1>4. out.info = m.info => "PRE_CANCEL" \notin m.info
  <2>1. ASSUME "PRE_CANCEL" \in m.info PROVE "FINISHED" \in out.info
    <3>1. m.info = {"PRE_CANCEL"} /\ m \in IO
      BY <1>2, <2>1 DEF Decided
    <3>2. out = DarkAndFinished(m)
      BY <3>1 DEF ModelByFlags, no_disarm_pending, do_alarm_model_disarmed_pre_cancel
    <3> HIDE DEF out
    <3> QED BY <3>1, <3>2, DarkFields DEF Outputs
  <2> QED BY <1>2, <2>1 DEF Decided
<1> HIDE DEF out
<1>5. FlagsOK(out.info)
  BY <1>2, <1>3, <1>4 DEF FlagsOK, Decided, Shown
<1>6. AdjOK(out.info, out.adj, t, w)
  BY <1>2, <1>3 DEF AdjOK, Decided, Shown
<1>7. out.info # A_ALARM_NEW => out.light.to # "MAX"
  BY <1>3 DEF Shown, A_ALARM_NEW, Dark
<1>8. ~alarm_finished(out) => t < LatestEnd(w)
  BY <1>3 DEF Shown, alarm_finished
<1>9. Called(out, b, t, w)
  BY <1>2, <1>3, <1>5, <1>6, <1>7, <1>8 DEF Shown, Called
<1> QED BY <1>1, <1>9

\* A failed assert is remembered, and the rest of the block is not touched.
LEMMA AssertFails ==
  ASSUME NEW b \in IO, b.failed = {}, NEW n \in Asserts
  PROVE  /\ dynamic_assert(b, n, FALSE) \in IO
         /\ dynamic_assert(b, n, FALSE).failed = {n}
  BY DEF dynamic_assert, IO

\* A time before the adjustment is the only thing the asserts of the two
\* disarmed models catch.
LEMMA TornModel ==
  ASSUME NEW t \in Word, NEW b, Clean(b), t < b.adj,
         {"PRIMARY", "SECONDARY"} \cap b.info # {}, NEW w
  PROVE  ModelByFlags(t, b, w).failed = {"rtc not before adjustment"}
PROOF
<1> DEFINE checked    == dynamic_assert(b, "rtc not before adjustment", FALSE)
           model_time == Sub(t, b.adj)
           since_mid  == Sub(model_time, decrease_to_mid_time)
           since_zero == Sub(since_mid, disarm_hold_mid_time)
<1>1. checked \in IO /\ checked.failed = {"rtc not before adjustment"}
  BY AssertFails DEF Clean, Asserts
<1>2. dynamic_assert(b, "rtc not before adjustment", t >= b.adj) = checked
  <2>1. b.adj \in Nat /\ t \in Nat
    BY DurationTypes DEF Clean, IO, Word
  <2>2. (t >= b.adj) = FALSE
    BY <2>1
  <2> QED BY <2>2
<1>3. model_time \in Word /\ since_mid \in Word /\ since_zero \in Word
  BY Words DEF Clean, IO
<1>4. {"OFF", "MID", "THIS_OR_OFF"} \subseteq Levels
  BY DEF Levels
<1>5. ASSUME NEW r,
             \/ \E p, c \in Word, f, l \in Levels : r = SetRamp(checked, p, c, f, l)
             \/ \E l \in Levels : r = set_const_brightness(checked, l)
             \/ r = DarkAndFinished(checked)
      PROVE  r.failed = {"rtc not before adjustment"}
  <2> HIDE DEF checked
  <2>1. ASSUME NEW p \in Word, NEW c \in Word, NEW f \in Levels, NEW l \in Levels,
               r = SetRamp(checked, p, c, f, l)
        PROVE  r.failed = {"rtc not before adjustment"}
    <3>1. Outputs(SetRamp(checked, p, c, f, l), checked, checked.info, RampOf(p, c, f, l))
      BY <1>1, RampFields
    <3> QED BY <1>1, <2>1, <3>1 DEF Outputs
  <2>2. ASSUME NEW l \in Levels, r = set_const_brightness(checked, l)
        PROVE  r.failed = {"rtc not before adjustment"}
    BY <1>1, <2>2, ConstFields DEF Outputs
  <2>3. CASE r = DarkAndFinished(checked)
    BY <1>1, <2>3, DarkFields DEF Outputs
  <2> QED BY <1>5, <2>1, <2>2, <2>3
<1>6. CASE "SECONDARY" \in b.info
  <2>1. ModelByFlags(t, b, w) = do_alarm_model_disarmed_late(t, b)
    BY <1>6 DEF ModelByFlags, no_disarm_pending
  <2>2. \/ do_alarm_model_disarmed_late(t, b)
             = SetRamp(checked, decrease_to_zero_time, model_time, "MID", "OFF")
        \/ do_alarm_model_disarmed_late(t, b) = DarkAndFinished(checked)
    BY <1>2 DEF do_alarm_model_disarmed_late
  <2>3. decrease_to_zero_time \in Word
    BY Words
  <2> HIDE DEF checked, model_time, since_mid, since_zero
  <2> QED BY <1>3, <1>4, <1>5, <2>1, <2>2, <2>3
<1>7. CASE "SECONDARY" \notin b.info /\ "PRIMARY" \in b.info
  <2>1. ModelByFlags(t, b, w) = do_alarm_model_disarmed_early(t, b)
    BY <1>7 DEF ModelByFlags, no_disarm_pending
  <2>2. \/ do_alarm_model_disarmed_early(t, b)
             = SetRamp(checked, decrease_to_mid_time, model_time, "THIS_OR_OFF", "MID")
        \/ do_alarm_model_disarmed_early(t, b) = set_const_brightness(checked, "MID")
        \/ do_alarm_model_disarmed_early(t, b)
             = SetRamp(checked, decrease_to_zero_time, since_zero, "MID", "OFF")
        \/ do_alarm_model_disarmed_early(t, b) = DarkAndFinished(checked)
    BY <1>2 DEF do_alarm_model_disarmed_early
  <2>3. decrease_to_mid_time \in Word /\ decrease_to_zero_time \in Word
    BY Words
  <2> HIDE DEF checked, model_time, since_mid, since_zero
  <2> QED BY <1>3, <1>4, <1>5, <2>1, <2>2, <2>3
<1> QED BY <1>6, <1>7

\* At a time before the adjustment either that assert fails, or the request is
\* taken for one in the middle hold, by a difference that has wrapped, and dates
\* the alarm back.
LEMMA TornCall ==
  ASSUME NEW t \in Word, NEW c, NEW w \in Word, NEW b, NEW request \in BOOLEAN,
         Clean(b), AdjOK(b.info, b.adj, c, w), t < b.adj
  PROVE  LET out == do_alarm_model(t, IF request THEN set_disarm_new(b) ELSE b, w)
         IN  \/ out.failed = {"rtc not before adjustment"}
             \/ out.failed = {} /\ FlagsOK(out.info) /\ AdjOK(out.info, out.adj, t, w)
PROOF
<1> DEFINE m   == Decide(t, b, request, w)
           out == ModelByFlags(t, m, w)
<1>0. /\ b \in IO /\ b.failed = {} /\ b.info \in SUBSET Flags /\ b.adj \in Nat
      /\ {"NEW", "PRE_CANCEL", "FINISHED"} \cap b.info = {}
      /\ t \in Nat /\ w \in Nat /\ t < WordMod
      /\ Longer(hold_mid_time, disarm_hold_mid_time) \in Nat
  BY DurationTypes DEF Clean, IO, Word, Longer
<1>1. do_alarm_model(t, IF request THEN set_disarm_new(b) ELSE b, w) = out
  BY CallIsDecideAndShow
<1>2. {"PRIMARY", "SECONDARY"} \cap b.info # {}
  BY <1>0 DEF AdjOK
<1>3. CASE m = b
  BY <1>1, <1>2, <1>3, TornModel
<1>4. CASE m = disarm_adjust_secondary(t, b) /\ "SECONDARY" \notin b.info
  <2>1. m = [b EXCEPT !.info = @ \cup {"SECONDARY"}, !.adj = t]
    BY <1>0, <1>4 DEF disarm_adjust_secondary, dynamic_assert, IO
  <2>2. m \in IO /\ m.failed = {} /\ m.adj = t /\ m.info = b.info \cup {"SECONDARY"}
    BY <1>0, <2>1 DEF IO, Flags
  <2>3. b.adj <= TopEnd(w)
    BY <1>2, <1>4 DEF AdjOK
  <2>4. t < FadeEnd(w) + Longer(hold_mid_time, disarm_hold_mid_time)
    BY <1>0, <2>3, DurationTypes DEF FadeEnd, TopEnd
  <2> HIDE DEF m
  <2>5. Decided(m, t, w)
    BY <1>0, <2>2, <2>4 DEF Decided, AdjOK
  <2>6. out.adj = t /\ out.failed = {} /\ Shown(m, out, t, w)
    BY <2>2, <2>5, ShowOutcome
  <2> HIDE DEF out
  <2>7. FlagsOK(out.info) /\ AdjOK(out.info, out.adj, t, w)
    BY <1>0, <2>2, <2>5, <2>6 DEF Shown, FlagsOK, AdjOK, Decided
  <2> QED BY <1>1, <2>6, <2>7
<1>5. m = b \/ (m = disarm_adjust_secondary(t, b) /\ "SECONDARY" \notin b.info)
  BY <1>2, DecideCases DEF SecondDisarm
<1> QED BY <1>3, <1>4, <1>5

\* The block a worker starts with holds what it was created with.
LEMMA StartIOFields ==
  ASSUME NEW info \in SUBSET Flags, NEW adj \in Word
  PROVE  /\ StartIO(info, adj) \in IO
         /\ StartIO(info, adj).info = info
         /\ StartIO(info, adj).adj = adj
         /\ StartIO(info, adj).failed = {}
         /\ StartIO(info, adj).light = NoLight
         /\ NoLight.to # "MAX"
  BY DEF StartIO, IO, NoLight

\* A consistent pair stays consistent as time passes.
LEMMA AdjOKLater ==
  ASSUME NEW info, NEW adj \in Nat, NEW t \in Nat, NEW u \in Nat, NEW w,
         t <= u, AdjOK(info, adj, t, w)
  PROVE  AdjOK(info, adj, u, w)
  BY DEF AdjOK
==============================================================================
