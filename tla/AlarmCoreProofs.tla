--------------------------- MODULE AlarmCoreProofs ---------------------------
(***************************************************************************)
(* AlarmCore for every value of its constants: the invariants, and that    *)
(* it implements AlarmTimeline.                                            *)
(***************************************************************************)
EXTENDS AlarmCore, CoreModelProofs, TLAPS

------------------------------------------------------------------------------
(* The invariant *)

IInv == TypeOK /\ NoAssert /\ Deadline /\ Consistent

\* The first alarm is consistent.
LEMMA InitInvariant == Init => IInv
PROOF
<1> SUFFICES ASSUME Init PROVE IInv
  OBVIOUS
<1>1. /\ WordMod - 1 \in Word /\ 0 \in Word /\ 0 \in 0 .. MaxTime
      /\ A_ALARM_POR_VALUE \in SUBSET Flags
  BY DurationTypes, TimesAssumption DEF Word, A_ALARM_POR_VALUE, Flags
<1>2. TypeOK
  BY <1>1, StartIOFields DEF Init, TypeOK, WorkerStates
<1>3. Consistent
  BY <1>1, StartIOFields
     DEF Init, Consistent, FlagsOK, AdjOK, A_ALARM_POR_VALUE, A_ALARM_NEW
<1> QED BY <1>2, <1>3 DEF Init, IInv, NoAssert, Deadline

\* The worker's step, for the invariant and for the refinement.
LEMMA ModelStep ==
  ASSUME IInv, Model
  PROVE  /\ Clean(io) /\ rtc \in Word /\ wait \in Word
         /\ AdjOK(io.info, io.adj, rtc, wait)
         /\ Called(io', io, rtc, wait)
         /\ worker' = "store"
PROOF
<1>1. Clean(io) /\ AdjOK(io.info, io.adj, rtc, wait)
  BY DEF IInv, TypeOK, Consistent, FlagsOK, Clean, Model
<1>2. rtc \in Word /\ wait \in Word /\ disarm_alarm \in BOOLEAN
  BY DurationTypes, TimesAssumption DEF IInv, TypeOK, Word
<1>3. io' = do_alarm_model(rtc, IF disarm_alarm THEN set_disarm_new(io) ELSE io, wait)
  BY DEF Model
<1>4. Called(io', io, rtc, wait)
  BY <1>1, <1>2, <1>3, CallOutcome
<1>5. worker' = "store"
  BY <1>4 DEF Model, Called
<1> QED BY <1>1, <1>2, <1>4, <1>5

\* Every step of worker, button, RTC, power and main keeps the invariant.
LEMMA NextInvariant == IInv /\ [Next]_vars => IInv'
PROOF
<1> SUFFICES ASSUME IInv, [Next]_vars PROVE IInv'
  OBVIOUS
<1> USE DEF IInv, NoAssert
<1>0. /\ rtc \in Nat /\ wait \in Word /\ bkp.info \in SUBSET Flags
      /\ bkp.adj \in Word /\ bkp.adj \in Nat /\ io.adj \in Nat
      /\ bkp = [info |-> bkp.info, adj |-> bkp.adj]
      /\ MaxTime \in Nat
  BY TimesAssumption, DurationTypes DEF TypeOK, Word, IO
<1>1. CASE Tick
  <2>1. rtc' \in 0 .. MaxTime /\ rtc' \in Nat /\ rtc <= rtc'
    BY <1>0, <1>1 DEF Tick
  <2>2. TypeOK'
    BY <1>1, <2>1 DEF Tick, TypeOK
  <2>3. /\ AdjOK(bkp.info, bkp.adj, rtc', wait)
        /\ AdjOK(io.info, io.adj, rtc', wait)
    BY <1>0, <2>1, AdjOKLater DEF Consistent
  <2>4. Consistent'
    BY <1>1, <2>3 DEF Tick, Consistent
  <2> QED BY <1>1, <2>2, <2>4 DEF Tick, Deadline
<1>2. CASE Disarm
  BY <1>2 DEF Disarm, TypeOK, Deadline, Consistent
<1>3. CASE Model
  <2>1. TypeOK'
    BY <1>3, ModelStep DEF Model, Called, TypeOK, WorkerStates
  <2>2. Consistent'
    <3>1. /\ bkp.info \subseteq io'.info /\ bkp.adj <= io'.adj
      <4>1. io'.adj \in Nat
        BY <1>3, ModelStep, DurationTypes DEF Called, IO, Word
      <4> QED BY <1>0, <1>3, <4>1, ModelStep DEF Called, Consistent
    <3> QED BY <1>3, <3>1, ModelStep DEF Model, Called, Consistent
  <2>3. Deadline'
    BY <1>3, ModelStep DEF Deadline, Model, Called
  <2> QED BY <1>3, <2>1, <2>2, <2>3, ModelStep
<1>4. CASE Store
  <2>1. io.info \in SUBSET Flags /\ io.adj \in Word
    BY DEF TypeOK, IO
  <2>2. TypeOK'
    BY <1>4, <2>1 DEF Store, TypeOK, WorkerStates
  <2>3. bkp'.info = io.info /\ bkp'.adj = io.adj
    BY <1>4 DEF Store
  <2>4. Consistent'
    BY <1>0, <1>4, <2>3 DEF Store, Consistent, alarm_finished
  <2> QED BY <1>4, <2>2, <2>4 DEF Store, Deadline
<1>5. CASE PowerFault
  <2>1. TypeOK'
    BY <1>0, <1>5, StartIOFields DEF PowerFault, TypeOK, WorkerStates
  <2>2. Consistent'
    BY <1>0, <1>5, StartIOFields DEF PowerFault, Consistent
  <2> QED BY <1>5, <2>1, <2>2 DEF PowerFault, Deadline
<1>6. ASSUME NEW w \in WaitTimes, NewAlarm(w) PROVE IInv'
  <2>1. /\ 0 \in Word /\ 0 \in 0 .. MaxTime /\ w \in Word
        /\ A_ALARM_NEW \in SUBSET Flags
    BY DurationTypes, TimesAssumption DEF Word, A_ALARM_NEW
  <2>2. TypeOK'
    BY <1>6, <2>1, StartIOFields DEF NewAlarm, TypeOK, WorkerStates
  <2>3. AdjOK({}, 0, 0, w) /\ FlagsOK({})
    BY DEF AdjOK, FlagsOK
  <2>4. Consistent'
    BY <1>6, <2>1, <2>3, StartIOFields DEF NewAlarm, Consistent, A_ALARM_NEW
  <2> QED BY <1>6, <2>2, <2>4 DEF NewAlarm, Deadline
<1>7. CASE UNCHANGED vars
  BY <1>7 DEF vars, TypeOK, Deadline, Consistent
<1> QED BY <1>1, <1>2, <1>3, <1>4, <1>5, <1>6, <1>7 DEF Next

\* The invariant holds in every state, through presses, power cuts and new
\* alarms.
THEOREM Invariance == Spec => []IInv
PROOF
<1> QED BY InitInvariant, NextInvariant, PTL DEF Spec

\* Every variable has its type, whatever the durations.  That no difference
\* that has wrapped is taken for a time is AlwaysConsistent and Implements.
THEOREM TypeCorrect == Spec => []TypeOK
BY Invariance, PTL DEF IInv

\* The worker never spins in a dynamic_assert.
THEOREM NoAssertFails == Spec => []NoAssert
BY Invariance, PTL DEF IInv

\* No sequence of disarms and power cuts keeps an alarm going past its latest
\* end.
THEOREM EndsInTime == Spec => []Deadline
BY Invariance, PTL DEF IInv

\* The flags and adjustments of the worker and of the backup registers are
\* always consistent.
THEOREM AlwaysConsistent == Spec => []Consistent
BY Invariance, PTL DEF IInv

\* A lamp that was disarmed never goes for its maximum again.
THEOREM NeverBrightAfterDisarm == Spec => []DisarmedNotBright
PROOF
<1>1. IInv => DisarmedNotBright
  BY DEF IInv, Consistent, DisarmedNotBright, A_ALARM_NEW
<1> QED BY <1>1, Invariance, PTL

\* Until the next alarm the backup registers forget no flag, and an adjustment
\* in them never goes back.
THEOREM DisarmIsKept == Spec => DisarmKept
PROOF
<1> DEFINE Kept == \/ \E w \in WaitTimes : NewAlarm(w)
                   \/ bkp.info \subseteq bkp'.info /\ bkp.adj <= bkp'.adj
<1>1. IInv /\ [Next]_vars => [Kept]_vars
  <2> SUFFICES ASSUME IInv, Next PROVE Kept
    OBVIOUS
  <2>1. bkp.adj \in Nat /\ io.adj \in Nat
    BY DurationTypes DEF IInv, TypeOK, Word, IO
  <2>2. CASE Tick \/ Disarm \/ Model \/ PowerFault
    BY <2>1, <2>2 DEF Tick, Disarm, Model, PowerFault
  <2>3. CASE Store
    <3>1. bkp'.info = io.info /\ bkp'.adj = io.adj
      BY <2>3 DEF Store
    <3> QED BY <3>1 DEF IInv, Consistent
  <2> QED BY <2>2, <2>3 DEF Next
<1> QED BY <1>1, Invariance, PTL DEF Spec, DisarmKept

------------------------------------------------------------------------------
(* AlarmCore implements AlarmTimeline *)

\* The course a decided block stands for; a cancelled alarm is as good as over.
CourseOfDecided(m) ==
  IF m.info = {"PRE_CANCEL"} THEN Timeline!Over ELSE CourseOf(m.info, m.adj)

\* The stretch of course c that is on now is (start, length, ...), seen from
\* its ends.
IsOn(s, start, end, stretch) == start <= rtc /\ rtc < end /\ s = stretch

\* The fields of a stretch.
LEMMA StretchFields ==
  ASSUME NEW a, NEW n, NEW f, NEW l, NEW p
  PROVE  /\ Timeline!Stretch(a, n, f, l, p).start = a
         /\ Timeline!Stretch(a, n, f, l, p).length = n
         /\ Timeline!Stretch(a, n, f, l, p).from = f
         /\ Timeline!Stretch(a, n, f, l, p).to = l
         /\ Timeline!Stretch(a, n, f, l, p).press = p
  BY DEF Timeline!Stretch

\* The stretch that is on when nobody has disarmed the alarm.
LEMMA NormalStretches ==
  ASSUME rtc \in Nat, wait \in Nat, NEW s
  PROVE  s \in Timeline!Current(Timeline!Normal) <=>
           \/ IsOn(s, 0, wait, Timeline!Stretch(0, wait, "OFF", "OFF", "cancel"))
           \/ IsOn(s, wait, wait + rise_time,
                   Timeline!Stretch(wait, rise_time, "OFF", "MAX", "dim now"))
           \/ IsOn(s, wait + rise_time, TopEnd(wait),
                   Timeline!Stretch(wait + rise_time, hold_max_time, "MAX", "MAX", "dim now"))
           \/ IsOn(s, TopEnd(wait), FadeEnd(wait),
                   Timeline!Stretch(TopEnd(wait), decrease_to_mid_time,
                                    "MAX", "MID", "dim from start"))
           \/ IsOn(s, FadeEnd(wait), MiddleEnd(wait),
                   Timeline!Stretch(FadeEnd(wait), hold_mid_time, "MID", "MID", "put out"))
           \/ IsOn(s, MiddleEnd(wait), NormalEnd(wait),
                   Timeline!Stretch(MiddleEnd(wait), decrease_to_zero_time,
                                    "MID", "OFF", "ignore"))
PROOF
<1> DEFINE On(x) == x.start <= rtc /\ rtc < x.start + x.length
<1>1. s \in Timeline!Current(Timeline!Normal) <=> s \in Timeline!NormalTable /\ On(s)
  BY DEF Timeline!Current, Timeline!Table, Timeline!Normal
<1>2. s \in Timeline!NormalTable <=>
        \/ s = Timeline!Stretch(0, wait, "OFF", "OFF", "cancel")
        \/ s = Timeline!Stretch(wait, rise_time, "OFF", "MAX", "dim now")
        \/ s = Timeline!Stretch(wait + rise_time, hold_max_time, "MAX", "MAX", "dim now")
        \/ s = Timeline!Stretch(TopEnd(wait), decrease_to_mid_time,
                                "MAX", "MID", "dim from start")
        \/ s = Timeline!Stretch(FadeEnd(wait), hold_mid_time, "MID", "MID", "put out")
        \/ s = Timeline!Stretch(MiddleEnd(wait), decrease_to_zero_time,
                                "MID", "OFF", "ignore")
  BY DEF Timeline!NormalTable, TopEnd, FadeEnd, MiddleEnd
<1>3. \A a, n, f, l, p : On(Timeline!Stretch(a, n, f, l, p)) <=> a <= rtc /\ rtc < a + n
  BY StretchFields
<1>4. /\ 0 + wait = wait
      /\ wait + rise_time + hold_max_time = TopEnd(wait)
      /\ TopEnd(wait) + decrease_to_mid_time = FadeEnd(wait)
      /\ FadeEnd(wait) + hold_mid_time = MiddleEnd(wait)
      /\ MiddleEnd(wait) + decrease_to_zero_time = NormalEnd(wait)
  BY DurationTypes DEF TopEnd, FadeEnd, MiddleEnd, NormalEnd
<1> HIDE DEF On
<1> QED BY <1>1, <1>2, <1>3, <1>4 DEF IsOn

\* The stretch that is on after a first disarm.
LEMMA DimmedStretches ==
  ASSUME rtc \in Nat, NEW d \in Nat, NEW s, NEW middle, NEW ending,
         middle = d + decrease_to_mid_time, ending = middle + disarm_hold_mid_time
  PROVE  s \in Timeline!Current(Timeline!Dimmed(d)) <=>
           \/ IsOn(s, d, middle, Timeline!Stretch(d, decrease_to_mid_time,
                                                 "THIS_OR_OFF", "MID", "ignore"))
           \/ IsOn(s, middle, ending,
                   Timeline!Stretch(middle, disarm_hold_mid_time, "MID", "MID", "put out"))
           \/ IsOn(s, ending, ending + decrease_to_zero_time,
                   Timeline!Stretch(ending, decrease_to_zero_time, "MID", "OFF", "ignore"))
PROOF
<1> DEFINE On(x) == x.start <= rtc /\ rtc < x.start + x.length
<1>1. s \in Timeline!Current(Timeline!Dimmed(d)) <=> s \in Timeline!DimmedTable(d) /\ On(s)
  BY DEF Timeline!Current, Timeline!Table, Timeline!Dimmed
<1>2. \A a, n, f, l, p : On(Timeline!Stretch(a, n, f, l, p)) <=> a <= rtc /\ rtc < a + n
  BY StretchFields
<1> HIDE DEF On
<1> QED BY <1>1, <1>2 DEF Timeline!DimmedTable, IsOn

\* The stretch that is on after a second disarm.
LEMMA OutStretches ==
  ASSUME rtc \in Nat, NEW d \in Nat, NEW s
  PROVE  s \in Timeline!Current(Timeline!Out(d)) <=>
           IsOn(s, d, d + decrease_to_zero_time,
                Timeline!Stretch(d, decrease_to_zero_time, "MID", "OFF", "ignore"))
PROOF
<1> DEFINE On(x) == x.start <= rtc /\ rtc < x.start + x.length
<1>1. s \in Timeline!Current(Timeline!Out(d)) <=> s \in Timeline!OutTable(d) /\ On(s)
  BY DEF Timeline!Current, Timeline!Table, Timeline!Out
<1>2. \A a, n, f, l, p : On(Timeline!Stretch(a, n, f, l, p)) <=> a <= rtc /\ rtc < a + n
  BY StretchFields
<1> HIDE DEF On
<1> QED BY <1>1, <1>2 DEF Timeline!OutTable, IsOn

\* An alarm that is over has no stretches.
LEMMA OverStretches == Timeline!Current(Timeline!Over) = {}
  BY DEF Timeline!Current, Timeline!Table, Timeline!Over

\* The outputs in a stretch: its level, or how far its ramp has got.
LEMMA PictureOf ==
  ASSUME NEW a, NEW n, NEW f, NEW l, NEW p
  PROVE  Timeline!Picture(Timeline!Stretch(a, n, f, l, p))
           = IF f = l THEN RampOf(0, 0, f, l) ELSE RampOf(n, rtc - a, f, l)
  BY StretchFields DEF Timeline!Picture, RampOf

\* What AlarmTimeline asks of the picture and the course after a look, for an
\* alarm steered to course c.
ShownAsPromised(c, out) ==
  \/ \E s \in Timeline!Current(c) :
        CourseOf(out.info, out.adj) = c /\ out.light = Timeline!Picture(s)
  \/ /\ Timeline!Current(c) = {}
     /\ CourseOf(out.info, out.adj) = Timeline!Over
     /\ out.light = Timeline!Dark

\* The branch the model takes after its decision is the stretch of the
\* timetable.
LEMMA ShowRefines ==
  ASSUME NEW m, rtc \in Word, wait \in Word, Decided(m, rtc, wait)
  PROVE  ShownAsPromised(CourseOfDecided(m), ModelByFlags(rtc, m, wait))
PROOF
<1> DEFINE out == ModelByFlags(rtc, m, wait)
           c   == CourseOfDecided(m)
<1>0. /\ m \in IO /\ {"NEW", "FINISHED"} \cap m.info = {} /\ m.info \in SUBSET Flags
      /\ rtc \in Nat /\ wait \in Nat /\ m.adj \in Nat /\ m.adj <= rtc /\ rtc < WordMod
      /\ "PRE_CANCEL" \in m.info => m.info = {"PRE_CANCEL"}
  BY DurationTypes DEF Decided, IO, Word, AdjOK
<1> SUFFICES ShownAsPromised(c, out)
  OBVIOUS
<1>1. ASSUME out = DarkAndFinished(m), Timeline!Current(c) = {}
      PROVE  ShownAsPromised(c, out)
  <2>1. Outputs(out, m, m.info \cup {"FINISHED"}, Dark)
    BY <1>0, <1>1, DarkFields
  <2>2. CourseOf(out.info, out.adj) = Timeline!Over /\ out.light = Timeline!Dark
    <3> HIDE DEF out
    <3> QED BY <2>1 DEF Outputs, CourseOf, Timeline!Over, Timeline!Dark, Dark
  <2> HIDE DEF out, c
  <2> QED BY <1>1, <2>2 DEF ShownAsPromised
<1>2. ASSUME NEW s \in Timeline!Current(c),
             m.info # {"PRE_CANCEL"},
             Outputs(out, m, m.info, Timeline!Picture(s))
      PROVE  ShownAsPromised(c, out)
  <2>1. CourseOf(out.info, out.adj) = c /\ out.light = Timeline!Picture(s)
    <3>1. c = CourseOf(m.info, m.adj)
      BY <1>2 DEF CourseOfDecided
    <3> HIDE DEF out, c
    <3> QED BY <1>2, <3>1 DEF Outputs
  <2> HIDE DEF out, c
  <2> QED BY <2>1 DEF ShownAsPromised
<1>3. ASSUME NEW a \in Nat, NEW n \in Word, NEW f \in Levels, NEW l \in Levels, NEW p,
             a <= rtc, f # l,
             Timeline!Stretch(a, n, f, l, p) \in Timeline!Current(c),
             m.info # {"PRE_CANCEL"},
             out = SetRamp(m, n, rtc - a, f, l)
      PROVE  ShownAsPromised(c, out)
  <2>1. rtc - a \in Word
    BY <1>0, <1>3, DurationTypes DEF Word
  <2>2. Outputs(SetRamp(m, n, rtc - a, f, l), m, m.info, RampOf(n, rtc - a, f, l))
    BY <1>0, <2>1, RampFields
  <2>3. Timeline!Picture(Timeline!Stretch(a, n, f, l, p)) = RampOf(n, rtc - a, f, l)
    BY <1>3, PictureOf
  <2>4. Outputs(out, m, m.info, Timeline!Picture(Timeline!Stretch(a, n, f, l, p)))
    BY <1>3, <2>2, <2>3
  <2> HIDE DEF out, c
  <2> QED BY <1>2, <1>3, <2>4
<1>4. ASSUME NEW a, NEW n, NEW l \in Levels, NEW p,
             Timeline!Stretch(a, n, l, l, p) \in Timeline!Current(c),
             m.info # {"PRE_CANCEL"},
             out = set_const_brightness(m, l)
      PROVE  ShownAsPromised(c, out)
  <2>1. Outputs(set_const_brightness(m, l), m, m.info, RampOf(0, 0, l, l))
    BY <1>0, ConstFields
  <2>2. Timeline!Picture(Timeline!Stretch(a, n, l, l, p)) = RampOf(0, 0, l, l)
    BY PictureOf
  <2>3. Outputs(out, m, m.info, Timeline!Picture(Timeline!Stretch(a, n, l, l, p)))
    BY <1>4, <2>1, <2>2
  <2> HIDE DEF out, c
  <2> QED BY <1>2, <1>4, <2>3
<1>5. /\ "OFF" \in Levels /\ "MID" \in Levels /\ "MAX" \in Levels
      /\ "THIS_OR_OFF" \in Levels
      /\ rise_time \in Word /\ decrease_to_mid_time \in Word
      /\ decrease_to_zero_time \in Word
  BY DurationTypes DEF Levels, Word
<1>6. CASE "SECONDARY" \in m.info
  <2>1. out = do_alarm_model_disarmed_late(rtc, m)
    BY <1>6 DEF ModelByFlags, no_disarm_pending
  <2>2. c = Timeline!Out(m.adj) /\ m.info # {"PRE_CANCEL"}
    BY <1>0, <1>6 DEF CourseOfDecided, CourseOf, Timeline!Out
  <2>3. CASE rtc < m.adj + decrease_to_zero_time
    <3>1. out = SetRamp(m, decrease_to_zero_time, rtc - m.adj, "MID", "OFF")
      BY <1>0, <2>1, <2>3, LateCases
    <3>2. Timeline!Stretch(m.adj, decrease_to_zero_time, "MID", "OFF", "ignore")
            \in Timeline!Current(Timeline!Out(m.adj))
      BY <1>0, <2>3, OutStretches DEF IsOn
    <3> HIDE DEF out, c
    <3> QED BY <1>0, <1>3, <1>5, <2>2, <3>1, <3>2
  <2>4. CASE ~(rtc < m.adj + decrease_to_zero_time)
    <3>1. out = DarkAndFinished(m)
      BY <1>0, <2>1, <2>4, LateCases
    <3>2. Timeline!Current(Timeline!Out(m.adj)) = {}
      BY <1>0, <2>4, OutStretches DEF IsOn
    <3> HIDE DEF out, c
    <3> QED BY <1>1, <2>2, <3>1, <3>2
  <2> QED BY <2>3, <2>4
<1>7. CASE "SECONDARY" \notin m.info /\ "PRIMARY" \in m.info
  <2> DEFINE d      == m.adj
             middle == d + decrease_to_mid_time
             ending == middle + disarm_hold_mid_time
             finish == ending + decrease_to_zero_time
  <2>1. out = do_alarm_model_disarmed_early(rtc, m)
    BY <1>7 DEF ModelByFlags, no_disarm_pending
  <2>2. c = Timeline!Dimmed(d) /\ m.info # {"PRE_CANCEL"}
    BY <1>0, <1>7 DEF CourseOfDecided, CourseOf, Timeline!Dimmed
  <2>3. d \in Nat /\ d <= rtc /\ middle \in Nat /\ ending \in Nat /\ finish \in Nat
        /\ d <= middle /\ middle <= ending /\ ending <= finish
    BY <1>0, DurationTypes
  <2>4. \/ /\ rtc < middle
           /\ out = SetRamp(m, decrease_to_mid_time, rtc - d, "THIS_OR_OFF", "MID")
        \/ /\ middle <= rtc /\ rtc < ending
           /\ out = set_const_brightness(m, "MID")
        \/ /\ ending <= rtc /\ rtc < finish
           /\ out = SetRamp(m, decrease_to_zero_time, rtc - ending, "MID", "OFF")
        \/ /\ finish <= rtc
           /\ out = DarkAndFinished(m)
    BY <1>0, <2>1, EarlyCases
  <2>5. \A s : s \in Timeline!Current(Timeline!Dimmed(d)) <=>
          \/ IsOn(s, d, middle, Timeline!Stretch(d, decrease_to_mid_time,
                                                "THIS_OR_OFF", "MID", "ignore"))
          \/ IsOn(s, middle, ending,
                  Timeline!Stretch(middle, disarm_hold_mid_time, "MID", "MID", "put out"))
          \/ IsOn(s, ending, finish,
                  Timeline!Stretch(ending, decrease_to_zero_time, "MID", "OFF", "ignore"))
    BY <1>0, DimmedStretches
  <2> HIDE DEF out, c, d, middle, ending, finish
  <2>6. CASE rtc < middle /\ out = SetRamp(m, decrease_to_mid_time, rtc - d, "THIS_OR_OFF", "MID")
    <3>1. Timeline!Stretch(d, decrease_to_mid_time, "THIS_OR_OFF", "MID", "ignore")
            \in Timeline!Current(Timeline!Dimmed(d))
      BY <2>3, <2>5, <2>6 DEF IsOn
    <3> QED BY <1>3, <1>5, <2>2, <2>3, <2>6, <3>1
  <2>7. CASE middle <= rtc /\ rtc < ending /\ out = set_const_brightness(m, "MID")
    <3>1. Timeline!Stretch(middle, disarm_hold_mid_time, "MID", "MID", "put out")
            \in Timeline!Current(Timeline!Dimmed(d))
      BY <2>3, <2>5, <2>7 DEF IsOn
    <3> QED BY <1>4, <1>5, <2>2, <2>7, <3>1
  <2>8. CASE /\ ending <= rtc /\ rtc < finish
             /\ out = SetRamp(m, decrease_to_zero_time, rtc - ending, "MID", "OFF")
    <3>1. Timeline!Stretch(ending, decrease_to_zero_time, "MID", "OFF", "ignore")
            \in Timeline!Current(Timeline!Dimmed(d))
      BY <2>3, <2>5, <2>8 DEF IsOn
    <3> QED BY <1>3, <1>5, <2>2, <2>3, <2>8, <3>1
  <2>9. CASE finish <= rtc /\ out = DarkAndFinished(m)
    <3>1. ~(rtc < middle) /\ ~(rtc < ending) /\ ~(rtc < finish)
      BY <1>0, <2>3, <2>9
    <3>2. \A s : s \notin Timeline!Current(Timeline!Dimmed(d))
      BY <2>5, <3>1 DEF IsOn
    <3>3. Timeline!Current(Timeline!Dimmed(d)) = {}
      BY <3>2
    <3> QED BY <1>1, <2>2, <2>9, <3>3
  <2> QED BY <2>4, <2>6, <2>7, <2>8, <2>9
<1>8. CASE m.info = {"PRE_CANCEL"}
  <2>1. out = DarkAndFinished(m)
    BY <1>8 DEF ModelByFlags, no_disarm_pending, do_alarm_model_disarmed_pre_cancel
  <2>2. Timeline!Current(c) = {}
    BY <1>8, OverStretches DEF CourseOfDecided
  <2> QED BY <1>1, <2>1, <2>2
<1>9. CASE m.info = {}
  <2> DEFINE w      == wait
             top    == w + rise_time
             fading == TopEnd(w)
             middle == FadeEnd(w)
             ending == MiddleEnd(w)
             finish == NormalEnd(w)
  <2>1. out = do_alarm_model_direct(rtc, m, w)
    BY <1>9 DEF ModelByFlags, no_disarm_pending
  <2>2. c = Timeline!Normal /\ m.info # {"PRE_CANCEL"}
    BY <1>9 DEF CourseOfDecided, CourseOf, Timeline!Normal
  <2>3. /\ 0 \in Nat /\ w \in Nat /\ top \in Nat /\ fading \in Nat /\ middle \in Nat
        /\ ending \in Nat /\ finish \in Nat /\ rtc \in Nat /\ 0 <= rtc
        /\ w <= top /\ top <= fading /\ fading <= middle /\ middle <= ending
        /\ ending <= finish
    BY <1>0, DurationTypes DEF TopEnd, FadeEnd, MiddleEnd, NormalEnd
  <2>4. \/ /\ rtc < w
           /\ out = set_const_brightness(m, "OFF")
        \/ /\ w <= rtc /\ rtc < top
           /\ out = SetRamp(m, rise_time, rtc - w, "OFF", "MAX")
        \/ /\ top <= rtc /\ rtc < fading
           /\ out = set_const_brightness(m, "MAX")
        \/ /\ fading <= rtc /\ rtc < middle
           /\ out = SetRamp(m, decrease_to_mid_time, rtc - fading, "MAX", "MID")
        \/ /\ middle <= rtc /\ rtc < ending
           /\ out = set_const_brightness(m, "MID")
        \/ /\ ending <= rtc /\ rtc < finish
           /\ out = SetRamp(m, decrease_to_zero_time, rtc - ending, "MID", "OFF")
        \/ /\ finish <= rtc
           /\ out = DarkAndFinished(m)
    BY <2>1, DirectCases
  <2>5. \A s : s \in Timeline!Current(Timeline!Normal) <=>
          \/ IsOn(s, 0, w, Timeline!Stretch(0, w, "OFF", "OFF", "cancel"))
          \/ IsOn(s, w, top, Timeline!Stretch(w, rise_time, "OFF", "MAX", "dim now"))
          \/ IsOn(s, top, fading,
                  Timeline!Stretch(top, hold_max_time, "MAX", "MAX", "dim now"))
          \/ IsOn(s, fading, middle,
                  Timeline!Stretch(fading, decrease_to_mid_time,
                                   "MAX", "MID", "dim from start"))
          \/ IsOn(s, middle, ending,
                  Timeline!Stretch(middle, hold_mid_time, "MID", "MID", "put out"))
          \/ IsOn(s, ending, finish,
                  Timeline!Stretch(ending, decrease_to_zero_time, "MID", "OFF", "ignore"))
    BY <1>0, NormalStretches
  <2> HIDE DEF out, c, w, top, fading, middle, ending, finish
  <2>6. CASE rtc < w /\ out = set_const_brightness(m, "OFF")
    <3>1. Timeline!Stretch(0, w, "OFF", "OFF", "cancel")
            \in Timeline!Current(Timeline!Normal)
      BY <2>3, <2>5, <2>6 DEF IsOn
    <3> QED BY <1>4, <1>5, <2>2, <2>6, <3>1
  <2>7. CASE w <= rtc /\ rtc < top /\ out = SetRamp(m, rise_time, rtc - w, "OFF", "MAX")
    <3>1. Timeline!Stretch(w, rise_time, "OFF", "MAX", "dim now")
            \in Timeline!Current(Timeline!Normal)
      BY <2>3, <2>5, <2>7 DEF IsOn
    <3> QED BY <1>3, <1>5, <2>2, <2>3, <2>7, <3>1
  <2>8. CASE top <= rtc /\ rtc < fading /\ out = set_const_brightness(m, "MAX")
    <3>1. Timeline!Stretch(top, hold_max_time, "MAX", "MAX", "dim now")
            \in Timeline!Current(Timeline!Normal)
      BY <2>3, <2>5, <2>8 DEF IsOn
    <3> QED BY <1>4, <1>5, <2>2, <2>8, <3>1
  <2>9. CASE /\ fading <= rtc /\ rtc < middle
             /\ out = SetRamp(m, decrease_to_mid_time, rtc - fading, "MAX", "MID")
    <3>1. Timeline!Stretch(fading, decrease_to_mid_time, "MAX", "MID", "dim from start")
            \in Timeline!Current(Timeline!Normal)
      BY <2>3, <2>5, <2>9 DEF IsOn
    <3> QED BY <1>3, <1>5, <2>2, <2>3, <2>9, <3>1
  <2>10. CASE middle <= rtc /\ rtc < ending /\ out = set_const_brightness(m, "MID")
    <3>1. Timeline!Stretch(middle, hold_mid_time, "MID", "MID", "put out")
            \in Timeline!Current(Timeline!Normal)
      BY <2>3, <2>5, <2>10 DEF IsOn
    <3> QED BY <1>4, <1>5, <2>2, <2>10, <3>1
  <2>11. CASE /\ ending <= rtc /\ rtc < finish
              /\ out = SetRamp(m, decrease_to_zero_time, rtc - ending, "MID", "OFF")
    <3>1. Timeline!Stretch(ending, decrease_to_zero_time, "MID", "OFF", "ignore")
            \in Timeline!Current(Timeline!Normal)
      BY <2>3, <2>5, <2>11 DEF IsOn
    <3> QED BY <1>3, <1>5, <2>2, <2>3, <2>11, <3>1
  <2>12. CASE finish <= rtc /\ out = DarkAndFinished(m)
    <3>1. /\ ~(rtc < w) /\ ~(rtc < top) /\ ~(rtc < fading) /\ ~(rtc < middle)
          /\ ~(rtc < ending) /\ ~(rtc < finish)
      BY <2>3, <2>12
    <3>2. \A s : s \notin Timeline!Current(Timeline!Normal)
      BY <2>5, <3>1 DEF IsOn
    <3>3. Timeline!Current(Timeline!Normal) = {}
      BY <3>2
    <3> QED BY <1>1, <2>2, <2>12, <3>3
  <2> QED BY <2>4, <2>6, <2>7, <2>8, <2>9, <2>10, <2>11, <2>12
<1>10. m.info = {} \/ {"PRIMARY", "SECONDARY", "PRE_CANCEL"} \cap m.info # {}
  BY <1>0 DEF Flags
<1> QED BY <1>0, <1>6, <1>7, <1>8, <1>9, <1>10

\* What each kind of stretch makes of a press.
LEMMA AnswerOf ==
  ASSUME NEW s
  PROVE  /\ s.press = "cancel"         => Timeline!Answer(s) = Timeline!Over
         /\ s.press = "dim now"        => Timeline!Answer(s) = Timeline!Dimmed(rtc)
         /\ s.press = "dim from start" => Timeline!Answer(s) = Timeline!Dimmed(s.start)
         /\ s.press = "put out"        => Timeline!Answer(s) = Timeline!Out(rtc)
         /\ s.press = "ignore"         => Timeline!Answer(s) = CourseOf(io.info, io.adj)
  BY DEF Timeline!Answer

\* A press is answered the way the timetable says.
LEMMA DecideRefines ==
  ASSUME Clean(io), AdjOK(io.info, io.adj, rtc, wait),
         rtc \in Word, wait \in Word, disarm_alarm \in BOOLEAN
  PROVE  CourseOfDecided(Decide(rtc, io, disarm_alarm, wait)) \in Timeline!Steered
PROOF
<1> DEFINE m == Decide(rtc, io, disarm_alarm, wait)
           course == CourseOf(io.info, io.adj)
<1>0. /\ io \in IO /\ {"NEW", "PRE_CANCEL", "FINISHED"} \cap io.info = {}
      /\ io.info \in SUBSET Flags
      /\ rtc \in Nat /\ wait \in Nat /\ io.adj \in Nat /\ io.adj <= rtc /\ rtc < WordMod
  BY DurationTypes DEF Clean, IO, Word, AdjOK
<1>1. m = IF ~disarm_alarm \/ "SECONDARY" \in io.info THEN io
          ELSE IF "PRIMARY" \in io.info THEN SecondDisarm(rtc, io)
          ELSE FirstDisarm(rtc, io, wait)
  BY DecideCases
<1>2. CourseOfDecided(io) = course
  BY <1>0 DEF CourseOfDecided
<1> HIDE DEF m, course
\* No press, a press that is answered, and one that is ignored.
<1>3. CASE ~disarm_alarm
  <2>1. m = io
    BY <1>1, <1>3
  <2>2. Timeline!Steered = {course}
    BY <1>3, Zenon DEF Timeline!Steered, course
  <2> QED BY <1>2, <2>1, <2>2 DEF m
<1>a. SUFFICES ASSUME disarm_alarm
               PROVE  CourseOfDecided(m) \in Timeline!Steered
  BY <1>3, Zenon DEF m
<1>b. Timeline!Steered = { Timeline!Answer(s) : s \in Timeline!Current(course) }
                           \cup { k \in {course} : Timeline!Current(course) = {} }
  BY <1>a, Zenon DEF Timeline!Steered, course
<1>c. m = IF "SECONDARY" \in io.info THEN io
          ELSE IF "PRIMARY" \in io.info THEN SecondDisarm(rtc, io)
          ELSE FirstDisarm(rtc, io, wait)
  BY <1>1, <1>a
<1>4. ASSUME NEW s \in Timeline!Current(course),
             Timeline!Answer(s) = CourseOfDecided(m)
      PROVE  CourseOfDecided(m) \in Timeline!Steered
  BY <1>4, <1>b
<1>5. ASSUME m = io,
             \A s : s \in Timeline!Current(course) => s.press = "ignore"
      PROVE  CourseOfDecided(m) \in Timeline!Steered
  <2>1. CASE Timeline!Current(course) = {}
    BY <1>2, <1>5, <1>b, <2>1
  <2>2. CASE Timeline!Current(course) # {}
    <3>1. PICK s \in Timeline!Current(course) : s.press = "ignore"
      BY <1>5, <2>2
    <3>2. Timeline!Answer(s) = course
      BY <3>1, AnswerOf DEF course
    <3> QED BY <1>2, <1>4, <1>5, <3>1, <3>2
  <2> QED BY <2>1, <2>2
<1>6. CASE "SECONDARY" \in io.info
  <2>1. course = Timeline!Out(io.adj)
    BY <1>0, <1>6 DEF course, CourseOf, Timeline!Out
  <2>2. ASSUME NEW s \in Timeline!Current(course)
        PROVE  s.press = "ignore"
    <3>1. s = Timeline!Stretch(io.adj, decrease_to_zero_time, "MID", "OFF", "ignore")
      BY <1>0, <2>1, <2>2, OutStretches DEF IsOn
    <3> QED BY <3>1 DEF Timeline!Stretch
  <2>3. m = io
    BY <1>c, <1>6
  <2> QED BY <1>5, <1>6, <2>2, <2>3
<1>7. CASE "SECONDARY" \notin io.info /\ "PRIMARY" \in io.info
  <2> DEFINE d      == io.adj
             middle == d + decrease_to_mid_time
             ending == middle + disarm_hold_mid_time
  <2>1. course = Timeline!Dimmed(d)
    BY <1>0, <1>7 DEF course, CourseOf, Timeline!Dimmed
  <2>2. m = IF middle <= rtc /\ rtc < ending
            THEN disarm_adjust_secondary(rtc, io) ELSE io
    BY <1>0, <1>c, <1>7, SecondDisarmCases
  <2>3. \A s : s \in Timeline!Current(course) <=>
          \/ IsOn(s, d, middle, Timeline!Stretch(d, decrease_to_mid_time,
                                                "THIS_OR_OFF", "MID", "ignore"))
          \/ IsOn(s, middle, ending,
                  Timeline!Stretch(middle, disarm_hold_mid_time, "MID", "MID", "put out"))
          \/ IsOn(s, ending, ending + decrease_to_zero_time,
                  Timeline!Stretch(ending, decrease_to_zero_time, "MID", "OFF", "ignore"))
    BY <1>0, <2>1, DimmedStretches
  <2> HIDE DEF d, middle, ending
  <2>4. CASE middle <= rtc /\ rtc < ending
    <3> DEFINE s == Timeline!Stretch(middle, disarm_hold_mid_time, "MID", "MID", "put out")
    <3>1. s \in Timeline!Current(course)
      BY <2>3, <2>4 DEF IsOn
    <3>2. m = [io EXCEPT !.info = @ \cup {"SECONDARY"}, !.adj = rtc]
      BY <1>0, <1>7, <2>2, <2>4 DEF disarm_adjust_secondary, dynamic_assert, IO
    <3>3. m.info = io.info \cup {"SECONDARY"} /\ m.adj = rtc
      BY <1>0, <3>2 DEF IO
    <3>4. CourseOfDecided(m) = Timeline!Out(rtc)
      BY <1>0, <3>3 DEF CourseOfDecided, CourseOf, Timeline!Out
    <3>5. s.press = "put out"
      BY DEF Timeline!Stretch
    <3> HIDE DEF s
    <3>6. Timeline!Answer(s) = CourseOfDecided(m)
      BY <3>4, <3>5, AnswerOf
    <3> QED BY <1>4, <1>7, <3>1, <3>6
  <2>5. CASE ~(middle <= rtc /\ rtc < ending)
    <3>1. ASSUME NEW s \in Timeline!Current(course)
          PROVE  s.press = "ignore"
      <4>1. \/ s = Timeline!Stretch(d, decrease_to_mid_time, "THIS_OR_OFF", "MID", "ignore")
            \/ s = Timeline!Stretch(ending, decrease_to_zero_time, "MID", "OFF", "ignore")
        BY <2>3, <2>5, <3>1 DEF IsOn
      <4> QED BY <4>1 DEF Timeline!Stretch
    <3>2. m = io
      BY <2>2, <2>5
    <3> QED BY <1>5, <1>7, <3>1, <3>2
  <2> QED BY <2>4, <2>5
<1>8. CASE {"SECONDARY", "PRIMARY"} \cap io.info = {}
  <2> DEFINE top    == wait + rise_time
             fading == TopEnd(wait)
             middle == FadeEnd(wait)
             ending == MiddleEnd(wait)
             Cur    == Timeline!Current(course)
  <2>1. /\ io.info = {} /\ io.adj = 0
        /\ {"PRIMARY", "SECONDARY", "PRE_CANCEL"} \cap io.info = {}
    BY <1>0, <1>8 DEF Flags, AdjOK
  <2>2. course = Timeline!Normal
    BY <2>1 DEF course, CourseOf, Timeline!Normal
  <2>3. m = FirstDisarm(rtc, io, wait)
    BY <1>c, <1>8
  <2>4. \/ rtc < wait /\ m = disarm_adjust_pre_cancel(io)
        \/ wait <= rtc /\ rtc < fading /\ m = disarm_adjust_primary(rtc, io)
        \/ fading <= rtc /\ rtc < middle /\ m = disarm_adjust_primary(fading, io)
        \/ middle <= rtc /\ rtc < ending /\ m = disarm_adjust_secondary(rtc, io)
        \/ ending <= rtc /\ m = io
    BY <2>3, FirstDisarmCases
  <2>5. \A s : s \in Cur <=>
          \/ IsOn(s, 0, wait, Timeline!Stretch(0, wait, "OFF", "OFF", "cancel"))
          \/ IsOn(s, wait, top, Timeline!Stretch(wait, rise_time, "OFF", "MAX", "dim now"))
          \/ IsOn(s, top, fading,
                  Timeline!Stretch(top, hold_max_time, "MAX", "MAX", "dim now"))
          \/ IsOn(s, fading, middle,
                  Timeline!Stretch(fading, decrease_to_mid_time,
                                   "MAX", "MID", "dim from start"))
          \/ IsOn(s, middle, ending,
                  Timeline!Stretch(middle, hold_mid_time, "MID", "MID", "put out"))
          \/ IsOn(s, ending, NormalEnd(wait),
                  Timeline!Stretch(ending, decrease_to_zero_time, "MID", "OFF", "ignore"))
    BY <1>0, <2>2, NormalStretches
  <2>6. /\ top \in Nat /\ fading \in Nat /\ middle \in Nat /\ ending \in Nat
        /\ wait <= top /\ top <= fading /\ fading <= middle /\ middle <= ending
    BY <1>0, DurationTypes DEF TopEnd, FadeEnd, MiddleEnd
  <2> HIDE DEF top, fading, middle, ending
  <2>7. CASE rtc < wait /\ m = disarm_adjust_pre_cancel(io)
    <3> DEFINE s == Timeline!Stretch(0, wait, "OFF", "OFF", "cancel")
    <3>0. 0 <= rtc
      BY <1>0
    <3>1. s \in Cur
      BY <2>5, <2>7, <3>0, Zenon DEF IsOn
    <3>2. m = [io EXCEPT !.info = @ \cup {"PRE_CANCEL"}]
      BY <1>0, <2>1, <2>7, Adjustments
    <3>3. m.info = {"PRE_CANCEL"}
      BY <1>0, <2>1, <3>2 DEF IO
    <3>4. s.press = "cancel"
      BY DEF Timeline!Stretch
    <3> HIDE DEF s
    <3>5. Timeline!Answer(s) = CourseOfDecided(m)
      BY <3>3, <3>4, AnswerOf DEF CourseOfDecided
    <3> QED BY <1>4, <1>8, <3>1, <3>5
  <2>8. ASSUME NEW a, m = disarm_adjust_primary(a, io)
        PROVE  CourseOfDecided(m) = Timeline!Dimmed(a)
    <3>1. m = [io EXCEPT !.info = @ \cup {"PRIMARY"}, !.adj = a]
      BY <1>0, <2>1, <2>8, Adjustments
    <3>2. m.info = {"PRIMARY"} /\ m.adj = a
      BY <1>0, <2>1, <3>1 DEF IO
    <3> QED BY <3>2 DEF CourseOfDecided, CourseOf, Timeline!Dimmed
  <2>9. CASE wait <= rtc /\ rtc < fading /\ m = disarm_adjust_primary(rtc, io)
    <3>1. PICK s \in Cur : s.press = "dim now"
      <4>1. CASE rtc < top
        <5> DEFINE s == Timeline!Stretch(wait, rise_time, "OFF", "MAX", "dim now")
        <5>1. s \in Cur
          BY <2>5, <2>9, <4>1 DEF IsOn
        <5> QED BY <5>1 DEF Timeline!Stretch
      <4>2. CASE ~(rtc < top)
        <5> DEFINE s == Timeline!Stretch(top, hold_max_time, "MAX", "MAX", "dim now")
        <5>0. top <= rtc
          BY <1>0, <2>6, <4>2
        <5>1. s \in Cur
          BY <2>5, <2>9, <5>0 DEF IsOn
        <5> QED BY <5>1 DEF Timeline!Stretch
      <4> QED BY <4>1, <4>2
    <3>2. Timeline!Answer(s) = CourseOfDecided(m)
      BY <2>8, <2>9, <3>1, AnswerOf
    <3> QED BY <1>4, <1>8, <3>1, <3>2
  <2>10. CASE fading <= rtc /\ rtc < middle /\ m = disarm_adjust_primary(fading, io)
    <3> DEFINE s == Timeline!Stretch(fading, decrease_to_mid_time,
                                     "MAX", "MID", "dim from start")
    <3>1. s \in Cur
      BY <2>5, <2>10 DEF IsOn
    <3>2. s.press = "dim from start" /\ s.start = fading
      BY DEF Timeline!Stretch
    <3> HIDE DEF s
    <3>3. Timeline!Answer(s) = CourseOfDecided(m)
      BY <2>8, <2>10, <3>2, AnswerOf
    <3> QED BY <1>4, <1>8, <3>1, <3>3
  <2>11. CASE middle <= rtc /\ rtc < ending /\ m = disarm_adjust_secondary(rtc, io)
    <3> DEFINE s == Timeline!Stretch(middle, hold_mid_time, "MID", "MID", "put out")
    <3>1. s \in Cur
      BY <2>5, <2>11 DEF IsOn
    <3>2. m = [io EXCEPT !.info = @ \cup {"SECONDARY"}, !.adj = rtc]
      BY <1>0, <2>1, <2>11, Adjustments
    <3>3. m.info = {"SECONDARY"} /\ m.adj = rtc
      BY <1>0, <2>1, <3>2 DEF IO
    <3>4. CourseOfDecided(m) = Timeline!Out(rtc)
      BY <3>3 DEF CourseOfDecided, CourseOf, Timeline!Out
    <3>5. s.press = "put out"
      BY DEF Timeline!Stretch
    <3> HIDE DEF s
    <3>6. Timeline!Answer(s) = CourseOfDecided(m)
      BY <3>4, <3>5, AnswerOf
    <3> QED BY <1>4, <1>8, <3>1, <3>6
  <2>12. CASE ending <= rtc /\ m = io
    <3>1. ~(rtc < wait) /\ ~(rtc < top) /\ ~(rtc < fading) /\ ~(rtc < middle) /\ ~(rtc < ending)
      BY <1>0, <2>6, <2>12
    <3>2. ASSUME NEW s \in Cur
          PROVE  s.press = "ignore"
      <4>1. s = Timeline!Stretch(ending, decrease_to_zero_time, "MID", "OFF", "ignore")
        BY <2>5, <3>1, <3>2 DEF IsOn
      <4> QED BY <4>1 DEF Timeline!Stretch
    <3> QED BY <1>5, <1>8, <2>12, <3>2
  <2> QED BY <2>4, <2>7, <2>9, <2>10, <2>11, <2>12
<1> QED BY <1>6, <1>7, <1>8

\* A call of the model is a look at the button and the clock.
LEMMA ModelRefines ==
  ASSUME IInv, Model
  PROVE  Timeline!Refresh
PROOF
<1> DEFINE m == Decide(rtc, io, disarm_alarm, wait)
           c == CourseOfDecided(m)
<1>1. /\ Clean(io) /\ rtc \in Word /\ wait \in Word
      /\ AdjOK(io.info, io.adj, rtc, wait)
  BY ModelStep
<1>2. disarm_alarm \in BOOLEAN
  BY DEF IInv, TypeOK
<1>3. io' = ModelByFlags(rtc, m, wait)
  BY <1>1, <1>2, CallIsDecideAndShow DEF Model
<1>4. Decided(m, rtc, wait)
  BY <1>1, <1>2, DecideIsDecided
<1>5. c \in Timeline!Steered
  BY <1>1, <1>2, DecideRefines
<1>6. ShownAsPromised(c, io')
  BY <1>1, <1>3, <1>4, ShowRefines
<1>7. CourseOf(io.info, io.adj) # Timeline!Over
  BY <1>1 DEF Clean, CourseOf, Timeline!Over
<1>8. /\ disarm_alarm' = FALSE
      /\ <<rtc, wait, CourseOf(bkp.info, bkp.adj)>>'
           = <<rtc, wait, CourseOf(bkp.info, bkp.adj)>>
  BY DEF Model
<1>9. \/ \E s \in Timeline!Current(c) :
            CourseOf(io.info, io.adj)' = c /\ io.light' = Timeline!Picture(s)
      \/ /\ Timeline!Current(c) = {}
         /\ CourseOf(io.info, io.adj)' = Timeline!Over
         /\ io.light' = Timeline!Dark
  BY <1>6 DEF ShownAsPromised
<1> HIDE DEF c, m
<1> QED BY <1>5, <1>7, <1>8, <1>9 DEF Timeline!Refresh

\* Every behaviour of the firmware's alarm, through presses at any time, power
\* cuts between a call and its write-back, and new alarms on top of a running
\* one, is one that AlarmTimeline allows.
THEOREM Implements == Spec => TimelineSpec
PROOF
<1>1. Init => Timeline!Init
  BY DurationTypes DEF Init, Timeline!Init, CourseOf, StartIO, NoLight,
       A_ALARM_POR_VALUE, Timeline!Over, Timeline!Unset
<1>2. IInv /\ [Next]_vars => [Timeline!Next]_(Timeline!vars)
  <2> SUFFICES ASSUME IInv, [Next]_vars
               PROVE  Timeline!Next \/ UNCHANGED Timeline!vars
    OBVIOUS
  <2>1. CASE Tick
    BY <2>1 DEF Tick, Timeline!Tick, Timeline!Next
  <2>2. CASE Disarm
    BY <2>2 DEF Disarm, Timeline!Press, Timeline!Next
  <2>3. CASE Model
    BY <2>3, ModelRefines DEF Timeline!Next
  <2>4. CASE Store
    <3>1. bkp'.info = io.info /\ bkp'.adj = io.adj
      BY <2>4 DEF Store
    <3>2. Timeline!Save
      BY <2>4, <3>1 DEF Store, Timeline!Save
    <3> QED BY <3>2 DEF Timeline!Next
  <2>5. CASE PowerFault
    <3>1. io'.info = bkp.info /\ io'.adj = bkp.adj /\ io'.light = Timeline!Unset
      BY <2>5 DEF PowerFault, StartIO, NoLight, Timeline!Unset
    <3>2. Timeline!Blackout
      BY <2>5, <3>1 DEF PowerFault, Timeline!Blackout
    <3> QED BY <3>2 DEF Timeline!Next
  <2>6. ASSUME NEW w \in WaitTimes, NewAlarm(w)
        PROVE  Timeline!Schedule
    <3>1. w \in Nat
      BY DurationTypes, TimesAssumption DEF Word
    <3>2. /\ io'.info = {} /\ io'.adj = 0 /\ io'.light = Timeline!Unset
          /\ bkp'.info = {} /\ bkp'.adj = 0
      BY <2>6 DEF NewAlarm, StartIO, NoLight, Timeline!Unset, A_ALARM_NEW
    <3>3. CourseOf(io.info, io.adj)' = Timeline!Normal
          /\ CourseOf(bkp.info, bkp.adj)' = Timeline!Normal
      BY <3>2 DEF CourseOf, Timeline!Normal
    <3> QED BY <2>6, <3>1, <3>2, <3>3 DEF NewAlarm, Timeline!Schedule
  <2>7. CASE UNCHANGED vars
    BY <2>7 DEF vars, Timeline!vars
  <2> QED BY <2>1, <2>2, <2>3, <2>4, <2>5, <2>6, <2>7 DEF Next, Timeline!Next
<1> QED BY <1>1, <1>2, Invariance, PTL DEF Spec, TimelineSpec, Timeline!Spec
==============================================================================
