---------------------------- MODULE AlarmTimeline ----------------------------
(***************************************************************************)
(* What an alarm promises, said with plain intervals of time instead of    *)
(* flags, adjustments and wrapping subtractions.                           *)
(*                                                                         *)
(* An alarm follows a course: the normal one, or the one it was put on     *)
(* when somebody disarmed it.  A course is a timetable of stretches, each  *)
(* with the picture shown during it and the answer to a press of the       *)
(* button during it; when no stretch is left the alarm is over.  A power   *)
(* cut takes the alarm back to the last course written to the battery      *)
(* backed memory and forgets a press nobody has looked at yet; the clock   *)
(* goes on.                                                                *)
(***************************************************************************)
EXTENDS Integers

CONSTANTS
  rise_time, hold_max_time, decrease_to_mid_time, hold_mid_time,
  decrease_to_zero_time, disarm_hold_mid_time

VARIABLES
  now,      \* seconds since the alarm was scheduled
  trigger,  \* when the light starts to rise
  course,   \* the course the alarm is on
  stable,   \* the last course saved
  pressed,  \* a press nobody has looked at yet
  shown     \* the last picture handed to the lamp

vars == <<now, trigger, course, stable, pressed, shown>>

------------------------------------------------------------------------------
(* Courses and their timetables *)

Normal    == [kind |-> "normal", since |-> 0]
Dimmed(t) == [kind |-> "dimmed", since |-> t]
Out(t)    == [kind |-> "out",    since |-> t]
Over      == [kind |-> "over",   since |-> 0]

Stretch(start, length, from, to, press) ==
  [start |-> start, length |-> length, from |-> from, to |-> to, press |-> press]

NormalTable ==
  LET top    == trigger + rise_time
      fading == top + hold_max_time
      middle == fading + decrease_to_mid_time
      ending == middle + hold_mid_time
  IN  { Stretch(0,       trigger,               "OFF", "OFF", "cancel"),
        Stretch(trigger, rise_time,             "OFF", "MAX", "dim now"),
        Stretch(top,     hold_max_time,         "MAX", "MAX", "dim now"),
        Stretch(fading,  decrease_to_mid_time,  "MAX", "MID", "dim from start"),
        Stretch(middle,  hold_mid_time,         "MID", "MID", "put out"),
        Stretch(ending,  decrease_to_zero_time, "MID", "OFF", "ignore") }

DimmedTable(t) ==
  LET middle == t + decrease_to_mid_time
      ending == middle + disarm_hold_mid_time
  IN  { Stretch(t,      decrease_to_mid_time,  "THIS_OR_OFF", "MID", "ignore"),
        Stretch(middle, disarm_hold_mid_time,  "MID",         "MID", "put out"),
        Stretch(ending, decrease_to_zero_time, "MID",         "OFF", "ignore") }

OutTable(t) == { Stretch(t, decrease_to_zero_time, "MID", "OFF", "ignore") }

Table(c) == CASE c.kind = "normal" -> NormalTable
              [] c.kind = "dimmed" -> DimmedTable(c.since)
              [] c.kind = "out"    -> OutTable(c.since)
              [] OTHER             -> {}

\* The stretch of course c that is on now: a set of at most one.
Current(c) == { s \in Table(c) : s.start <= now /\ now < s.start + s.length }

------------------------------------------------------------------------------
(* Presses and pictures *)

Answer(s) == CASE s.press = "cancel"         -> Over
               [] s.press = "dim now"        -> Dimmed(now)
               [] s.press = "dim from start" -> Dimmed(s.start)
               [] s.press = "put out"        -> Out(now)
               [] OTHER                      -> course

\* The course after a look at the button.
Steered == IF pressed
           THEN { Answer(s) : s \in Current(course) }
                  \cup { c \in {course} : Current(course) = {} }
           ELSE {course}

Unset == [period |-> 0, curr |-> 0, from |-> "unset", to |-> "unset"]
Dark  == [period |-> 0, curr |-> 0, from |-> "OFF", to |-> "OFF"]

Picture(s) ==
  IF s.from = s.to
  THEN [period |-> 0, curr |-> 0, from |-> s.from, to |-> s.to]
  ELSE [period |-> s.length, curr |-> now - s.start, from |-> s.from, to |-> s.to]

------------------------------------------------------------------------------
Init ==
  /\ now = 0
  /\ trigger \in Nat
  /\ course = Over /\ stable = Over
  /\ pressed = FALSE
  /\ shown = Unset

Tick ==
  /\ now' = now + 1
  /\ UNCHANGED <<trigger, course, stable, pressed, shown>>

Press ==
  /\ pressed' = TRUE
  /\ UNCHANGED <<now, trigger, course, stable, shown>>

\* A look at the button and the clock: the alarm is steered and the lamp told
\* what to show, or the alarm is over and the lamp dark.
Refresh ==
  /\ course # Over
  /\ \E c \in Steered :
       \/ \E s \in Current(c) : course' = c /\ shown' = Picture(s)
       \/ Current(c) = {} /\ course' = Over /\ shown' = Dark
  /\ pressed' = FALSE
  /\ UNCHANGED <<now, trigger, stable>>

Save ==
  /\ stable' = course
  /\ UNCHANGED <<now, trigger, course, pressed, shown>>

Blackout ==
  /\ course' = stable
  /\ pressed' = FALSE
  /\ shown' = Unset
  /\ UNCHANGED <<now, trigger, stable>>

Schedule ==
  /\ now' = 0
  /\ trigger' \in Nat
  /\ course' = Normal /\ stable' = Normal
  /\ pressed' = FALSE
  /\ shown' = Unset

Next == Tick \/ Press \/ Refresh \/ Save \/ Blackout \/ Schedule

Spec == Init /\ [][Next]_vars
==============================================================================
