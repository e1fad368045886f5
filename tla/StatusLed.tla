------------------------------ MODULE StatusLed ------------------------------
(***************************************************************************)
(* The signal LED of src/status-led-ctl.c.  A new alarm makes it blink; a  *)
(* thread of its own does that, suspends itself when the count is down at  *)
(* zero, and is resumed by the next led_gpio_blink.  When it does not      *)
(* blink, the alarm worker lights it while the light of the alarm changes. *)
(*                                                                         *)
(* The blink thread and the worker have the same lowest priority: neither  *)
(* interrupts the other.  main interrupts both anywhere, and what it does  *)
(* in led_gpio_blink nobody interleaves with.  How long k_sleep takes does *)
(* not matter here; suspended or not, it ends.                             *)
(***************************************************************************)
EXTENDS Integers

CONSTANT BlinkCount  \* the count main asks for: 250, a u16_t

ASSUME BlinkAssumption == BlinkCount \in Nat \ {0}

VARIABLES
  signal_led,       \* whether the LED is lit
  led_blink_count,
  thread,           \* what signal_led_worker does next
  loaded,           \* the count it has loaded to decrement it
  marked,           \* the alarm worker: "none", "new", or what it has last
                    \* marked, a "change" of the light or a "steady" one
  shown,            \* history: how often the LED has been lit since the last
                    \* led_gpio_blink
  lost              \* history: that call came between the test of the count
                    \* and k_thread_suspend

ledVars == <<signal_led, led_blink_count, thread, loaded, marked, shown, lost>>

\* It sleeps, lit or not ("on", "off"), is suspended, or is interrupted or
\* about to run at one of the others.
ThreadSteps == {"suspended", "test", "on", "off", "load", "store", "suspend"}
Asleep      == {"suspended", "on", "off"}
Counts      == 0 .. BlinkCount

\* The history stops counting when there have been too many.
OneMore(n) == IF n > BlinkCount THEN n ELSE n + 1

LedTypeOK ==
  /\ {signal_led, lost} \subseteq BOOLEAN
  /\ {led_blink_count, loaded} \subseteq Counts
  /\ shown \in Counts \cup {BlinkCount + 1}
  /\ thread \in ThreadSteps
  /\ marked \in {"none", "new", "change", "steady"}

\* signal_led_init: the thread is suspended before it is started.
LedInit ==
  /\ signal_led = FALSE /\ led_blink_count = 0
  /\ thread = "suspended" /\ loaded = 0
  /\ marked = "none"
  /\ shown = 0 /\ lost = FALSE

------------------------------------------------------------------------------
(* signal_led_worker *)

Test ==
  /\ thread = "test"
  /\ \/ /\ led_blink_count # 0
        /\ signal_led' = TRUE /\ shown' = OneMore(shown) /\ thread' = "on"
     \/ /\ led_blink_count = 0
        /\ thread' = "suspend" /\ UNCHANGED <<signal_led, shown>>
  /\ UNCHANGED <<led_blink_count, loaded, marked, lost>>

\* Counts the blink before it is over.
BadTurnOff ==
  /\ thread = "on"
  /\ signal_led' = FALSE
  /\ led_blink_count' = led_blink_count - 1
  /\ thread' = "off"
  /\ UNCHANGED <<loaded, marked, shown, lost>>

\* The first k_sleep ends.
TurnOff ==
  /\ thread = "on"
  /\ signal_led' = FALSE
  /\ thread' = "off"
  /\ UNCHANGED <<led_blink_count, loaded, marked, shown, lost>>

\* The second one ends.
WakeUp ==
  /\ thread = "off"
  /\ thread' = "load"
  /\ UNCHANGED <<signal_led, led_blink_count, loaded, marked, shown, lost>>

\* led_blink_count--
Load ==
  /\ thread = "load"
  /\ loaded' = led_blink_count
  /\ thread' = "store"
  /\ UNCHANGED <<signal_led, led_blink_count, marked, shown, lost>>

\* Forgets the decrement.
BadStore ==
  /\ thread = "store"
  /\ led_blink_count' = loaded /\ loaded' = 0
  /\ thread' = "test"
  /\ UNCHANGED <<signal_led, marked, shown, lost>>

\* Blinks once: an "if" for the "while".
BadStoreOnce ==
  /\ thread = "store"
  /\ led_blink_count' = loaded - 1 /\ loaded' = 0
  /\ thread' = "suspend"
  /\ UNCHANGED <<signal_led, marked, shown, lost>>

Store ==
  /\ thread = "store"
  /\ led_blink_count' = loaded - 1 /\ loaded' = 0
  /\ thread' = "test"
  /\ UNCHANGED <<signal_led, marked, shown, lost>>

\* k_thread_suspend of itself.
Suspend ==
  /\ thread = "suspend"
  /\ thread' = "suspended"
  /\ UNCHANGED <<signal_led, led_blink_count, loaded, marked, shown, lost>>

Thread == Test \/ TurnOff \/ WakeUp \/ Load \/ Store \/ Suspend

------------------------------------------------------------------------------
(* Worker and main *)

\* Lights the LED, and leaves it on.
BadMark(change) ==
  /\ marked # "none" /\ thread \in Asleep
  /\ signal_led' = IF led_blink_count = 0 THEN signal_led \/ change ELSE signal_led
  /\ marked' = IF change THEN "change" ELSE "steady"
  /\ UNCHANGED <<led_blink_count, thread, loaded, shown, lost>>

\* led_mark_xlation, led_gpio_enable_if_not_blinking: the k_thread_suspend of
\* led_gpio_enable finds the thread suspended (EnableFindsItSuspended).
Mark(change) ==
  /\ marked # "none" /\ thread \in Asleep
  /\ signal_led' = IF led_blink_count = 0 THEN change ELSE signal_led
  /\ marked' = IF change THEN "change" ELSE "steady"
  /\ UNCHANGED <<led_blink_count, thread, loaded, shown, lost>>

\* An alarm is over: the last light was a steady one, off.
Finish ==
  /\ marked = "steady" /\ thread \in Asleep
  /\ marked' = "none"
  /\ UNCHANGED <<signal_led, led_blink_count, thread, loaded, shown, lost>>

\* alarm_init_new_new: the worker is aborted, led_gpio_blink suspends the
\* thread, sets the count and resumes it, and a new worker is created, behind
\* the thread.
NewAlarm ==
  /\ marked' = "new"
  /\ led_blink_count' = BlinkCount
  /\ shown' = 0 /\ lost' = (thread = "suspend")
  /\ thread' = IF thread = "suspended" THEN "test" ELSE thread
  /\ UNCHANGED <<signal_led, loaded>>

LedNext == Thread \/ (\E change \in BOOLEAN : Mark(change)) \/ Finish \/ NewAlarm

\* Sleeps end, and the kernel runs the thread when main has gone to sleep.
LedSpec == LedInit /\ [][LedNext]_ledVars /\ WF_ledVars(Thread)

------------------------------------------------------------------------------
(* Properties *)

\* When the worker suspends the thread it never freezes it in a blink.
EnableFindsItSuspended ==
  led_blink_count = 0 /\ thread \in Asleep => thread = "suspended"

\* The thread stays suspended with blinks to be made only if led_gpio_blink
\* came just when it was about to suspend itself.  (The LED is then neither
\* blinking nor the worker's until the next alarm.)
BlinksUnlessLost == thread = "suspended" /\ led_blink_count # 0 => lost

\* Whatever new alarms come into, there are never more blinks than the last of
\* them asked for.  (There are fewer when its count is set between the load and
\* the store of a decrement, or in the middle of a blink.)
NotTooMany == shown <= BlinkCount

\* However a new alarm comes into a blink or the end of one, the LED of an alarm
\* that is over is dark once the thread has come to rest.
DarkAtRest == marked = "none" /\ thread = "suspended" => ~signal_led

\* The blinking ends, unless new alarms keep coming.
BlinkingEnds == []<><<NewAlarm>>_ledVars \/ <>[](thread = "suspended")
==============================================================================
