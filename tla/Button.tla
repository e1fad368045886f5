-------------------------------- MODULE Button --------------------------------
(***************************************************************************)
(* The button of src/button-ctl.c: the raw reads, one every 25 ms, the     *)
(* state they are debounced to, and the callback for a long press.         *)
(*                                                                         *)
(* One read is one step: until button_io_init is through only main makes   *)
(* them, and then only a thread that nobody can preempt.  What the finger  *)
(* does in between is the choice of the next read.                         *)
(***************************************************************************)
EXTENDS Integers, FiniteSets

CONSTANTS
  BUTTON_READS_STD,  BUTTON_READS_STD_TRASHOLD,
  BUTTON_READS_LONG, BUTTON_READS_LONG_TRASHOLD

\* A window has one read more than its constant says.  In the firmware the
\* windows are of 8 and 64 reads and the thresholds 4 and 57: the released
\* reads that take a full long window below its threshold just fill the short
\* one.
ASSUME WindowsAssumption ==
  /\ BUTTON_READS_STD_TRASHOLD \in 1 .. BUTTON_READS_STD
  /\ BUTTON_READS_STD \in Nat /\ BUTTON_READS_LONG \in Nat
  /\ BUTTON_READS_STD < BUTTON_READS_LONG
  /\ BUTTON_READS_LONG_TRASHOLD = BUTTON_READS_LONG + 1 - BUTTON_READS_STD

VARIABLES
  reads_raw,          \* the bits that are set; bit 0 is the last read
  fills,              \* reads fill_button_read_pool has yet to make
  started,            \* whether button_ctl_worker runs
  button_state, button_prew_state,
  rest,               \* history: released reads in a row before ...
  hold,               \* history: ... the pressed reads in a row that came last
  called,             \* history: whether the callback was called during those
  always              \* history: whether every read since power on was pressed

vars == <<reads_raw, fills, started, button_state, button_prew_state,
          rest, hold, called, always>>

ButtonStates == {"POR_UNKNOWN", "NOT_PRESSED", "PRESSED", "PRESSED_LONG"}
Bits   == 0 .. BUTTON_READS_LONG
\* Bound of the history counters: one more than any of them is compared with.
MaxRun == BUTTON_READS_LONG + 1

TypeOK ==
  /\ reads_raw \subseteq Bits
  /\ fills \in 0 .. BUTTON_READS_STD
  /\ {button_state, button_prew_state} \subseteq ButtonStates
  /\ {started, called, always} \subseteq BOOLEAN
  /\ {rest, hold} \subseteq 0 .. MaxRun

\* A button nobody has touched.
BadInit ==
  /\ reads_raw = {}
  /\ fills = BUTTON_READS_STD /\ started = FALSE
  /\ button_state = "NOT_PRESSED" /\ button_prew_state = "NOT_PRESSED"
  /\ rest = 0 /\ hold = 0
  /\ called = FALSE /\ always = TRUE

Init ==
  /\ reads_raw = {}
  /\ fills = BUTTON_READS_STD /\ started = FALSE
  /\ button_state = "POR_UNKNOWN" /\ button_prew_state = "POR_UNKNOWN"
  /\ rest = 0 /\ hold = 0
  /\ called = FALSE /\ always = TRUE

------------------------------------------------------------------------------
Popcount(last) == Cardinality(reads_raw' \cap (0 .. last))

\* Takes one read more than the threshold to be long.
BadNewState ==
  IF Popcount(BUTTON_READS_LONG) > BUTTON_READS_LONG_TRASHOLD THEN "PRESSED_LONG"
  ELSE IF Popcount(BUTTON_READS_STD) >= BUTTON_READS_STD_TRASHOLD THEN "PRESSED"
  ELSE "NOT_PRESSED"

\* new_state, after the read of this step.
NewState ==
  IF Popcount(BUTTON_READS_LONG) >= BUTTON_READS_LONG_TRASHOLD THEN "PRESSED_LONG"
  ELSE IF Popcount(BUTTON_READS_STD) >= BUTTON_READS_STD_TRASHOLD THEN "PRESSED"
  ELSE "NOT_PRESSED"

Changes == button_state # NewState

\* Whether button_raw_process calls long_pressed_cb_fn.
CallsBack ==
  Changes /\ button_prew_state = "NOT_PRESSED" /\ NewState = "PRESSED_LONG"

button_raw_process ==
  /\ button_state' = NewState
  /\ button_prew_state' = IF Changes THEN button_state ELSE button_prew_state

Shift(reads, pressed) ==
  {i + 1 : i \in reads \ {BUTTON_READS_LONG}} \cup {i \in {0} : pressed}

Longer(run) == IF run < MaxRun THEN run + 1 ELSE MaxRun

\* A read, and what it does to the histories of the last runs.
button_raw_fill(pressed) ==
  /\ reads_raw' = Shift(reads_raw, pressed)
  /\ hold' = IF pressed THEN Longer(hold) ELSE 0
  /\ rest' = CASE pressed               -> rest
               [] ~pressed /\ hold > 0  -> 1
               [] ~pressed /\ hold = 0  -> Longer(rest)
  /\ always' = (always /\ pressed)

\* One turn of fill_button_read_pool's loop, in main.
FillPool(pressed) ==
  /\ fills > 0
  /\ button_raw_fill(pressed)
  /\ fills' = fills - 1
  /\ UNCHANGED <<started, button_state, button_prew_state, called>>

\* Its last line, and the start of the thread.
StartThread ==
  /\ fills = 0 /\ ~started
  /\ reads_raw' = reads_raw
  /\ button_raw_process
  /\ called' = CallsBack
  /\ started' = TRUE
  /\ UNCHANGED <<fills, rest, hold, always>>

\* One turn of button_ctl_worker's loop.
button_ctl_worker(pressed) ==
  /\ started
  /\ button_raw_fill(pressed)
  /\ button_raw_process
  /\ called' = (CallsBack \/ (called /\ pressed))
  /\ UNCHANGED <<fills, started>>

Next ==
  \/ \E pressed \in BOOLEAN : FillPool(pressed)
  \/ StartThread
  \/ \E pressed \in BOOLEAN : button_ctl_worker(pressed)

Spec == Init /\ [][Next]_vars

------------------------------------------------------------------------------
(* Properties *)

\* When the button has been released for a whole short window, no matter how
\* it bounced before, a press without bounces calls back, at the read that
\* makes it long and at none before.  (With a shorter rest what was there
\* before may be taken as a part of it, and the callback be left out.)
RestedPressCallsBack ==
  rest > BUTTON_READS_STD => (called <=> hold >= BUTTON_READS_LONG_TRASHOLD)

\* button-ctl.c:33: the press that is on at power on, which asks for a new
\* alarm, never calls back, however long it is: it would disarm the new alarm.
BootPressNeverCallsBack == always => ~called
==============================================================================
