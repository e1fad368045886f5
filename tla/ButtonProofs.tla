----------------------------- MODULE ButtonProofs -----------------------------
(***************************************************************************)
(* Button for windows and thresholds of any size: the press that is on at  *)
(* power on never calls back, and after a rest a press calls back when it  *)
(* is long and not before.                                                 *)
(***************************************************************************)
EXTENDS Button, FiniteSetTheorems, TLAPS

\* While every read has been pressed, the reads that fill_button_read_pool has
\* made are bits that are set, and there have been as many as the short window
\* needs before any state was derived from them.  So no state was ever
\* NOT_PRESSED, which the callback would take.
BootInv ==
  /\ reads_raw \subseteq Bits
  /\ fills \in 0 .. BUTTON_READS_STD
  /\ started => fills = 0
  /\ always => 0 .. (BUTTON_READS_STD - fills - 1) \subseteq reads_raw
  /\ always => button_state # "NOT_PRESSED" /\ button_prew_state # "NOT_PRESSED"
  /\ always => ~called

\* The windows and the threshold of the short one are numbers in order.
LEMMA Windows ==
  /\ BUTTON_READS_STD \in Nat /\ BUTTON_READS_LONG \in Nat
  /\ BUTTON_READS_STD_TRASHOLD \in Nat
  /\ BUTTON_READS_STD_TRASHOLD <= BUTTON_READS_STD
  /\ BUTTON_READS_STD < BUTTON_READS_LONG
  BY WindowsAssumption

\* A shift keeps to the mask.
LEMMA ShiftInBits ==
  ASSUME NEW reads \in SUBSET Bits, NEW pressed
  PROVE  Shift(reads, pressed) \subseteq Bits
  BY Windows DEF Shift, Bits

\* A pressed read makes a run of set bits one longer.
LEMMA ShiftExtends ==
  ASSUME NEW reads \in SUBSET Bits, NEW n \in 0 .. BUTTON_READS_STD,
         0 .. (n - 1) \subseteq reads
  PROVE  0 .. n \subseteq Shift(reads, TRUE)
PROOF
<1> SUFFICES ASSUME NEW i \in 0 .. n PROVE i \in Shift(reads, TRUE)
  OBVIOUS
<1>1. CASE i = 0
  BY <1>1 DEF Shift
<1>2. CASE i # 0
  <2>1. i - 1 \in reads \ {BUTTON_READS_LONG} /\ i = (i - 1) + 1
    BY <1>2, Windows
  <2> QED BY <2>1 DEF Shift
<1> QED BY <1>1, <1>2

\* With as many set bits as that the button is not released.
LEMMA FullIsPressed ==
  ASSUME reads_raw' \subseteq Bits, 0 .. (BUTTON_READS_STD - 1) \subseteq reads_raw'
  PROVE  NewState # "NOT_PRESSED"
PROOF
<1> DEFINE low  == 0 .. (BUTTON_READS_STD - 1)
           read == reads_raw' \cap (0 .. BUTTON_READS_STD)
<1>1. IsFiniteSet(read) /\ Cardinality(read) \in Nat
  <2>1. IsFiniteSet(0 .. BUTTON_READS_STD)
    BY Windows, FS_Interval
  <2> QED BY <2>1, FS_Subset, FS_CardinalityType
<1>2. Cardinality(low) = BUTTON_READS_STD
  BY Windows, FS_Interval
<1>3. low \subseteq read
  BY Windows
<1>4. Cardinality(low) <= Cardinality(read)
  BY <1>1, <1>3, FS_Subset
<1>5. Popcount(BUTTON_READS_STD) >= BUTTON_READS_STD_TRASHOLD
  BY <1>1, <1>2, <1>4, Windows DEF Popcount
<1> QED BY <1>5 DEF NewState

\* No read has been made at power on.
LEMMA BootInit == Init => BootInv
  BY Windows DEF Init, BootInv

\* A step that looks at the bits while they are all set.
LEMMA ProcessFull ==
  ASSUME BootInv, always, reads_raw' \subseteq Bits,
         0 .. (BUTTON_READS_STD - 1) \subseteq reads_raw', button_raw_process
  PROVE  /\ button_state' # "NOT_PRESSED" /\ button_prew_state' # "NOT_PRESSED"
         /\ ~CallsBack
PROOF
<1>1. NewState # "NOT_PRESSED"
  BY FullIsPressed
<1>2. button_state # "NOT_PRESSED" /\ button_prew_state # "NOT_PRESSED"
  BY DEF BootInv
<1> QED BY <1>1, <1>2 DEF button_raw_process, CallsBack

\* Every read keeps the run of set bits, while every read is pressed.
LEMMA BootStep == BootInv /\ [Next]_vars => BootInv'
PROOF
<1> SUFFICES ASSUME BootInv, [Next]_vars PROVE BootInv'
  OBVIOUS
<1>1. ASSUME NEW pressed \in BOOLEAN, FillPool(pressed)
      PROVE  BootInv'
  <2>1. /\ fills > 0 /\ fills' = fills - 1 /\ reads_raw' = Shift(reads_raw, pressed)
        /\ always' = (always /\ pressed)
        /\ UNCHANGED <<started, button_state, button_prew_state, called>>
    BY <1>1 DEF FillPool, button_raw_fill
  <2>2. fills' \in 0 .. BUTTON_READS_STD /\ ~started
    BY <2>1, Windows DEF BootInv
  <2>3. reads_raw' \subseteq Bits
    BY <2>1, ShiftInBits DEF BootInv
  <2>4. ASSUME always'
        PROVE  0 .. (BUTTON_READS_STD - fills' - 1) \subseteq reads_raw'
    <3>1. always /\ pressed = TRUE
      BY <2>1, <2>4
    <3>2. BUTTON_READS_STD - fills \in 0 .. BUTTON_READS_STD
      BY Windows DEF BootInv
    <3>3. 0 .. (BUTTON_READS_STD - fills) \subseteq Shift(reads_raw, TRUE)
      BY <3>1, <3>2, ShiftExtends DEF BootInv
    <3>4. BUTTON_READS_STD - fills' - 1 = BUTTON_READS_STD - fills
      BY <2>1, Windows DEF BootInv
    <3> QED BY <2>1, <3>1, <3>3, <3>4
  <2> QED BY <2>1, <2>2, <2>3, <2>4 DEF BootInv
<1>2. CASE StartThread
  <2>1. /\ fills = 0 /\ reads_raw' = reads_raw /\ button_raw_process
        /\ called' = CallsBack /\ UNCHANGED <<fills, always>>
    BY <1>2 DEF StartThread
  <2>2. ASSUME always
        PROVE  /\ 0 .. (BUTTON_READS_STD - 1) \subseteq reads_raw'
               /\ button_state' # "NOT_PRESSED" /\ button_prew_state' # "NOT_PRESSED"
               /\ ~called'
    <3>1. 0 .. (BUTTON_READS_STD - 1) \subseteq reads_raw'
      BY <2>1, <2>2, Windows DEF BootInv
    <3>2. reads_raw' \subseteq Bits
      BY <2>1 DEF BootInv
    <3> QED BY <2>1, <2>2, <3>1, <3>2, ProcessFull
  <2> QED BY <2>1, <2>2, Windows DEF BootInv
<1>3. ASSUME NEW pressed \in BOOLEAN, button_ctl_worker(pressed)
      PROVE  BootInv'
  <2>1. /\ started /\ reads_raw' = Shift(reads_raw, pressed) /\ button_raw_process
        /\ always' = (always /\ pressed)
        /\ called' = (CallsBack \/ (called /\ pressed))
        /\ UNCHANGED <<fills, started>>
    BY <1>3 DEF button_ctl_worker, button_raw_fill
  <2>2. reads_raw' \subseteq Bits
    BY <2>1, ShiftInBits DEF BootInv
  <2>3. fills = 0
    BY <2>1 DEF BootInv
  <2>4. ASSUME always'
        PROVE  /\ 0 .. (BUTTON_READS_STD - 1) \subseteq reads_raw'
               /\ button_state' # "NOT_PRESSED" /\ button_prew_state' # "NOT_PRESSED"
               /\ ~called'
    <3>1. always /\ pressed = TRUE /\ ~called
      BY <2>1, <2>4 DEF BootInv
    <3>2. BUTTON_READS_STD \in 0 .. BUTTON_READS_STD
            /\ 0 .. (BUTTON_READS_STD - 1) \subseteq reads_raw
      BY <2>3, <3>1, Windows DEF BootInv
    <3>3. 0 .. BUTTON_READS_STD \subseteq Shift(reads_raw, TRUE)
      BY <3>2, ShiftExtends DEF BootInv
    <3>4. 0 .. (BUTTON_READS_STD - 1) \subseteq reads_raw'
      <4>1. reads_raw' = Shift(reads_raw, TRUE)
        BY <2>1, <3>1, Zenon
      <4>2. 0 .. (BUTTON_READS_STD - 1) \subseteq 0 .. BUTTON_READS_STD
        BY Windows
      <4> QED BY <3>3, <4>1, <4>2
    <3> QED BY <2>1, <2>2, <3>1, <3>4, ProcessFull
  <2> QED BY <2>1, <2>2, <2>3, <2>4, Windows DEF BootInv
<1>4. CASE UNCHANGED vars
  BY <1>4 DEF vars, BootInv
<1> QED BY <1>1, <1>2, <1>3, <1>4 DEF Next

\* However long the button is held from power on, and with whatever windows, the
\* alarm that was asked for with it is not disarmed by it.
THEOREM BootPressIsNoCallback == Spec => []BootPressNeverCallsBack
<1>1. BootInv => BootPressNeverCallsBack
  BY DEF BootInv, BootPressNeverCallsBack
<1> QED BY <1>1, BootInit, BootStep, PTL DEF Spec

\* The runs of reads are counted up to their bound.
LEMMA LongerIsBounded ==
  ASSUME NEW run \in 0 .. MaxRun PROVE Longer(run) \in 1 .. MaxRun
  BY Windows DEF Longer, MaxRun

\* Nothing has been read at power on.
LEMMA TypeInit == Init => TypeOK
PROOF
<1> SUFFICES ASSUME Init PROVE TypeOK
  OBVIOUS
<1>1. {started, called, always} \subseteq BOOLEAN
  BY Zenon DEF Init
<1> QED BY <1>1, Windows DEF Init, TypeOK, ButtonStates, MaxRun

\* A read keeps the bits in the window and the runs within their bound.
LEMMA ReadType ==
  ASSUME TypeOK, NEW pressed \in BOOLEAN, button_raw_fill(pressed)
  PROVE  reads_raw' \subseteq Bits /\ {rest', hold'} \subseteq 0 .. MaxRun
         /\ always' \in BOOLEAN
PROOF
<1>1. reads_raw' \subseteq Bits
  <2>1. reads_raw' = Shift(reads_raw, pressed)
    BY Zenon DEF button_raw_fill
  <2> QED BY <2>1, ShiftInBits DEF TypeOK
<1>2. always' \in BOOLEAN
  BY Zenon DEF button_raw_fill
<1>3. 0 \in 0 .. MaxRun /\ 1 \in 0 .. MaxRun /\ 1 .. MaxRun \subseteq 0 .. MaxRun
  BY Windows DEF MaxRun
<1>4. hold' \in 0 .. MaxRun
  <2>1. hold' = IF pressed THEN Longer(hold) ELSE 0
    BY Zenon DEF button_raw_fill
  <2> QED BY <1>3, <2>1, LongerIsBounded DEF TypeOK
<1>5. rest' \in 0 .. MaxRun
  <2>1. hold > 0 \/ hold = 0
    BY Windows DEF TypeOK, MaxRun
  <2>2. rest' \in {rest, 1, Longer(rest)}
    BY <2>1, Zenon DEF button_raw_fill
  <2> QED BY <1>3, <2>2, LongerIsBounded DEF TypeOK
<1> QED BY <1>1, <1>2, <1>4, <1>5

\* What the reads are taken for is one of the three states of a button that is
\* known, or was there before.
LEMMA ProcessType ==
  ASSUME TypeOK, button_raw_process
  PROVE  {button_state', button_prew_state'} \subseteq ButtonStates
  BY DEF TypeOK, button_raw_process, NewState, ButtonStates

\* Every step keeps the types.
LEMMA TypeStep == TypeOK /\ [Next]_vars => TypeOK'
PROOF
<1> SUFFICES ASSUME TypeOK, [Next]_vars PROVE TypeOK'
  OBVIOUS
<1>1. ASSUME NEW pressed \in BOOLEAN, FillPool(pressed)
      PROVE  TypeOK'
  <2>1. fills' \in 0 .. BUTTON_READS_STD
    BY <1>1, Windows DEF FillPool, TypeOK
  <2> QED BY <1>1, <2>1, ReadType DEF FillPool, TypeOK
<1>2. CASE StartThread
  <2>1. {started', called', always'} \subseteq BOOLEAN
    <3>1. started' \in BOOLEAN /\ called' \in BOOLEAN
      BY <1>2, Zenon DEF StartThread, CallsBack
    <3> QED BY <1>2, <3>1 DEF StartThread, TypeOK
  <2> QED BY <1>2, <2>1, ProcessType DEF StartThread, TypeOK
<1>3. ASSUME NEW pressed \in BOOLEAN, button_ctl_worker(pressed)
      PROVE  TypeOK'
  <2>1. called' \in BOOLEAN
    BY <1>3, Zenon DEF button_ctl_worker
  <2> QED BY <1>3, <2>1, ReadType, ProcessType DEF button_ctl_worker, TypeOK
<1>4. CASE UNCHANGED vars
  BY <1>4 DEF vars, TypeOK
<1> QED BY <1>1, <1>2, <1>3, <1>4 DEF Next

\* The window keeps to its bits and the states to their values, whatever the
\* widths of the windows: no read is shifted out to a bit that is not counted.
THEOREM TypeCorrect == Spec => []TypeOK
  BY TypeInit, TypeStep, PTL DEF Spec

------------------------------------------------------------------------------
(* A press after a rest *)

\* The reads of the present press are set bits and those of the rest before it clear ones,
\* as far as the long window goes back.
RunsInv == \A i \in Bits : /\ i < hold => i \in reads_raw
                           /\ hold <= i /\ i < hold + rest => i \notin reads_raw

\* After a rest of a whole short window the state follows the length of the press.
PressInv ==
  rest > BUTTON_READS_STD =>
    /\ hold < BUTTON_READS_STD_TRASHOLD => button_state = "NOT_PRESSED" /\ ~called
    /\ BUTTON_READS_STD_TRASHOLD <= hold /\ hold < BUTTON_READS_LONG_TRASHOLD =>
         button_state = "PRESSED" /\ button_prew_state = "NOT_PRESSED" /\ ~called
    /\ BUTTON_READS_LONG_TRASHOLD <= hold => button_state = "PRESSED_LONG" /\ called

RestInv ==
  /\ TypeOK
  /\ started => fills = 0
  /\ ~started => rest <= BUTTON_READS_STD - fills
  /\ RunsInv
  /\ PressInv

\* The set bits of a window are no fewer than those of the press that fit into it, and no more
\* than those and the ones from before the rest.
LEMMA CountRun ==
  ASSUME NEW reads \in SUBSET Bits, NEW h \in 0 .. MaxRun, NEW r \in 0 .. MaxRun,
         NEW last \in Bits, r > BUTTON_READS_STD,
         \A i \in Bits : /\ i < h => i \in reads
                         /\ h <= i /\ i < h + r => i \notin reads
  PROVE  LET c == Cardinality(reads \cap (0 .. last))
         IN  /\ c \in Nat
             /\ h <= last + 1 => h <= c
             /\ last + 1 < h => last + 1 <= c
             /\ last < h + r => c <= h
             /\ h + r <= last => c <= last + 1 - r
PROOF
<1> DEFINE read == reads \cap (0 .. last)
<1>0. /\ last \in Nat /\ last <= BUTTON_READS_LONG /\ h \in Nat /\ r \in Nat
      /\ BUTTON_READS_LONG \in Nat
  BY Windows DEF Bits, MaxRun
<1>1. IsFiniteSet(read) /\ Cardinality(read) \in Nat
  <2>1. IsFiniteSet(0 .. last)
    BY <1>0, FS_Interval
  <2> QED BY <2>1, FS_Subset, FS_CardinalityType
<1>2. ASSUME NEW n \in Nat, n <= last + 1, n <= h
      PROVE  n <= Cardinality(read)
  <2>1. 0 .. (n - 1) \subseteq read
    BY <1>0, <1>2 DEF Bits
  <2>2. Cardinality(0 .. (n - 1)) = n
    BY <1>2, FS_Interval
  <2>3. Cardinality(0 .. (n - 1)) <= Cardinality(read)
    BY <1>1, <2>1, FS_Subset
  <2> QED BY <2>2, <2>3
<1>3. IsFiniteSet(0 .. (h - 1)) /\ Cardinality(0 .. (h - 1)) = h
  BY <1>0, FS_Interval
<1>4. CASE last < h + r
  <2>1. read \subseteq 0 .. (h - 1)
    BY <1>0, <1>4 DEF Bits
  <2>2. Cardinality(read) <= h
    BY <1>3, <2>1, FS_Subset
  <2> QED BY <1>0, <1>1, <1>2, <1>4, <2>2
<1>5. CASE h + r <= last
  <2> DEFINE old == (h + r) .. last
  <2>1. IsFiniteSet(old) /\ Cardinality(old) = last + 1 - (h + r)
    BY <1>0, <1>5, FS_Interval
  <2>2. (0 .. (h - 1)) \cap old = {}
    BY <1>0
  <2>3. /\ IsFiniteSet((0 .. (h - 1)) \cup old)
        /\ Cardinality((0 .. (h - 1)) \cup old)
             = Cardinality(0 .. (h - 1)) + Cardinality(old)
               - Cardinality((0 .. (h - 1)) \cap old)
    <3> HIDE DEF old
    <3> QED BY <1>3, <2>1, FS_Union
  <2>4. Cardinality((0 .. (h - 1)) \cap old) = 0
    BY <2>2, FS_EmptySet, Zenon
  <2>5. read \subseteq (0 .. (h - 1)) \cup old
    BY <1>0 DEF Bits
  <2>6. Cardinality(read) <= last + 1 - r
    <3>1. Cardinality(read) <= Cardinality((0 .. (h - 1)) \cup old)
      BY <2>3, <2>5, FS_Subset
    <3> HIDE DEF old, read
    <3> QED BY <1>0, <1>1, <1>3, <2>1, <2>3, <2>4, <3>1
  <2> QED BY <1>0, <1>1, <1>2, <1>5, <2>6
<1>6. last < h + r \/ h + r <= last
  BY <1>0
<1> QED BY <1>4, <1>5, <1>6

\* What a count that keeps within those limits is compared with, in the long window ...
LEMMA LongCount ==
  ASSUME NEW c \in Nat, NEW h \in Nat, NEW r \in Nat, r > BUTTON_READS_STD,
         h <= BUTTON_READS_LONG + 1 => h <= c,
         BUTTON_READS_LONG + 1 < h => BUTTON_READS_LONG + 1 <= c,
         BUTTON_READS_LONG < h + r => c <= h,
         h + r <= BUTTON_READS_LONG => c <= BUTTON_READS_LONG + 1 - r
  PROVE  c >= BUTTON_READS_LONG_TRASHOLD <=> h >= BUTTON_READS_LONG_TRASHOLD
  BY WindowsAssumption

\* ... and in the short one.
LEMMA ShortCount ==
  ASSUME NEW c \in Nat, NEW h \in Nat, NEW r \in Nat, r > BUTTON_READS_STD,
         h <= BUTTON_READS_STD + 1 => h <= c,
         BUTTON_READS_STD + 1 < h => BUTTON_READS_STD + 1 <= c,
         BUTTON_READS_STD < h + r => c <= h
  PROVE  c >= BUTTON_READS_STD_TRASHOLD <=> h >= BUTTON_READS_STD_TRASHOLD
  BY WindowsAssumption

\* What the reads are taken for after a rest.
LEMMA RestedState ==
  ASSUME TypeOK', RunsInv', rest' > BUTTON_READS_STD
  PROVE  NewState = IF hold' >= BUTTON_READS_LONG_TRASHOLD THEN "PRESSED_LONG"
                    ELSE IF hold' >= BUTTON_READS_STD_TRASHOLD THEN "PRESSED"
                    ELSE "NOT_PRESSED"
PROOF
<1>0. /\ reads_raw' \in SUBSET Bits /\ hold' \in 0 .. MaxRun /\ rest' \in 0 .. MaxRun
      /\ \A i \in Bits : /\ i < hold' => i \in reads_raw'
                         /\ hold' <= i /\ i < hold' + rest' => i \notin reads_raw'
  BY DEF TypeOK, RunsInv
<1>1. /\ BUTTON_READS_LONG_TRASHOLD = BUTTON_READS_LONG + 1 - BUTTON_READS_STD
      /\ BUTTON_READS_LONG \in Bits /\ BUTTON_READS_STD \in Bits
      /\ BUTTON_READS_STD_TRASHOLD \in 1 .. BUTTON_READS_STD
      /\ hold' \in Nat /\ rest' \in Nat
  BY <1>0, WindowsAssumption DEF Bits, MaxRun
<1>2. Popcount(BUTTON_READS_LONG) >= BUTTON_READS_LONG_TRASHOLD
        <=> hold' >= BUTTON_READS_LONG_TRASHOLD
  <2> DEFINE c == Cardinality(reads_raw' \cap (0 .. BUTTON_READS_LONG))
  <2>1. /\ c \in Nat
        /\ hold' <= BUTTON_READS_LONG + 1 => hold' <= c
        /\ BUTTON_READS_LONG + 1 < hold' => BUTTON_READS_LONG + 1 <= c
        /\ BUTTON_READS_LONG < hold' + rest' => c <= hold'
        /\ hold' + rest' <= BUTTON_READS_LONG => c <= BUTTON_READS_LONG + 1 - rest'
    BY <1>0, <1>1, CountRun
  <2> HIDE DEF c
  <2>2. c >= BUTTON_READS_LONG_TRASHOLD <=> hold' >= BUTTON_READS_LONG_TRASHOLD
    BY <1>1, <2>1, LongCount
  <2> QED BY <2>2 DEF Popcount, c
<1>3. Popcount(BUTTON_READS_STD) >= BUTTON_READS_STD_TRASHOLD
        <=> hold' >= BUTTON_READS_STD_TRASHOLD
  <2> DEFINE c == Cardinality(reads_raw' \cap (0 .. BUTTON_READS_STD))
  <2>1. /\ c \in Nat
        /\ hold' <= BUTTON_READS_STD + 1 => hold' <= c
        /\ BUTTON_READS_STD + 1 < hold' => BUTTON_READS_STD + 1 <= c
        /\ BUTTON_READS_STD < hold' + rest' => c <= hold'
    BY <1>0, <1>1, CountRun
  <2> HIDE DEF c
  <2>2. c >= BUTTON_READS_STD_TRASHOLD <=> hold' >= BUTTON_READS_STD_TRASHOLD
    BY <1>1, <2>1, ShortCount
  <2> QED BY <2>2 DEF Popcount, c
<1> QED BY <1>2, <1>3 DEF NewState

\* A read shifts both runs, a pressed one makes the press longer and a released one starts or
\* goes on with a rest.
LEMMA RunsShift ==
  ASSUME TypeOK, RunsInv, NEW pressed \in BOOLEAN, button_raw_fill(pressed)
  PROVE  /\ RunsInv'
         /\ pressed => rest' = rest /\ hold' \in 1 .. MaxRun /\
                       (hold' = hold + 1 \/ (hold = MaxRun /\ hold' = MaxRun))
         /\ ~pressed => /\ hold' = 0
                        /\ rest' \in {1, Longer(rest)} /\ (hold > 0 => rest' = 1)
PROOF
<1>0. /\ hold \in 0 .. MaxRun /\ rest \in 0 .. MaxRun /\ reads_raw \in SUBSET Bits
      /\ BUTTON_READS_LONG \in Nat /\ MaxRun = BUTTON_READS_LONG + 1
      /\ hold \in Nat /\ rest \in Nat
  BY Windows DEF TypeOK, MaxRun
<1>1. /\ reads_raw' = Shift(reads_raw, pressed)
      /\ hold' = IF pressed THEN Longer(hold) ELSE 0
  BY Zenon DEF button_raw_fill
<1>2. hold > 0 \/ hold = 0
  BY <1>0
<1>3. /\ pressed => rest' = rest
      /\ ~pressed /\ hold > 0 => rest' = 1
      /\ ~pressed /\ hold = 0 => rest' = Longer(rest)
  <2>0. rest' = CASE pressed               -> rest
                 [] ~pressed /\ hold > 0  -> 1
                 [] ~pressed /\ hold = 0  -> Longer(rest)
    BY DEF button_raw_fill
  <2>1. CASE pressed
    <3>1. rest' = rest
      BY <2>0, <2>1, Zenon
    <3> QED BY <2>1, <3>1
  <2>2. CASE ~pressed /\ hold > 0
    <3>0. ~(hold = 0)
      BY <1>0, <2>2
    <3>1. rest' = 1
      BY <2>0, <2>2, <3>0, Zenon
    <3> QED BY <2>2, <3>0, <3>1
  <2>3. CASE ~pressed /\ hold = 0
    <3>1. ~(hold > 0)
      BY <2>3
    <3>2. rest' = Longer(rest)
      BY <2>0, <2>3, <3>1, Zenon
    <3> QED BY <2>3, <3>1, <3>2
  <2> QED BY <2>1, <2>2, <2>3
<1>4. \A i \in Bits : i # 0 => (i \in reads_raw' <=> i - 1 \in reads_raw)
  <2> SUFFICES ASSUME NEW i \in Bits, i # 0
               PROVE  i \in Shift(reads_raw, pressed) <=> i - 1 \in reads_raw
    BY <1>1
  <2>1. i \in Nat /\ i <= BUTTON_READS_LONG /\ \A j \in reads_raw : j \in Nat
    BY <1>0 DEF Bits
  <2> QED BY <2>1 DEF Shift
<1>5. 0 \in reads_raw' <=> pressed
  <2>1. \A j \in reads_raw : j \in Nat
    BY <1>0 DEF Bits
  <2> QED BY <1>1, <2>1 DEF Shift
<1>6. CASE pressed
  <2>1. hold' = Longer(hold) /\ rest' = rest
    BY <1>1, <1>3, <1>6
  <2>2. /\ hold' \in 1 .. MaxRun
        /\ hold' = hold + 1 \/ (hold = MaxRun /\ hold' = MaxRun)
    BY <1>0, <2>1 DEF Longer
  <2>3. RunsInv'
    <3> SUFFICES ASSUME NEW i \in Bits
                 PROVE  /\ i < hold' => i \in reads_raw'
                        /\ hold' <= i /\ i < hold' + rest' => i \notin reads_raw'
      BY DEF RunsInv
    <3>1. CASE i = 0
      BY <1>5, <1>6, <2>2, <3>1
    <3>2. CASE i # 0
      <4>1. i - 1 \in Bits /\ i \in Nat /\ i <= BUTTON_READS_LONG
        BY <3>2, Windows DEF Bits
      <4>2. /\ i - 1 < hold => i - 1 \in reads_raw
            /\ hold <= i - 1 /\ i - 1 < hold + rest => i - 1 \notin reads_raw
        BY <4>1 DEF RunsInv
      <4> QED BY <1>0, <1>4, <2>1, <2>2, <3>2, <4>1, <4>2
    <3> QED BY <3>1, <3>2
  <2> QED BY <1>6, <2>1, <2>2, <2>3
<1>7. CASE ~pressed
  <2>1. hold' = 0 /\ rest' \in {1, Longer(rest)} /\ (hold > 0 => rest' = 1)
    BY <1>1, <1>2, <1>3, <1>7
  <2>2. RunsInv'
    <3> SUFFICES ASSUME NEW i \in Bits
                 PROVE  i < rest' => i \notin reads_raw'
      <4>1. \A i \in Bits : i < rest' => i \notin reads_raw'
        OBVIOUS
      <4>2. \A i \in Bits : i \in Nat
        BY Windows DEF Bits
      <4>3. rest' \in Nat
        BY <1>0, <2>1 DEF Longer
      <4> QED BY <2>1, <4>1, <4>2, <4>3 DEF RunsInv
    <3>1. CASE i = 0
      BY <1>5, <1>7, <3>1
    <3>2. CASE i # 0
      <4>1. i - 1 \in Bits /\ i \in Nat /\ i <= BUTTON_READS_LONG /\ i >= 1
        BY <3>2, Windows DEF Bits
      <4>2. /\ hold <= i - 1 /\ i - 1 < hold + rest => i - 1 \notin reads_raw
        BY <4>1 DEF RunsInv
      <4>3. CASE hold = 0
        <5>1. rest' = Longer(rest)
          BY <1>3, <1>7, <4>3
        <5>2. i < rest' => i - 1 < rest
          BY <1>0, <4>1, <5>1 DEF Longer
        <5> QED BY <1>0, <1>4, <3>2, <4>1, <4>2, <4>3, <5>2
      <4>4. CASE hold > 0
        <5>1. rest' = 1
          BY <2>1, <4>4
        <5> QED BY <4>1, <5>1
      <4> QED BY <1>2, <4>3, <4>4
    <3> QED BY <3>1, <3>2
  <2> QED BY <1>7, <2>1, <2>2
<1> QED BY <1>6, <1>7

\* At power on nothing has been read.
LEMMA RestInit == Init => RestInv
PROOF
<1> SUFFICES ASSUME Init PROVE RestInv
  OBVIOUS
<1>1. TypeOK
  BY TypeInit
<1>2. rest = 0 /\ hold = 0 /\ reads_raw = {} /\ fills = BUTTON_READS_STD /\ ~started
  BY Zenon DEF Init
<1>3. RunsInv
  <2>1. \A i \in Bits : i \in Nat
    BY Windows DEF Bits
  <2> QED BY <1>2, <2>1 DEF RunsInv
<1>4. PressInv
  BY <1>2, Windows DEF PressInv
<1>5. rest <= BUTTON_READS_STD - fills
  BY <1>2, Windows
<1> QED BY <1>1, <1>2, <1>3, <1>4, <1>5 DEF RestInv

\* The thread's step after a read.
LEMMA PressWorker ==
  ASSUME BUTTON_READS_STD_TRASHOLD < BUTTON_READS_LONG_TRASHOLD,
         RestInv, TypeOK', NEW pressed \in BOOLEAN, button_ctl_worker(pressed), RunsInv'
  PROVE  PressInv'
PROOF
<1>0. /\ hold \in Nat /\ rest \in Nat /\ hold' \in Nat /\ called \in BOOLEAN
      /\ BUTTON_READS_LONG_TRASHOLD \in Nat /\ BUTTON_READS_STD_TRASHOLD \in Nat
      /\ BUTTON_READS_STD_TRASHOLD >= 1 /\ BUTTON_READS_STD \in Nat /\ BUTTON_READS_STD >= 1
      /\ MaxRun \in Nat /\ BUTTON_READS_LONG_TRASHOLD <= MaxRun
  BY WindowsAssumption DEF RestInv, TypeOK, MaxRun
<1>1. button_raw_fill(pressed) /\ button_raw_process
  BY DEF button_ctl_worker
<1>2. called' = (CallsBack \/ (called /\ pressed))
  BY Zenon DEF button_ctl_worker
<1>3. /\ button_state' = NewState
      /\ button_prew_state' = IF button_state # NewState THEN button_state ELSE button_prew_state
  BY <1>1 DEF button_raw_process, Changes
<1> SUFFICES ASSUME rest' > BUTTON_READS_STD
             PROVE  /\ hold' < BUTTON_READS_STD_TRASHOLD =>
                         button_state' = "NOT_PRESSED" /\ ~called'
                    /\ BUTTON_READS_STD_TRASHOLD <= hold' /\ hold' < BUTTON_READS_LONG_TRASHOLD =>
                         /\ button_state' = "PRESSED" /\ button_prew_state' = "NOT_PRESSED"
                         /\ ~called'
                    /\ BUTTON_READS_LONG_TRASHOLD <= hold' =>
                         button_state' = "PRESSED_LONG" /\ called'
  BY DEF PressInv
<1>4. NewState = IF hold' >= BUTTON_READS_LONG_TRASHOLD THEN "PRESSED_LONG"
                 ELSE IF hold' >= BUTTON_READS_STD_TRASHOLD THEN "PRESSED"
                 ELSE "NOT_PRESSED"
  BY RestedState
<1>5. CASE ~pressed
  <2>1. hold' = 0
    BY <1>1, <1>5, RunsShift DEF RestInv
  <2>2. NewState = "NOT_PRESSED"
    BY <1>0, <1>4, <2>1
  <2>3. ~called'
    BY <1>2, <1>5, <2>2 DEF CallsBack
  <2> QED BY <1>0, <1>3, <2>1, <2>2, <2>3
<1>6. CASE pressed
  <2>1. /\ rest' = rest
        /\ hold' = hold + 1 \/ (hold = MaxRun /\ hold' = MaxRun)
    BY <1>1, <1>6, RunsShift DEF RestInv
  <2>2. /\ hold < BUTTON_READS_STD_TRASHOLD => button_state = "NOT_PRESSED" /\ ~called
        /\ BUTTON_READS_STD_TRASHOLD <= hold /\ hold < BUTTON_READS_LONG_TRASHOLD =>
             button_state = "PRESSED" /\ button_prew_state = "NOT_PRESSED" /\ ~called
        /\ BUTTON_READS_LONG_TRASHOLD <= hold => button_state = "PRESSED_LONG" /\ called
    BY <2>1 DEF RestInv, PressInv
  <2>3. CASE hold' < BUTTON_READS_STD_TRASHOLD
    <3>1. NewState = "NOT_PRESSED" /\ ~called
      BY <1>0, <1>4, <2>1, <2>2, <2>3
    <3>2. ~called'
      BY <1>2, <3>1 DEF CallsBack
    <3> QED BY <1>0, <1>3, <2>3, <3>1, <3>2
  <2>4. CASE BUTTON_READS_STD_TRASHOLD <= hold' /\ hold' < BUTTON_READS_LONG_TRASHOLD
    <3>1. /\ NewState = "PRESSED" /\ ~called
          /\ \/ button_state = "NOT_PRESSED"
             \/ button_state = "PRESSED" /\ button_prew_state = "NOT_PRESSED"
      BY <1>0, <1>4, <2>1, <2>2, <2>4
    <3>2. ~called'
      BY <1>2, <3>1 DEF CallsBack
    <3> QED BY <1>0, <1>3, <2>4, <3>1, <3>2
  <2>5. CASE BUTTON_READS_LONG_TRASHOLD <= hold'
    <3>1. /\ NewState = "PRESSED_LONG"
          /\ \/ called
             \/ button_state = "PRESSED" /\ button_prew_state = "NOT_PRESSED"
      BY <1>0, <1>4, <2>1, <2>2, <2>5
    <3>2. called'
      BY <1>2, <1>6, <3>1 DEF CallsBack, Changes
    <3> QED BY <1>0, <1>3, <2>5, <3>1, <3>2
  <2> QED BY <1>0, <2>3, <2>4, <2>5
<1> QED BY <1>5, <1>6

\* The reads of fill_button_read_pool are too few for a rest; StartThread leaves the runs alone.
LEMMA RestStep ==
  ASSUME BUTTON_READS_STD_TRASHOLD < BUTTON_READS_LONG_TRASHOLD
  PROVE  RestInv /\ [Next]_vars => RestInv'
PROOF
<1> SUFFICES ASSUME RestInv, [Next]_vars PROVE RestInv'
  OBVIOUS
<1>0. TypeOK /\ TypeOK' /\ RunsInv
  BY TypeStep DEF RestInv
<1>n. /\ hold \in Nat /\ rest \in Nat /\ fills \in Nat /\ fills <= BUTTON_READS_STD
      /\ BUTTON_READS_STD \in Nat /\ BUTTON_READS_STD >= 1 /\ MaxRun \in Nat
  BY <1>0, WindowsAssumption DEF TypeOK, MaxRun
<1>1. ASSUME NEW pressed \in BOOLEAN, FillPool(pressed)
      PROVE  RestInv'
  <2>1. /\ button_raw_fill(pressed) /\ fills > 0 /\ fills' = fills - 1
        /\ UNCHANGED started /\ ~started
    BY <1>1, <1>n DEF FillPool, RestInv
  <2>2. RunsInv' /\ rest' \in {rest, 1, Longer(rest)}
    BY <1>0, <2>1, RunsShift
  <2>3. rest' <= BUTTON_READS_STD - fills'
    BY <1>n, <2>1, <2>2 DEF RestInv, Longer
  <2>4. PressInv'
    <3>1. rest' <= BUTTON_READS_STD /\ rest' \in Nat
      BY <1>0, <1>n, <2>1, <2>3 DEF TypeOK
    <3> QED BY <1>n, <3>1 DEF PressInv
  <2> QED BY <1>0, <2>1, <2>2, <2>3, <2>4 DEF RestInv
<1>2. CASE StartThread
  <2>1. /\ ~started /\ fills = 0 /\ UNCHANGED <<reads_raw, fills, rest, hold>>
    BY <1>2 DEF StartThread
  <2>2. RunsInv'
    BY <1>0, <2>1 DEF RunsInv
  <2>3. PressInv'
    <3>1. ~(rest > BUTTON_READS_STD)
      BY <1>n, <2>1 DEF RestInv
    <3> QED BY <2>1, <3>1 DEF PressInv
  <2>4. started' => fills' = 0
    BY <2>1
  <2>5. ~started' => rest' <= BUTTON_READS_STD - fills'
    BY <2>1 DEF RestInv
  <2> QED BY <1>0, <2>2, <2>3, <2>4, <2>5 DEF RestInv
<1>3. ASSUME NEW pressed \in BOOLEAN, button_ctl_worker(pressed)
      PROVE  RestInv'
  <2>1. button_raw_fill(pressed) /\ started /\ UNCHANGED <<fills, started>>
    BY <1>3 DEF button_ctl_worker
  <2>2. RunsInv'
    BY <1>0, <2>1, RunsShift
  <2>3. PressInv'
    BY <1>0, <1>3, <2>2, PressWorker
  <2>4. started' /\ fills' = 0
    BY <2>1 DEF RestInv
  <2> QED BY <1>0, <2>2, <2>3, <2>4 DEF RestInv
<1>4. CASE UNCHANGED vars
  BY <1>0, <1>4 DEF vars, RestInv, RunsInv, PressInv
<1> QED BY <1>1, <1>2, <1>3, <1>4 DEF Next

\* Whatever the reads before were, and with windows and thresholds of any size: after a rest of
\* a whole short window a press calls back at the read that makes it long, and at none before.
\* (It has to be taken for a short one first: the threshold of that is the lower one.)
THEOREM RestedPressesCallBack ==
  ASSUME BUTTON_READS_STD_TRASHOLD < BUTTON_READS_LONG_TRASHOLD
  PROVE  Spec => []RestedPressCallsBack
PROOF
<1>1. RestInv => RestedPressCallsBack
  <2> SUFFICES ASSUME RestInv, rest > BUTTON_READS_STD
               PROVE  called <=> hold >= BUTTON_READS_LONG_TRASHOLD
    BY DEF RestedPressCallsBack
  <2>1. /\ hold \in Nat /\ BUTTON_READS_LONG_TRASHOLD \in Nat
        /\ BUTTON_READS_STD_TRASHOLD \in Nat
    BY WindowsAssumption DEF RestInv, TypeOK, MaxRun
  <2> QED BY <2>1 DEF RestInv, PressInv
<1>2. RestInv /\ [Next]_vars => RestInv'
  BY RestStep
<1> QED BY <1>1, <1>2, RestInit, PTL DEF Spec
==============================================================================
