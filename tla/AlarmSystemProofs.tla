-------------------------- MODULE AlarmSystemProofs --------------------------
(***************************************************************************)
(* AlarmSystem, and AlarmBoot around it, for every value of their          *)
(* constants: main never waits for a mutex that nobody is going to unlock, *)
(* although it aborts the thread that may hold it; every register keeps    *)
(* its width, whatever is cut in two; no alarm is disarmed by a request    *)
(* that was not meant for it; the system implements AlarmCore, and so      *)
(* AlarmTimeline, as long as nothing is torn; and when something is, a     *)
(* disarm is not forgotten, no alarm appears that nobody scheduled, and no *)
(* assert fails that need not.                                             *)
(***************************************************************************)
EXTENDS AlarmBoot, CoreModelProofs, TLAPS

\* What keeps the mutex in order.  It outlives its holder only from the abort
\* to k_mutex_init, and during that time and the set-up after it there is no
\* worker, and main does not lock.
LockInv ==
  /\ held => worker = "reset" \/ main = "mutex"
  /\ worker = "reset" => held
  /\ main = "waiting" => held
  /\ main \in Setup \cup {"boot"} => worker = "none"
  /\ main = "boot" => ~held

\* At power on nobody has the mutex.
LEMMA LockInit == Init => LockInv
  BY DEF Init, LockInv, Setup

\* If main waits, the mutex is held, and no new alarm is being set up.
LEMMA LockImplies == LockInv => MainNeverStuck
  BY DEF LockInv, MainNeverStuck

\* Every step of worker, button, main and power keeps the mutex in order.
LEMMA LockStep == LockInv /\ [Next]_vars => LockInv'
PROOF
<1> SUFFICES ASSUME LockInv, [Next]_vars PROVE LockInv'
  OBVIOUS
<1> USE DEF LockInv, Setup
<1>1. CASE Tick
  BY <1>1 DEF Tick
<1>2. CASE Worker
  \* Every step but the two that take and release the mutex leaves it alone,
  \* and none of them is taken when there is no worker.
  <2>1. CASE WorkerLock
    BY <2>1 DEF WorkerLock, WorkerAt
  <2>2. CASE WorkerReset
    BY <2>2 DEF WorkerReset, WorkerAt
  <2>3. CASE WorkerStart
    BY <2>3 DEF WorkerStart, WorkerAt
  <2>4. CASE WorkerReadHigh
    BY <2>4 DEF WorkerReadHigh, WorkerAt
  <2>5. CASE WorkerModel
    <3>1. worker' \in {"data_hi", "hung"} /\ UNCHANGED <<held, main>>
      BY <2>5 DEF WorkerModel
    <3>2. worker = "model"
      BY <2>5 DEF WorkerModel, WorkerAt
    <3> QED BY <3>1, <3>2
  <2>6. CASE WorkerDataHi
    BY <2>6 DEF WorkerDataHi, WorkerAt
  <2>7. CASE WorkerDataLo
    BY <2>7 DEF WorkerDataLo, WorkerAt
  <2>8. CASE WorkerState
    <3>1. worker' \in {"none", "lock"} /\ UNCHANGED <<held, main>>
      BY <2>8 DEF WorkerState
    <3>2. worker = "state"
      BY <2>8 DEF WorkerState, WorkerAt
    <3> QED BY <3>1, <3>2
  <2> QED BY <1>2, <2>1, <2>2, <2>3, <2>4, <2>5, <2>6, <2>7, <2>8 DEF Worker
<1>3. CASE PressLong
  BY <1>3 DEF PressLong
<1>4. CASE DisarmByHost
  BY <1>4 DEF DisarmByHost, MainAt
<1>5. ASSUME NEW w \in WaitTimes, ScheduleByHost(w)
      PROVE  LockInv'
  BY <1>5 DEF ScheduleByHost, MainAt
<1>6. CASE ScheduleAtBoot
  BY <1>6 DEF ScheduleAtBoot
<1>7. CASE Abort
  BY <1>7 DEF Abort, MainAt
<1>8. CASE InitMutex
  BY <1>8 DEF InitMutex, MainAt
<1>9. CASE ClearFlag
  BY <1>9 DEF ClearFlag, MainAt
<1>10. CASE SetUpRegisters
  BY <1>10 DEF SetUpRegisters, SetUp, MainAt
<1>11. CASE SetUpCount
  BY <1>11 DEF SetUpCount, MainAt
<1>12. CASE CreateWorker
  BY <1>12 DEF CreateWorker, MainAt
<1>13. CASE Boot
  <2>1. worker' \in {"none", "start"} /\ main' = "idle" /\ held' = held /\ main = "boot"
    BY <1>13 DEF Boot
  <2> QED BY <2>1
<1>14. CASE PowerFault
  BY <1>14 DEF PowerFault
<1>15. CASE UNCHANGED vars
  BY <1>15 DEF vars
<1> QED
  BY <1>1, <1>2, <1>3, <1>4, <1>5, <1>6, <1>7, <1>8, <1>9, <1>10, <1>11, <1>12,
     <1>13, <1>14, <1>15 DEF Next

\* Whatever the worker was doing when main aborted it, whoever was waiting for
\* the mutex then and whenever power was cut: when main waits for the mutex, the
\* worker holds it and is at its unlock.
THEOREM MainIsNeverStuck == Spec => []MainNeverStuck
  BY LockInit, LockStep, LockImplies, PTL DEF Spec

------------------------------------------------------------------------------
(* Types *)

\* The sizes are numbers, and what a power cut sets to zero is in its range.
LEMMA Widths ==
  /\ HalfMod \in Nat /\ 0 < HalfMod /\ WordMod = HalfMod * HalfMod
  /\ MaxTime \in Nat /\ MaxTime < WordMod
  /\ WaitTimes \subseteq Word /\ DefaultWait \in Word
  /\ 0 \in Half /\ HalfMod - 1 \in Half
  BY SystemAssumption DEF Half

\* Two halves of a register make a word.
LEMMA JoinHalves ==
  ASSUME NEW h \in Half, NEW l \in Half
  PROVE  h * HalfMod + l \in Word
PROOF
<1>1. /\ h \in Nat /\ h <= HalfMod - 1 /\ l \in Nat /\ l <= HalfMod - 1
      /\ HalfMod \in Nat
  BY Widths DEF Half
<1>2. h * HalfMod <= (HalfMod - 1) * HalfMod /\ h * HalfMod \in Nat
  BY <1>1
<1>3. (HalfMod - 1) * HalfMod = HalfMod * HalfMod - HalfMod
  BY <1>1
<1> QED BY <1>1, <1>2, <1>3, Widths DEF Word

\* A word is taken apart into two halves.
LEMMA SplitWord ==
  ASSUME NEW x \in Word PROVE Hi(x) \in Half /\ Lo(x) \in Half
PROOF
<1>1. x \in Nat /\ x < HalfMod * HalfMod /\ HalfMod \in Nat /\ 0 < HalfMod
  BY Widths DEF Word
<1>2. x % HalfMod \in 0 .. HalfMod - 1
  BY <1>1
<1>3. x \div HalfMod \in Nat /\ x \div HalfMod < HalfMod
  <2>1. ASSUME NEW n \in Nat, NEW h \in Nat, 0 < h, n < h * h
        PROVE  n \div h \in Nat /\ n \div h < h
    BY <2>1, SMTT(20)
  <2> QED BY <1>1, <2>1
<1> QED BY <1>1, <1>2, <1>3 DEF Hi, Lo, Half

\* The registers hold words, in two halves each, and the counter is one.
LEMMA RegisterWords ==
  ASSUME TypeOK
  PROVE  /\ backup_data_get \in Word /\ rtc_get_alarm \in Word
         /\ cnt \in Word /\ dr.info \in SUBSET Flags
PROOF
<1>1. cnt \in Word
  BY Widths DEF TypeOK, Word
<1>2. /\ dr.adjHi \in Half /\ dr.adjLo \in Half /\ dr.waitHi \in Half
      /\ dr.waitLo \in Half /\ dr.info \in SUBSET Flags
  BY DEF TypeOK
<1> QED BY <1>1, <1>2, JoinHalves DEF backup_data_get, rtc_get_alarm

\* At power on every variable has its type.
LEMMA SystemTypeInit == Init => TypeOK
PROOF
<1> SUFFICES ASSUME Init PROVE TypeOK
  OBVIOUS
<1>1. {disarm_alarm, held, asked} \subseteq BOOLEAN
  BY Zenon DEF Init
<1>2. io \in IO
  BY StartIOFields, Words DEF Init, A_ALARM_POR_VALUE, Flags
<1>3. A_ALARM_POR_VALUE \in SUBSET Flags
  BY DEF A_ALARM_POR_VALUE, Flags
<1>4. wait_time \in Word /\ target \in Word /\ last \in Word /\ cnt \in 0 .. MaxTime
  BY Widths, Words DEF Init
<1>5. worker \in WorkerSteps /\ main \in MainSteps /\ button \in {"ready", "blocked", "lost"}
  BY DEF Init, WorkerSteps, MainSteps
<1>6. dr \in [info : SUBSET Flags, adjHi : Half, adjLo : Half, waitHi : Half, waitLo : Half]
  BY <1>3, Widths DEF Init
<1>7. high \in Half
  BY Widths DEF Init
<1> QED BY <1>1, <1>2, <1>4, <1>5, <1>6, <1>7 DEF TypeOK

\* Nor does any step of the worker change one, at whatever time it reads the two
\* halves of the RTC.
LEMMA WorkerType == TypeOK /\ Worker => TypeOK'
PROOF
<1> SUFFICES ASSUME TypeOK, Worker PROVE TypeOK'
  OBVIOUS
<1> USE DEF registers
<1>0. {"lock", "reset", "rtc", "model", "data_hi", "data_lo", "state", "hung", "none"}
        \subseteq WorkerSteps
  BY DEF WorkerSteps
<1>1. CASE WorkerStart
  <2>1. wait_time' \in Word /\ io' \in IO
    BY <1>1, RegisterWords, StartIOFields DEF WorkerStart
  <2> QED BY <1>0, <1>1, <2>1 DEF WorkerStart, TypeOK
<1>2. CASE WorkerLock
  <2>1. held' \in BOOLEAN
    BY <1>2, Zenon DEF WorkerLock
  <2> QED BY <1>0, <1>2, <2>1 DEF WorkerLock, TypeOK
<1>3. CASE WorkerReset
  <2>1. disarm_alarm' \in BOOLEAN /\ held' \in BOOLEAN
    BY <1>3, Zenon DEF WorkerReset
  <2>2. io' \in IO
    BY <1>3, OtherFlags DEF WorkerReset, TypeOK
  <2>3. button' \in {"ready", "blocked", "lost"} /\ main' \in MainSteps
    BY <1>3 DEF WorkerReset, TypeOK, MainSteps
  <2> QED BY <1>0, <1>3, <2>1, <2>2, <2>3 DEF WorkerReset, TypeOK
<1>4. CASE WorkerReadHigh
  <2>1. high' \in Half
    BY <1>4, RegisterWords, SplitWord DEF WorkerReadHigh
  <2> QED BY <1>0, <1>4, <2>1 DEF WorkerReadHigh, TypeOK
<1>5. CASE WorkerModel
  <2>1. last' \in Word /\ io' \in IO
    <3>1. high * HalfMod + Lo(cnt) \in Word
      BY RegisterWords, SplitWord, JoinHalves DEF TypeOK
    <3>2. last' = high * HalfMod + Lo(cnt)
      BY <1>5 DEF WorkerModel
    <3>3. io' = do_alarm_model(last', io, wait_time)
      BY <1>5, <3>2 DEF WorkerModel
    <3> QED BY <3>1, <3>2, <3>3, CallBlock DEF TypeOK
  <2>2. worker' \in WorkerSteps
    BY <1>0, <1>5 DEF WorkerModel
  <2> QED BY <1>5, <2>1, <2>2 DEF WorkerModel, TypeOK
<1>6. CASE WorkerDataHi \/ WorkerDataLo
  <2>1. Hi(io.adj) \in Half /\ Lo(io.adj) \in Half
    BY SplitWord DEF TypeOK, IO
  <2>2. /\ worker' \in WorkerSteps
        /\ \/ dr' = [dr EXCEPT !.adjHi = Hi(io.adj)]
           \/ dr' = [dr EXCEPT !.adjLo = Lo(io.adj)]
        /\ UNCHANGED <<cnt, wait_time, disarm_alarm, held, io, high, main, target,
                       button, asked, last>>
    BY <1>0, <1>6 DEF WorkerDataHi, WorkerDataLo
  <2> QED BY <2>1, <2>2 DEF TypeOK
<1>7. CASE WorkerState
  <2>1. io.info \in SUBSET Flags
    BY DEF TypeOK, IO
  <2>2. worker' \in WorkerSteps /\ dr' = [dr EXCEPT !.info = io.info]
    BY <1>0, <1>7 DEF WorkerState
  <2> QED BY <1>7, <2>1, <2>2 DEF WorkerState, TypeOK
<1> QED BY <1>1, <1>2, <1>3, <1>4, <1>5, <1>6, <1>7 DEF Worker

\* Requests, new alarms, boots and power cuts leave every variable its type.
LEMMA SystemTypeStep == TypeOK /\ [Next]_vars => TypeOK'
PROOF
<1> SUFFICES ASSUME TypeOK, [Next]_vars PROVE TypeOK'
  OBVIOUS
<1> USE DEF registers
<1>0. MainSteps = {"boot", "idle", "waiting", "abort", "mutex", "flag", "data_hi",
                   "data_lo", "state", "wait_hi", "wait_lo", "count", "create"}
  BY DEF MainSteps, Setup
<1>1. CASE Tick
  BY <1>1, Widths DEF Tick, TypeOK
<1>2. CASE Worker
  BY <1>2, WorkerType
<1>3. CASE PressLong
  <2>1. disarm_alarm' \in BOOLEAN /\ asked' \in BOOLEAN
    <3>1. disarm_alarm \in BOOLEAN
      BY DEF TypeOK
    <3> QED BY <1>3, <3>1, Zenon DEF PressLong
  <2>2. button' \in {"ready", "blocked", "lost"}
    BY <1>3 DEF PressLong, TypeOK
  <2> QED BY <1>3, <2>1, <2>2 DEF PressLong, TypeOK
<1>4. CASE DisarmByHost
  <2>1. disarm_alarm' \in BOOLEAN /\ asked' \in BOOLEAN
    <3>1. disarm_alarm \in BOOLEAN
      BY DEF TypeOK
    <3> QED BY <1>4, <3>1, Zenon DEF DisarmByHost
  <2>2. main' \in MainSteps
    BY <1>0, <1>4 DEF DisarmByHost, TypeOK
  <2> QED BY <1>4, <2>1, <2>2 DEF DisarmByHost, TypeOK
<1>5. ASSUME NEW w \in WaitTimes, ScheduleByHost(w)
      PROVE  TypeOK'
  BY <1>0, <1>5, Widths DEF ScheduleByHost, TypeOK
<1>6. CASE ScheduleAtBoot
  <2>1. asked' \in BOOLEAN
    BY <1>6, Zenon DEF ScheduleAtBoot
  <2> QED BY <1>0, <1>6, <2>1, Widths, Words DEF ScheduleAtBoot, TypeOK
<1>7. CASE Abort
  <2>1. asked' \in BOOLEAN
    BY <1>7, Zenon DEF Abort
  <2> QED BY <1>0, <1>7, <2>1, Words DEF Abort, TypeOK, WorkerSteps
<1>8. CASE InitMutex
  <2>1. held' \in BOOLEAN
    BY <1>8, Zenon DEF InitMutex
  <2> QED BY <1>0, <1>8, <2>1 DEF InitMutex, TypeOK
<1>9. CASE ClearFlag
  <2>1. disarm_alarm' \in BOOLEAN
    BY <1>9, Zenon DEF ClearFlag
  <2> QED BY <1>0, <1>9, <2>1 DEF ClearFlag, TypeOK
<1>10. CASE SetUpRegisters
  <2>1. Hi(wait_time) \in Half /\ Lo(wait_time) \in Half /\ 0 \in Half
    BY SplitWord, Widths DEF TypeOK
  <2>2. /\ \/ dr' = [dr EXCEPT !.adjHi = 0] \/ dr' = [dr EXCEPT !.adjLo = 0]
           \/ dr' = [dr EXCEPT !.info = {}]
           \/ dr' = [dr EXCEPT !.waitHi = Hi(wait_time)]
           \/ dr' = [dr EXCEPT !.waitLo = Lo(wait_time)]
        /\ main' \in MainSteps
        /\ UNCHANGED <<cnt, wait_time, disarm_alarm, held, worker, io, high, target,
                       button, asked, last>>
    BY <1>0, <1>10 DEF SetUpRegisters, SetUp, A_ALARM_NEW
  <2>3. dr' \in [info : SUBSET Flags, adjHi : Half, adjLo : Half, waitHi : Half,
                 waitLo : Half]
    BY <2>1, <2>2 DEF TypeOK
  <2> QED BY <2>2, <2>3 DEF TypeOK
<1>11. CASE SetUpCount
  BY <1>0, <1>11, Widths DEF SetUpCount, TypeOK
<1>12. CASE CreateWorker
  BY <1>0, <1>12 DEF CreateWorker, TypeOK, WorkerSteps
<1>13. CASE Boot
  BY <1>0, <1>13 DEF Boot, TypeOK, WorkerSteps
<1>14. CASE PowerFault
  <2>1. disarm_alarm' \in BOOLEAN /\ held' \in BOOLEAN
    BY <1>14, Zenon DEF PowerFault
  <2>2. io' \in IO
    BY <1>14, RegisterWords, StartIOFields DEF PowerFault
  <2>3. wait_time' \in Word /\ target' \in Word /\ high' \in Half
    BY <1>14, Widths, Words DEF PowerFault
  <2> QED BY <1>0, <1>14, <2>1, <2>2, <2>3 DEF PowerFault, TypeOK, WorkerSteps
<1>15. CASE UNCHANGED vars
  BY <1>15 DEF vars, TypeOK
<1> QED
  BY <1>1, <1>2, <1>3, <1>4, <1>5, <1>6, <1>7, <1>8, <1>9, <1>10, <1>11, <1>12,
     <1>13, <1>14, <1>15 DEF Next

\* Wherever power is cut and whenever the RTC is read, every register keeps to
\* its 16 bits and what is put together from two of them to a uint32_t.
THEOREM TypeCorrect == Spec => []TypeOK
  BY SystemTypeInit, SystemTypeStep, PTL DEF Spec

------------------------------------------------------------------------------
(* Whose request it was *)

\* The flags that only a request can bring about.
Disarms(info) == info \ {"FINISHED"}

\* A request and everything it leads to, in the flag, in the worker's block, in
\* the registers and in the threads that wait to make one, has been asked for.
\* From the abort until the flag is cleared there may be one that was meant for
\* the alarm before, but no worker; when the new alarm's state is written the
\* registers are rid of it, too, and nothing disarms it until it runs.
AskInv ==
  /\ TypeOK
  /\ LockInv
  /\ disarm_alarm /\ main \notin {"mutex", "flag"} => asked
  /\ button = "blocked" => main \notin Setup \ {"mutex"}
  /\ button = "blocked" /\ main # "mutex" => asked
  /\ main = "waiting" => asked
  /\ main \notin Setup /\ worker \notin {"none", "start"} /\ Disarms(io.info) # {} => asked
  /\ main \notin Setup /\ Disarms(dr.info) # {} => asked
  /\ main \in {"wait_hi", "wait_lo", "count", "create"} => Disarms(dr.info) = {}

\* The fields of the io block and of the registers that the steps replace.
LEMMA Fields ==
  ASSUME TypeOK
  PROVE  /\ set_disarm_new(io).info = io.info \cup {"NEW"}
         /\ \A v : [dr EXCEPT !.adjHi = v].info = dr.info
         /\ \A v : [dr EXCEPT !.adjLo = v].info = dr.info
         /\ \A v : [dr EXCEPT !.waitHi = v].info = dr.info
         /\ \A v : [dr EXCEPT !.waitLo = v].info = dr.info
         /\ \A v : [dr EXCEPT !.info = v].info = v
  BY DEF TypeOK, IO, set_disarm_new

\* At power on nobody has asked, and nothing is disarmed.
LEMMA AskInit == Init => AskInv
PROOF
<1> SUFFICES ASSUME Init PROVE AskInv
  OBVIOUS
<1>1. Disarms(dr.info) = {}
  BY DEF Init, Disarms, A_ALARM_POR_VALUE
<1>2. TypeOK /\ LockInv
  BY SystemTypeInit, LockInit
<1> QED BY <1>1, <1>2 DEF Init, AskInv, Setup

\* The worker takes a request over from the flag and writes it down, and makes
\* up none.
LEMMA AskWorker == AskInv /\ TypeOK' /\ LockInv' /\ Worker => AskInv'
PROOF
<1> SUFFICES ASSUME AskInv, TypeOK', LockInv', Worker PROVE AskInv'
  OBVIOUS
<1> USE DEF AskInv, registers
<1>0. main \notin Setup /\ main # "boot"
  <2>1. worker # "none"
    BY DEF Worker, WorkerStart, WorkerLock, WorkerReset, WorkerReadHigh, WorkerModel,
           WorkerDataHi, WorkerDataLo, WorkerState, WorkerAt
  <2> QED BY <2>1 DEF LockInv
<1>1. CASE WorkerStart
  <2>1. io'.info = dr.info
    BY <1>1, RegisterWords, StartIOFields DEF WorkerStart
  <2> QED BY <1>0, <1>1, <2>1 DEF WorkerStart, Setup
<1>2. CASE WorkerLock
  BY <1>0, <1>2 DEF WorkerLock, WorkerAt, Setup
<1>3. CASE WorkerReset
  <2>1. worker = "reset"
    BY <1>3 DEF WorkerReset, WorkerAt
  <2>2. Disarms(io'.info) # {} => asked
    <3>1. CASE disarm_alarm
      BY <1>0, <3>1 DEF Setup
    <3>2. CASE ~disarm_alarm
      BY <1>0, <1>3, <2>1, <3>2 DEF WorkerReset
    <3> QED BY <3>1, <3>2
  <2>3. disarm_alarm' => asked
    BY <1>0, <1>3 DEF WorkerReset, Setup
  <2>4. /\ UNCHANGED <<dr, asked>>
        /\ button' = IF button = "blocked" THEN "ready" ELSE button
        /\ main' = IF main = "waiting" THEN "idle" ELSE main
    BY <1>3 DEF WorkerReset
  <2>5. main' \notin Setup /\ main' # "waiting" /\ button' # "blocked"
    BY <1>0, <2>4 DEF Setup
  <2> QED BY <1>0, <2>2, <2>3, <2>4, <2>5 DEF Setup
<1>4. CASE WorkerReadHigh
  BY <1>0, <1>4 DEF WorkerReadHigh, WorkerAt, Setup
<1>5. CASE WorkerModel
  <2>1. high * HalfMod + Lo(cnt) \in Word
    BY RegisterWords, SplitWord, JoinHalves DEF TypeOK
  <2>2. Disarms(io'.info) # {} => Disarms(io.info) # {}
    <3>1. io' = do_alarm_model(high * HalfMod + Lo(cnt), io, wait_time)
      BY <1>5 DEF WorkerModel
    <3>2. io.info \subseteq {"FINISHED"} => io'.info \subseteq {"FINISHED"}
      BY <2>1, <3>1, CallBlock DEF TypeOK
    <3> QED BY <3>2 DEF Disarms
  <2>3. /\ worker = "model" /\ UNCHANGED <<dr, main, disarm_alarm, button, asked>>
    BY <1>5 DEF WorkerModel, WorkerAt
  <2> QED BY <1>0, <2>2, <2>3
<1>6. CASE WorkerDataHi \/ WorkerDataLo
  <2>1. dr'.info = dr.info
    BY <1>6, Fields DEF WorkerDataHi, WorkerDataLo
  <2>2. /\ worker \in {"data_hi", "data_lo"}
        /\ UNCHANGED <<io, main, disarm_alarm, button, asked>>
    BY <1>6 DEF WorkerDataHi, WorkerDataLo, WorkerAt
  <2> QED BY <1>0, <2>1, <2>2
<1>7. CASE WorkerState
  <2>1. dr'.info = io.info
    BY <1>7, Fields DEF WorkerState
  <2>2. worker = "state" /\ UNCHANGED <<io, main, disarm_alarm, button, asked>>
    BY <1>7 DEF WorkerState, WorkerAt
  <2> QED BY <1>0, <2>1, <2>2 DEF Setup
<1> QED BY <1>1, <1>2, <1>3, <1>4, <1>5, <1>6, <1>7 DEF Worker

\* Every step keeps the invariant, if power is not cut while an alarm is being
\* replaced by another.
LEMMA AskStep == ASSUME ~FaultInWindow PROVE AskInv /\ [Next]_vars => AskInv'
PROOF
<1> SUFFICES ASSUME AskInv, [Next]_vars PROVE AskInv'
  OBVIOUS
<1>0. TypeOK' /\ LockInv'
  BY SystemTypeStep, LockStep DEF AskInv
<1>2. CASE Worker
  BY <1>0, <1>2, AskWorker
<1> USE DEF AskInv, registers, Setup
<1>1. CASE Tick
  BY <1>0, <1>1 DEF Tick
<1>3. CASE PressLong
  <2>1. asked' /\ main' = main /\ dr' = dr
    BY <1>3 DEF PressLong
  <2>2. button' = "blocked" => main \notin Setup \ {"mutex"}
    BY <1>3 DEF PressLong, LockInv
  <2>3. main' \in {"wait_hi", "wait_lo", "count", "create"} => Disarms(dr'.info) = {}
    BY <2>1
  <2> QED BY <1>0, <2>1, <2>2, <2>3
<1>4. CASE DisarmByHost
  <2>1. /\ asked' /\ main' \in {"idle", "waiting"} /\ UNCHANGED <<dr, button>>
    BY <1>4 DEF DisarmByHost, MainAt
  <2> QED BY <1>0, <2>1
<1>5. ASSUME NEW w \in WaitTimes, ScheduleByHost(w)
      PROVE  AskInv'
  BY <1>0, <1>5 DEF ScheduleByHost, MainAt
<1>6. CASE ScheduleAtBoot
  BY <1>0, <1>6 DEF ScheduleAtBoot
<1>7. CASE Abort
  BY <1>0, <1>7 DEF Abort, MainAt
<1>8. CASE InitMutex
  BY <1>0, <1>8 DEF InitMutex, MainAt
<1>9. CASE ClearFlag
  BY <1>0, <1>9 DEF ClearFlag, MainAt
<1>10. CASE SetUpRegisters
  <2>1. /\ main \in {"data_hi", "data_lo", "state", "wait_hi", "wait_lo"}
        /\ main' \in {"data_lo", "state", "wait_hi", "wait_lo", "count"}
        /\ UNCHANGED <<disarm_alarm, worker, io, button, asked>>
    BY <1>10 DEF SetUpRegisters, SetUp, MainAt
  <2>2. main' \in {"wait_hi", "wait_lo", "count"} => Disarms(dr'.info) = {}
    <3>1. CASE main = "state"
      <4>1. dr' = [dr EXCEPT !.info = {}]
        BY <1>10, <3>1 DEF SetUpRegisters, SetUp, MainAt, A_ALARM_NEW
      <4> QED BY <4>1, Fields DEF Disarms
    <3>2. CASE main \in {"wait_hi", "wait_lo"}
      <4>1. dr'.info = dr.info
        BY <1>10, <3>2, Fields DEF SetUpRegisters, SetUp, MainAt
      <4> QED BY <3>2, <4>1
    <3>3. CASE main \in {"data_hi", "data_lo"}
      BY <1>10, <3>3 DEF SetUpRegisters, SetUp, MainAt
    <3> QED BY <2>1, <3>1, <3>2, <3>3
  <2> QED BY <1>0, <2>1, <2>2
<1>11. CASE SetUpCount
  BY <1>0, <1>11 DEF SetUpCount, MainAt
<1>12. CASE CreateWorker
  BY <1>0, <1>12 DEF CreateWorker, MainAt
<1>13. CASE Boot
  BY <1>0, <1>13 DEF Boot, LockInv
<1>14. CASE PowerFault
  <2>1. main \notin Setup \ {"create"}
    BY <1>14 DEF PowerFault, InWindow
  <2>2. /\ main' = "boot" /\ worker' = "none" /\ button' = "ready" /\ disarm_alarm' = FALSE
        /\ UNCHANGED <<dr, asked>>
    BY <1>14 DEF PowerFault
  <2> QED BY <1>0, <2>1, <2>2
<1>15. CASE UNCHANGED vars
  BY <1>0, <1>15 DEF vars
<1> QED
  BY <1>1, <1>2, <1>3, <1>4, <1>5, <1>6, <1>7, <1>8, <1>9, <1>10, <1>11, <1>12,
     <1>13, <1>14, <1>15 DEF Next

\* No alarm is disarmed by a press or a command that was meant for the alarm
\* before it: whatever was on its way when main dropped the worker is stopped
\* at the flag, if power is not cut during the set-up itself.
THEOREM DisarmsAreAskedFor == ASSUME ~FaultInWindow PROVE Spec => []DisarmWasAsked
PROOF
<1>1. AskInv => DisarmWasAsked
  BY DEF AskInv, DisarmWasAsked, Disarms
<1>2. AskInv /\ [Next]_vars => AskInv'
  BY AskStep
<1> QED BY <1>1, <1>2, AskInit, PTL DEF Spec

------------------------------------------------------------------------------
(* Registers, set-up and worker *)

\* The operators of the model that AlarmCore is instantiated with are these.
LEMMA SameModel ==
  /\ \A info, adj : Core!StartIO(info, adj) = StartIO(info, adj)
  /\ \A b : Core!set_disarm_new(b) = set_disarm_new(b)
  /\ \A b : Core!alarm_finished(b) = alarm_finished(b)
  /\ Core!A_ALARM_NEW = A_ALARM_NEW /\ Core!A_ALARM_POR_VALUE = A_ALARM_POR_VALUE
  /\ \A t, b, w : Core!do_alarm_model(t, b, w) = do_alarm_model(t, b, w)
PROOF
<1>1. \A a, b : Core!Sub(a, b) = Sub(a, b)
  BY DEF Core!Sub, Sub
<1>2. \A b, n, h : Core!dynamic_assert(b, n, h) = dynamic_assert(b, n, h)
  BY DEF Core!dynamic_assert, dynamic_assert
<1>3. \A b, l : Core!set_const_brightness(b, l) = set_const_brightness(b, l)
  BY DEF Core!set_const_brightness, set_const_brightness
<1>4. \A b, p, c, f, l : Core!SetRamp(b, p, c, f, l) = SetRamp(b, p, c, f, l)
  BY DEF Core!SetRamp, SetRamp
<1>5. \A b : Core!DarkAndFinished(b) = DarkAndFinished(b)
  BY <1>3 DEF Core!DarkAndFinished, DarkAndFinished, Core!set_alarm_finished, set_alarm_finished
<1>6. \A b : Core!ClearNew(b) = ClearNew(b)
  BY DEF Core!ClearNew, ClearNew
<1>7. \A b : Core!alarm_finished(b) = alarm_finished(b)
  BY DEF Core!alarm_finished, alarm_finished
<1>8. \A b : Core!do_alarm_finished(b) = do_alarm_finished(b)
  BY <1>3, <1>6 DEF Core!do_alarm_finished, do_alarm_finished
<1>9. \A a, b : Core!disarm_adjust_secondary(a, b) = disarm_adjust_secondary(a, b)
  BY <1>2 DEF Core!disarm_adjust_secondary, disarm_adjust_secondary
<1>10. \A a, b : Core!disarm_adjust_primary(a, b) = disarm_adjust_primary(a, b)
  BY <1>2 DEF Core!disarm_adjust_primary, disarm_adjust_primary
<1>11. \A b : Core!disarm_adjust_pre_cancel(b) = disarm_adjust_pre_cancel(b)
  BY <1>2 DEF Core!disarm_adjust_pre_cancel, disarm_adjust_pre_cancel
<1>12. \A t, b : Core!SecondDisarm(t, b) = SecondDisarm(t, b)
  BY <1>1, <1>9 DEF Core!SecondDisarm, SecondDisarm
<1>13. \A t, b, w : Core!FirstDisarm(t, b, w) = FirstDisarm(t, b, w)
  BY <1>1, <1>9, <1>10, <1>11 DEF Core!FirstDisarm, FirstDisarm
<1>14. \A t, b, w : Core!process_new_disarm(t, b, w) = process_new_disarm(t, b, w)
  BY <1>6, <1>12, <1>13 DEF Core!process_new_disarm, process_new_disarm
<1>15. \A t, b : Core!do_alarm_model_disarmed_late(t, b) = do_alarm_model_disarmed_late(t, b)
  BY <1>1, <1>2, <1>4, <1>5
     DEF Core!do_alarm_model_disarmed_late, do_alarm_model_disarmed_late
<1>16. \A t, b : Core!do_alarm_model_disarmed_early(t, b) = do_alarm_model_disarmed_early(t, b)
  BY <1>1, <1>2, <1>3, <1>4, <1>5
     DEF Core!do_alarm_model_disarmed_early, do_alarm_model_disarmed_early
<1>17. \A b : Core!do_alarm_model_disarmed_pre_cancel(b) = do_alarm_model_disarmed_pre_cancel(b)
  BY <1>5 DEF Core!do_alarm_model_disarmed_pre_cancel, do_alarm_model_disarmed_pre_cancel
<1>18. \A t, b, w : Core!do_alarm_model_direct(t, b, w) = do_alarm_model_direct(t, b, w)
  BY <1>1, <1>3, <1>4, <1>5 DEF Core!do_alarm_model_direct, do_alarm_model_direct
<1>19. \A t, b, w : Core!ModelByFlags(t, b, w) = ModelByFlags(t, b, w)
  BY <1>15, <1>16, <1>17, <1>18
     DEF Core!ModelByFlags, ModelByFlags, Core!no_disarm_pending, no_disarm_pending
<1>20. \A t, b, w : Core!do_alarm_model(t, b, w) = do_alarm_model(t, b, w)
  BY <1>7, <1>8, <1>14, <1>19 DEF Core!do_alarm_model, do_alarm_model
<1>21. \A b : Core!set_disarm_new(b) = set_disarm_new(b)
  BY DEF Core!set_disarm_new, set_disarm_new
<1>22. \A info, adj : Core!StartIO(info, adj) = StartIO(info, adj)
  BY DEF Core!StartIO, StartIO, Core!NoLight, NoLight
<1>23. Core!A_ALARM_NEW = A_ALARM_NEW /\ Core!A_ALARM_POR_VALUE = A_ALARM_POR_VALUE
  BY DEF Core!A_ALARM_NEW, Core!A_ALARM_POR_VALUE, A_ALARM_NEW, A_ALARM_POR_VALUE
<1> QED BY <1>7, <1>20, <1>21, <1>22, <1>23

\* The two halves of a word make it up again.
LEMMA HalvesMakeWord ==
  ASSUME NEW x \in Word PROVE Hi(x) * HalfMod + Lo(x) = x
PROOF
<1>1. x \in Nat /\ HalfMod \in Nat /\ 0 < HalfMod
  BY Widths DEF Word
<1>2. ASSUME NEW n \in Nat, NEW h \in Nat, 0 < h
      PROVE  n - h * (n \div h) = n % h
  BY <1>2, SMTT(20)
<1>3. Hi(x) \in Nat /\ Lo(x) \in Nat
  BY SplitWord, Widths DEF Half
<1>4. x - HalfMod * Hi(x) = Lo(x)
  BY <1>1, <1>2 DEF Hi, Lo
<1> QED BY <1>1, <1>3, <1>4

\* What has to hold of main, worker and registers so that every step of theirs is
\* one of AlarmCore: what the registers and the worker's variables have to do with
\* each other, and which of its registers a set-up has written so far.
RegistersFollow ==
  /\ "NEW" \notin dr.info
  /\ worker \in {"lock", "reset", "data_hi", "data_lo", "state"} => "NEW" \notin io.info
  /\ worker \notin {"none", "start"} => wait_time = rtc_get_alarm
  /\ worker \in {"data_lo", "state"} => dr.adjHi = Hi(io.adj)
  /\ worker = "state" => dr.adjLo = Lo(io.adj)

SetUpSoFar ==
  /\ main \in Setup \cup {"abort"} => target \in WaitTimes
  /\ main \in Setup \ {"mutex", "flag"} => wait_time = target
  /\ main \in Setup \ {"mutex", "flag", "data_hi"} => dr.adjHi = 0
  /\ main \in Setup \ {"mutex", "flag", "data_hi", "data_lo"} => dr.adjLo = 0
  /\ main \in {"wait_hi", "wait_lo", "count", "create"} => dr.info = A_ALARM_NEW
  /\ main \in {"wait_lo", "count", "create"} => dr.waitHi = Hi(wait_time)
  /\ main \in {"count", "create"} => dr.waitLo = Lo(wait_time)

\* These do not depend on how the registers got their first contents.
SysInv == TypeOK /\ LockInv /\ RegistersFollow /\ SetUpSoFar

\* The block of a worker that is not there yet.
RefInv == /\ SysInv
          /\ main = "boot" => io = StartIO(dr.info, backup_data_get)

\* The registers after one of them has been written.
LEMMA RegisterWritten ==
  ASSUME TypeOK, NEW v
  PROVE  /\ \A f \in {"adjLo", "waitHi", "waitLo", "info"} : [dr EXCEPT !.adjHi = v][f] = dr[f]
         /\ \A f \in {"adjHi", "waitHi", "waitLo", "info"} : [dr EXCEPT !.adjLo = v][f] = dr[f]
         /\ \A f \in {"adjHi", "adjLo", "waitLo", "info"} : [dr EXCEPT !.waitHi = v][f] = dr[f]
         /\ \A f \in {"adjHi", "adjLo", "waitHi", "info"} : [dr EXCEPT !.waitLo = v][f] = dr[f]
         /\ \A f \in {"adjHi", "adjLo", "waitHi", "waitLo"} : [dr EXCEPT !.info = v][f] = dr[f]
         /\ [dr EXCEPT !.adjHi = v].adjHi = v /\ [dr EXCEPT !.adjLo = v].adjLo = v
         /\ [dr EXCEPT !.waitHi = v].waitHi = v /\ [dr EXCEPT !.waitLo = v].waitLo = v
         /\ [dr EXCEPT !.info = v].info = v
  BY DEF TypeOK

\* It holds at the first power on after backup_domain_init.
LEMMA RefInit == Init => RefInv
PROOF
<1> SUFFICES ASSUME Init PROVE RefInv
  OBVIOUS
<1>1. TypeOK /\ LockInv
  BY SystemTypeInit, LockInit
<1>2. backup_data_get = 0
  BY Widths DEF Init, backup_data_get
<1>3. RegistersFollow
  BY <1>2 DEF Init, RegistersFollow, A_ALARM_POR_VALUE
<1>4. SetUpSoFar
  BY DEF Init, SetUpSoFar, Setup
<1> QED BY <1>1, <1>2, <1>3, <1>4 DEF RefInv, SysInv, Init

\* A worker only runs when no alarm is being set up.
LEMMA WorkerRuns ==
  ASSUME LockInv, Worker
  PROVE  main \notin Setup \cup {"boot"} /\ worker # "none"
PROOF
<1>1. worker # "none"
  BY DEF Worker, WorkerStart, WorkerLock, WorkerReset, WorkerReadHigh, WorkerModel,
         WorkerDataHi, WorkerDataLo, WorkerState, WorkerAt
<1> QED BY <1>1 DEF LockInv

\* The time a worker reads is a word, torn or not.
LEMMA TimeRead == TypeOK => high * HalfMod + Lo(cnt) \in Word
  BY RegisterWords, SplitWord, JoinHalves DEF TypeOK

\* The worker reads the registers into its block and writes them back from there, in order.
LEMMA RegistersFollowWorker == SysInv /\ Worker => RegistersFollow'
PROOF
<1> SUFFICES ASSUME SysInv, Worker PROVE RegistersFollow'
  OBVIOUS
<1> USE DEF registers
<1>0. /\ main \notin Setup \cup {"boot"} /\ worker # "none"
      /\ TypeOK /\ RegistersFollow /\ io \in IO
      /\ main \notin {"boot", "mutex"}
  BY WorkerRuns DEF SysInv, TypeOK, Setup
<1>1. CASE WorkerStart
  <2>1. /\ wait_time' = rtc_get_alarm /\ worker' = "lock" /\ UNCHANGED <<dr, main>>
        /\ io' = StartIO(dr.info, backup_data_get)
    BY <1>1 DEF WorkerStart
  <2>2. io'.info = dr.info
    BY <1>0, <2>1, RegisterWords, StartIOFields
  <2> QED BY <1>0, <2>1, <2>2 DEF RegistersFollow, rtc_get_alarm
<1>2. CASE WorkerLock
  <2>1. worker = "lock" /\ worker' = "reset" /\ UNCHANGED <<dr, main, io, wait_time>>
    BY <1>2 DEF WorkerLock, WorkerAt
  <2> QED BY <1>0, <2>1 DEF RegistersFollow, rtc_get_alarm
<1>3. CASE WorkerReset
  <2>1. /\ worker = "reset" /\ worker' = "rtc" /\ UNCHANGED <<dr, wait_time>>
        /\ main' \in {main, "idle"}
    BY <1>3 DEF WorkerReset, WorkerAt
  <2> QED BY <1>0, <2>1 DEF RegistersFollow, rtc_get_alarm
<1>4. CASE WorkerReadHigh
  <2>1. worker = "rtc" /\ worker' = "model" /\ UNCHANGED <<dr, main, io, wait_time>>
    BY <1>4 DEF WorkerReadHigh, WorkerAt
  <2> QED BY <1>0, <2>1 DEF RegistersFollow, rtc_get_alarm
<1>5. CASE WorkerModel
  <2>1. /\ worker = "model" /\ worker' \in {"data_hi", "hung"}
        /\ UNCHANGED <<dr, main, wait_time>>
        /\ io' = do_alarm_model(high * HalfMod + Lo(cnt), io, wait_time)
    BY <1>5 DEF WorkerModel, WorkerAt
  <2>2. "NEW" \notin io'.info
    BY <1>0, <2>1, TimeRead, CallBlock DEF TypeOK
  <2> QED BY <1>0, <2>1, <2>2 DEF RegistersFollow, rtc_get_alarm
<1>6. CASE WorkerDataHi
  <2>1. /\ worker = "data_hi" /\ worker' = "data_lo" /\ UNCHANGED <<main, io, wait_time>>
        /\ dr' = [dr EXCEPT !.adjHi = Hi(io.adj)]
    BY <1>6 DEF WorkerDataHi, WorkerAt
  <2>2. /\ dr'.adjHi = Hi(io.adj) /\ dr'.info = dr.info
        /\ dr'.waitHi = dr.waitHi /\ dr'.waitLo = dr.waitLo
    BY <1>0, <2>1, RegisterWritten
  <2> QED BY <1>0, <2>1, <2>2 DEF RegistersFollow, rtc_get_alarm
<1>7. CASE WorkerDataLo
  <2>1. /\ worker = "data_lo" /\ worker' = "state" /\ UNCHANGED <<main, io, wait_time>>
        /\ dr' = [dr EXCEPT !.adjLo = Lo(io.adj)]
    BY <1>7 DEF WorkerDataLo, WorkerAt
  <2>2. /\ dr'.adjLo = Lo(io.adj) /\ dr'.info = dr.info /\ dr'.adjHi = dr.adjHi
        /\ dr'.waitHi = dr.waitHi /\ dr'.waitLo = dr.waitLo
    BY <1>0, <2>1, RegisterWritten
  <2> QED BY <1>0, <2>1, <2>2 DEF RegistersFollow, rtc_get_alarm
<1>8. CASE WorkerState
  <2>1. /\ worker = "state" /\ worker' \in {"none", "lock"} /\ UNCHANGED <<main, io, wait_time>>
        /\ dr' = [dr EXCEPT !.info = io.info]
    BY <1>8 DEF WorkerState, WorkerAt
  <2>2. dr'.info = io.info /\ dr'.waitHi = dr.waitHi /\ dr'.waitLo = dr.waitLo
    BY <1>0, <2>1, RegisterWritten
  <2> QED BY <1>0, <2>1, <2>2 DEF RegistersFollow, rtc_get_alarm
<1> QED BY <1>1, <1>2, <1>3, <1>4, <1>5, <1>6, <1>7, <1>8 DEF Worker

\* Nothing else writes to the registers while there is a worker.
LEMMA RegistersFollowStep == SysInv /\ [Next]_vars => RegistersFollow'
PROOF
<1> SUFFICES ASSUME SysInv, [Next]_vars PROVE RegistersFollow'
  OBVIOUS
<1> USE DEF registers
<1>0. /\ TypeOK /\ RegistersFollow /\ io \in IO
      /\ main \in Setup \cup {"boot"} => worker = "none"
  BY DEF SysInv, TypeOK, LockInv
<1>1. CASE Worker
  BY <1>1, RegistersFollowWorker
<1>2. CASE \/ Tick \/ PressLong \/ DisarmByHost \/ ScheduleAtBoot \/ InitMutex
           \/ SetUpCount \/ \E w \in WaitTimes : ScheduleByHost(w)
  <2>1. UNCHANGED <<dr, wait_time, worker, io>>
    BY <1>2 DEF Tick, PressLong, DisarmByHost, ScheduleAtBoot, InitMutex, SetUpCount,
                ScheduleByHost
  <2> QED BY <1>0, <2>1 DEF RegistersFollow, rtc_get_alarm, backup_data_get
<1>3. CASE Abort \/ CreateWorker \/ Boot
  <2>1. /\ UNCHANGED <<dr, io>> /\ worker' \in {"none", "start"} /\ main' # "boot"
    BY <1>3 DEF Abort, CreateWorker, Boot
  <2> QED BY <1>0, <2>1 DEF RegistersFollow
<1>4. CASE ClearFlag
  <2>1. UNCHANGED <<dr, io, worker>> /\ main = "flag" /\ main' = "data_hi"
    BY <1>4 DEF ClearFlag, MainAt
  <2>2. worker' = "none"
    BY <1>0, <2>1 DEF Setup
  <2> QED BY <1>0, <2>1, <2>2 DEF RegistersFollow
<1>5. CASE SetUpRegisters
  <2>1. /\ main \in {"data_hi", "data_lo", "state", "wait_hi", "wait_lo"} /\ main' # "boot"
        /\ UNCHANGED <<io, worker>>
        /\ \/ dr' = [dr EXCEPT !.adjHi = 0] \/ dr' = [dr EXCEPT !.adjLo = 0]
           \/ dr' = [dr EXCEPT !.info = {}]
           \/ dr' = [dr EXCEPT !.waitHi = Hi(wait_time)]
           \/ dr' = [dr EXCEPT !.waitLo = Lo(wait_time)]
    BY <1>5 DEF SetUpRegisters, SetUp, MainAt, A_ALARM_NEW
  <2>2. worker' = "none"
    BY <1>0, <2>1 DEF Setup
  <2>3. dr'.info \in {dr.info, {}}
    BY <1>0, <2>1, Fields
  <2> QED BY <1>0, <2>1, <2>2, <2>3 DEF RegistersFollow
<1>6. CASE PowerFault
  <2>1. /\ UNCHANGED dr /\ worker' = "none" /\ main' = "boot"
        /\ io' = StartIO(dr.info, backup_data_get)
    BY <1>6 DEF PowerFault
  <2> QED BY <1>0, <2>1 DEF RegistersFollow, backup_data_get
<1>7. CASE UNCHANGED vars
  BY <1>0, <1>7 DEF vars, RegistersFollow, rtc_get_alarm, backup_data_get
<1> QED BY <1>1, <1>2, <1>3, <1>4, <1>5, <1>6, <1>7 DEF Next

\* alarm_init_new_new writes one register after the other, and nobody else writes then.
LEMMA SetUpStep == SysInv /\ [Next]_vars => SetUpSoFar'
PROOF
<1> SUFFICES ASSUME SysInv, [Next]_vars PROVE SetUpSoFar'
  OBVIOUS
<1> USE DEF registers, Setup
<1>0. TypeOK /\ SetUpSoFar
  BY DEF SysInv
<1>1. CASE Worker
  <2>1. main' \in {main, "idle"} /\ main \notin Setup /\ UNCHANGED target
    BY <1>1, WorkerRuns DEF SysInv, Worker, WorkerStart, WorkerLock, WorkerReset, WorkerReadHigh,
           WorkerModel, WorkerDataHi, WorkerDataLo, WorkerState
  <2> QED BY <1>0, <2>1 DEF SetUpSoFar
<1>2. CASE Tick \/ PressLong
  <2>1. UNCHANGED <<dr, wait_time, main, target>>
    BY <1>2 DEF Tick, PressLong
  <2> QED BY <1>0, <2>1 DEF SetUpSoFar
<1>3. CASE DisarmByHost \/ Boot \/ PowerFault \/ CreateWorker
  <2>1. main' \in {"idle", "waiting", "boot"}
    BY <1>3 DEF DisarmByHost, Boot, PowerFault, CreateWorker, MainAt
  <2> QED BY <2>1 DEF SetUpSoFar
<1>4. ASSUME NEW w \in WaitTimes, ScheduleByHost(w)
      PROVE  SetUpSoFar'
  BY <1>4 DEF ScheduleByHost, SetUpSoFar
<1>5. CASE ScheduleAtBoot
  <2>1. DefaultWait \in WaitTimes
    BY SystemAssumption
  <2> QED BY <1>5, <2>1 DEF ScheduleAtBoot, SetUpSoFar
<1>6. CASE Abort
  BY <1>0, <1>6 DEF Abort, SetUpSoFar, MainAt
<1>7. CASE InitMutex
  BY <1>0, <1>7 DEF InitMutex, SetUpSoFar, MainAt
<1>8. CASE ClearFlag
  BY <1>0, <1>8 DEF ClearFlag, SetUpSoFar, MainAt
<1>9. CASE SetUpRegisters
  <2>1. UNCHANGED <<wait_time, target>>
    BY <1>9 DEF SetUpRegisters, SetUp
  <2>2. CASE SetUp("data_hi", "data_lo", "adjHi", 0)
    <3>1. main = "data_hi" /\ main' = "data_lo" /\ dr' = [dr EXCEPT !.adjHi = 0]
      BY <2>2 DEF SetUp, MainAt
    <3> QED BY <1>0, <2>1, <3>1, RegisterWritten DEF SetUpSoFar
  <2>3. CASE SetUp("data_lo", "state", "adjLo", 0)
    <3>1. main = "data_lo" /\ main' = "state" /\ dr' = [dr EXCEPT !.adjLo = 0]
      BY <2>3 DEF SetUp, MainAt
    <3> QED BY <1>0, <2>1, <3>1, RegisterWritten DEF SetUpSoFar
  <2>4. CASE SetUp("state", "wait_hi", "info", A_ALARM_NEW)
    <3>1. main = "state" /\ main' = "wait_hi" /\ dr' = [dr EXCEPT !.info = A_ALARM_NEW]
      BY <2>4 DEF SetUp, MainAt
    <3> QED BY <1>0, <2>1, <3>1, RegisterWritten DEF SetUpSoFar
  <2>5. CASE SetUp("wait_hi", "wait_lo", "waitHi", Hi(wait_time))
    <3>1. main = "wait_hi" /\ main' = "wait_lo" /\ dr' = [dr EXCEPT !.waitHi = Hi(wait_time)]
      BY <2>5 DEF SetUp, MainAt
    <3> QED BY <1>0, <2>1, <3>1, RegisterWritten DEF SetUpSoFar
  <2>6. CASE SetUp("wait_lo", "count", "waitLo", Lo(wait_time))
    <3>1. main = "wait_lo" /\ main' = "count" /\ dr' = [dr EXCEPT !.waitLo = Lo(wait_time)]
      BY <2>6 DEF SetUp, MainAt
    <3> QED BY <1>0, <2>1, <3>1, RegisterWritten DEF SetUpSoFar
  <2> QED BY <1>9, <2>2, <2>3, <2>4, <2>5, <2>6 DEF SetUpRegisters
<1>10. CASE SetUpCount
  BY <1>0, <1>10 DEF SetUpCount, SetUpSoFar, MainAt
<1>11. CASE UNCHANGED vars
  BY <1>0, <1>11 DEF vars, SetUpSoFar
<1> QED BY <1>1, <1>2, <1>3, <1>4, <1>5, <1>6, <1>7, <1>8, <1>9, <1>10, <1>11 DEF Next

\* Every step keeps all of this, wherever power is cut.
LEMMA SysStep == SysInv /\ [Next]_vars => SysInv'
  BY SystemTypeStep, LockStep, RegistersFollowStep, SetUpStep DEF SysInv

\* Only a power cut takes main to its boot.
LEMMA RefStep == RefInv /\ [Next]_vars => RefInv'
PROOF
<1> SUFFICES ASSUME RefInv, [Next]_vars
             PROVE  main' = "boot" => io' = StartIO(dr'.info, backup_data_get')
  BY SysStep DEF RefInv
<1>1. CASE PowerFault
  BY <1>1 DEF PowerFault, registers, backup_data_get
<1>2. CASE ~PowerFault
  <2>1. main' = "boot" => main = "boot" /\ UNCHANGED <<io, dr>>
    BY <1>2, WorkerRuns DEF Next, Worker, Tick, WorkerStart, WorkerLock, WorkerReset,
       WorkerReadHigh, WorkerModel,
       WorkerDataHi, WorkerDataLo, WorkerState, PressLong, DisarmByHost, ScheduleByHost,
       ScheduleAtBoot, Abort, InitMutex, ClearFlag, SetUpRegisters, SetUp, SetUpCount,
       CreateWorker, Boot, vars, registers, RefInv, SysInv, MainAt
  <2> QED BY <2>1 DEF RefInv, backup_data_get
<1> QED BY <1>1, <1>2

------------------------------------------------------------------------------
(* AlarmSystem implements AlarmCore *)

\* The worker's last reading of the RTC is not torn: CNTL has not run over since
\* it read CNTH.
NotTorn == worker = "model" => high = Hi(cnt)

\* Its check for a request, its call of the model and its write-back, one register
\* after the other, are steps of AlarmCore or none.
LEMMA WorkerRefines ==
  ASSUME RefInv, RefInv', NotTorn, Worker
  PROVE  Core!Model \/ Core!Store \/ Core!Disarm \/ UNCHANGED Core!vars
PROOF
<1> USE DEF registers
<1>0. /\ main \notin Setup \cup {"boot"} /\ worker # "none" /\ TypeOK /\ io \in IO
      /\ RegistersFollow /\ RegistersFollow' /\ io' \in IO /\ main \notin {"mutex", "flag"}
  BY WorkerRuns DEF RefInv, SysInv, TypeOK, Setup
<1>1. main' \notin Setup \cup {"boot", "mutex", "flag"}
  BY <1>0 DEF Worker, WorkerStart, WorkerLock, WorkerReset, WorkerReadHigh, WorkerModel,
              WorkerDataHi, WorkerDataLo, WorkerState, Setup
<1>2. /\ AbstractRtc' = cnt' /\ AbstractWait' = rtc_get_alarm'
      /\ AbstractRtc = cnt /\ AbstractWait = rtc_get_alarm
  BY <1>0, <1>1 DEF AbstractRtc, AbstractWait
<1>3. CASE WorkerStart
  <2>1. /\ worker = "start" /\ worker' = "lock"
        /\ UNCHANGED <<cnt, dr, disarm_alarm, last>>
        /\ io' = StartIO(dr.info, backup_data_get)
    BY <1>3 DEF WorkerStart, WorkerAt
  <2>2. ClearNew(io') = io'
    BY <1>0, <2>1, OtherFlags DEF RegistersFollow
  <2>3. AbstractIo' = AbstractIo
    BY <1>0, <1>1, <2>1, <2>2 DEF AbstractIo
  <2>4. AbstractWorker' = "check" /\ AbstractWorker = "check"
    BY <1>0, <1>1, <2>1 DEF AbstractWorker
  <2>5. AbstractBkp' = AbstractBkp /\ AbstractDisarm' = AbstractDisarm
    BY <1>0, <1>1, <2>1 DEF AbstractBkp, AbstractDisarm, backup_data_get
  <2> QED BY <1>2, <2>1, <2>3, <2>4, <2>5 DEF Core!vars, rtc_get_alarm
<1>4. CASE WorkerLock \/ WorkerReadHigh
  <2>1. /\ \/ worker = "lock" /\ worker' = "reset"
           \/ worker = "rtc" /\ worker' = "model"
        /\ UNCHANGED <<cnt, dr, disarm_alarm, last, io>>
    BY <1>4 DEF WorkerLock, WorkerReadHigh, WorkerAt
  <2>2. AbstractIo' = AbstractIo
    BY <1>0, <1>1, <2>1 DEF AbstractIo
  <2>3. AbstractWorker' = "check" /\ AbstractWorker = "check"
    BY <1>0, <1>1, <2>1 DEF AbstractWorker
  <2>4. AbstractBkp' = AbstractBkp
    BY <1>0, <1>1, <2>1 DEF AbstractBkp, backup_data_get
  <2>5. AbstractDisarm' = AbstractDisarm
    BY <1>0, <1>1, <2>1, Zenon DEF AbstractDisarm
  <2> QED BY <1>2, <2>1, <2>2, <2>3, <2>4, <2>5 DEF Core!vars, rtc_get_alarm
<1>5. CASE WorkerReset
  <2>1. /\ worker = "reset" /\ worker' = "rtc"
        /\ UNCHANGED <<cnt, dr, last>>
        /\ io' = IF disarm_alarm THEN set_disarm_new(io) ELSE io
    BY <1>5 DEF WorkerReset, WorkerAt
  <2>2. "NEW" \notin io.info
    BY <1>0, <2>1 DEF RegistersFollow
  <2>3. ClearNew(io') = ClearNew(io) /\ ("NEW" \in io'.info <=> disarm_alarm)
    BY <1>0, <2>1, <2>2, OtherFlags
  <2>4. AbstractIo' = AbstractIo
    BY <1>0, <1>1, <2>1, <2>3 DEF AbstractIo
  <2>5. AbstractWorker' = "check" /\ AbstractWorker = "check"
    BY <1>0, <1>1, <2>1 DEF AbstractWorker
  <2>6. AbstractBkp' = AbstractBkp
    BY <1>0, <1>1, <2>1 DEF AbstractBkp, backup_data_get
  <2>7. AbstractDisarm = disarm_alarm
    BY <1>0, <2>1, Zenon DEF AbstractDisarm
  <2>8. AbstractDisarm' = AbstractDisarm
    <3>1. /\ worker' \in {"rtc", "model"} /\ main' \notin {"mutex", "flag"}
          /\ worker' \in {"rtc", "model", "data_hi", "data_lo", "state", "hung"}
      BY <1>1, <2>1
    <3>2. CASE disarm_alarm = TRUE
      <4>1. AbstractDisarm' = TRUE
        BY <2>3, <3>1, <3>2, Zenon DEF AbstractDisarm
      <4> QED BY <2>7, <3>2, <4>1
    <3>3. CASE disarm_alarm = FALSE
      <4>1. AbstractDisarm' = FALSE
        BY <2>3, <3>1, <3>3, Zenon DEF AbstractDisarm
      <4> QED BY <2>7, <3>3, <4>1
    <3> QED BY <1>0, <3>2, <3>3 DEF TypeOK
  <2> QED BY <1>2, <2>1, <2>4, <2>5, <2>6, <2>8 DEF Core!vars, rtc_get_alarm
<1>6. CASE WorkerModel
  <2>1. /\ worker = "model" /\ UNCHANGED <<cnt, dr>>
        /\ io' = do_alarm_model(high * HalfMod + Lo(cnt), io, wait_time)
        /\ last' = high * HalfMod + Lo(cnt)
        /\ worker' = IF io'.failed = {} THEN "data_hi" ELSE "hung"
    BY <1>6 DEF WorkerModel, WorkerAt
  <2>2. high * HalfMod + Lo(cnt) = cnt
    BY <1>0, <2>1, RegisterWords, HalvesMakeWord DEF NotTorn
  <2>3. wait_time = rtc_get_alarm
    BY <1>0, <2>1 DEF RegistersFollow
  <2>4. io' = do_alarm_model(cnt, io, rtc_get_alarm) /\ last' = cnt
    BY <2>1, <2>2, <2>3
  <2>5. "NEW" \notin io'.info
    BY <1>0, <2>4, RegisterWords, CallBlock
  <2>6. AbstractIo' = io' /\ AbstractIo = ClearNew(io)
    BY <1>0, <1>1, <2>1, <2>5, OtherFlags DEF AbstractIo
  <2>7. AbstractDisarm' = FALSE
    <3>1. worker' \in {"data_hi", "hung"}
      BY <2>1
    <3> QED BY <1>1, <3>1 DEF AbstractDisarm
  <2>8. io = IF AbstractDisarm THEN set_disarm_new(AbstractIo) ELSE AbstractIo
    <3>1. CASE "NEW" \in io.info
      <4>1. AbstractDisarm = TRUE
        BY <1>0, <2>1, <3>1, Zenon DEF AbstractDisarm
      <4> QED BY <1>0, <2>6, <3>1, <4>1, OtherFlags
    <3>2. CASE "NEW" \notin io.info
      <4>1. AbstractDisarm = FALSE
        BY <1>0, <2>1, <3>2 DEF AbstractDisarm
      <4> QED BY <1>0, <2>6, <3>2, <4>1, OtherFlags
    <3> QED BY <3>1, <3>2
  <2>9. AbstractWorker = "check"
        /\ AbstractWorker' = IF io'.failed = {} THEN "store" ELSE "assert"
    BY <1>0, <1>1, <2>1 DEF AbstractWorker
  <2>10. AbstractBkp' = AbstractBkp
    BY <1>0, <1>1, <2>1 DEF AbstractBkp, backup_data_get
  <2>11. rtc_get_alarm' = rtc_get_alarm
    BY <2>1 DEF rtc_get_alarm
  <2>12. Core!Model
    <3>1. AbstractIo' =
            Core!do_alarm_model(AbstractRtc,
              IF AbstractDisarm THEN Core!set_disarm_new(AbstractIo) ELSE AbstractIo,
              AbstractWait)
      BY <1>2, <2>4, <2>6, <2>8, SameModel
    <3> QED BY <1>2, <2>1, <2>4, <2>6, <2>7, <2>9, <2>10, <2>11, <3>1 DEF Core!Model
  <2> QED BY <2>12
<1>7. CASE WorkerDataHi
  <2>1. /\ worker = "data_hi" /\ worker' = "data_lo"
        /\ UNCHANGED <<cnt, io, last>>
        /\ dr' = [dr EXCEPT !.adjHi = Hi(io.adj)]
    BY <1>7 DEF WorkerDataHi, WorkerAt
  <2>2. dr'.waitHi = dr.waitHi /\ dr'.waitLo = dr.waitLo
    BY <1>0, <2>1, RegisterWritten
  <2>3. rtc_get_alarm' = rtc_get_alarm
    BY <2>2 DEF rtc_get_alarm
  <2>4. AbstractIo' = io /\ AbstractIo = io
    BY <1>0, <1>1, <2>1, OtherFlags DEF AbstractIo, RegistersFollow
  <2>5. AbstractWorker = "store"
        /\ AbstractWorker' = IF alarm_finished(io) THEN "none" ELSE "check"
    BY <1>0, <1>1, <2>1 DEF AbstractWorker, alarm_finished
  <2>6. AbstractBkp' = [info |-> io.info, adj |-> io.adj]
    BY <1>1, <2>1 DEF AbstractBkp
  <2>7. AbstractDisarm = FALSE /\ AbstractDisarm' = FALSE
    BY <1>0, <1>1, <2>1, Zenon DEF AbstractDisarm
  <2>8. Core!Store
    BY <1>2, <2>1, <2>3, <2>4, <2>5, <2>6, <2>7, SameModel DEF Core!Store
  <2> QED BY <2>8
<1>8. CASE WorkerDataLo
  <2>1. /\ worker = "data_lo" /\ worker' = "state"
        /\ UNCHANGED <<cnt, io, last>>
        /\ dr' = [dr EXCEPT !.adjLo = Lo(io.adj)]
    BY <1>8 DEF WorkerDataLo, WorkerAt
  <2>2. dr'.waitHi = dr.waitHi /\ dr'.waitLo = dr.waitLo
    BY <1>0, <2>1, RegisterWritten
  <2>3. rtc_get_alarm' = rtc_get_alarm
    BY <2>2 DEF rtc_get_alarm
  <2>4. AbstractIo' = AbstractIo /\ AbstractWorker' = AbstractWorker
        /\ AbstractBkp' = AbstractBkp
    BY <1>0, <1>1, <2>1 DEF AbstractIo, AbstractWorker, AbstractBkp, alarm_finished
  <2>5. AbstractDisarm = FALSE /\ AbstractDisarm' = FALSE
    BY <1>0, <1>1, <2>1, Zenon DEF AbstractDisarm
  <2> QED BY <1>2, <2>1, <2>3, <2>4, <2>5 DEF Core!vars
<1>9. CASE WorkerState
  <2>1. /\ worker = "state"
        /\ worker' = IF alarm_finished(io) THEN "none" ELSE "lock"
        /\ UNCHANGED <<cnt, io, last, disarm_alarm>>
        /\ dr' = [dr EXCEPT !.info = io.info]
    BY <1>9 DEF WorkerState, WorkerAt
  <2>2. /\ dr'.waitHi = dr.waitHi /\ dr'.waitLo = dr.waitLo /\ dr'.info = io.info
        /\ dr'.adjHi = dr.adjHi /\ dr'.adjLo = dr.adjLo
    BY <1>0, <2>1, RegisterWritten
  <2>3. rtc_get_alarm' = rtc_get_alarm
    BY <2>2 DEF rtc_get_alarm
  <2>4. backup_data_get' = io.adj
    <3>1. dr'.adjHi = Hi(io.adj) /\ dr'.adjLo = Lo(io.adj) /\ io.adj \in Word
      BY <1>0, <2>1, <2>2 DEF RegistersFollow, IO
    <3> QED BY <3>1, HalvesMakeWord DEF backup_data_get
  <2>5. AbstractBkp' = AbstractBkp
    BY <1>0, <1>1, <2>1, <2>2, <2>4 DEF AbstractBkp
  <2>6. AbstractIo' = AbstractIo /\ AbstractWorker' = AbstractWorker
    BY <1>0, <1>1, <2>1 DEF AbstractIo, AbstractWorker
  <2>7. AbstractDisarm = FALSE /\ AbstractDisarm' = disarm_alarm
    <3>1. worker' \in {"none", "lock"}
      BY <2>1
    <3> QED BY <1>0, <1>1, <2>1, <3>1, Zenon DEF AbstractDisarm
  <2>8. CASE disarm_alarm = TRUE
    BY <1>2, <2>1, <2>3, <2>5, <2>6, <2>7, <2>8 DEF Core!Disarm
  <2>9. CASE disarm_alarm = FALSE
    BY <1>2, <2>1, <2>3, <2>5, <2>6, <2>7, <2>9 DEF Core!vars
  <2> QED BY <1>0, <2>8, <2>9 DEF TypeOK
<1> QED BY <1>3, <1>4, <1>5, <1>6, <1>7, <1>8, <1>9 DEF Worker

\* The step that main and AlarmCore call a new alarm.
LEMMA NewAlarmRefines ==
  ASSUME RefInv', main' = "mutex", last' = 0, target' \in WaitTimes
  PROVE  \E w \in WaitTimes : Core!NewAlarm(w)
PROOF
<1>1. worker' = "none"
  BY DEF RefInv, SysInv, LockInv, Setup
<1>2. /\ AbstractRtc' = 0 /\ AbstractWait' = target'
      /\ AbstractBkp' = [info |-> A_ALARM_NEW, adj |-> 0]
      /\ AbstractWorker' = "check" /\ AbstractIo' = StartIO(A_ALARM_NEW, 0)
      /\ AbstractDisarm' = FALSE
  BY DEF AbstractRtc, AbstractWait, AbstractBkp, AbstractWorker, AbstractIo, AbstractDisarm, Setup
<1>3. Core!NewAlarm(target')
  BY <1>2, SameModel DEF Core!NewAlarm
<1> QED BY <1>3

\* A press or a command to disarm is one for AlarmCore at once, unless the worker has
\* looked for one already and not yet written back, or main is setting up an alarm.
LEMMA DisarmRefines ==
  ASSUME RefInv, PressLong \/ DisarmByHost
  PROVE  Core!Disarm \/ UNCHANGED Core!vars
PROOF
<1> USE DEF registers
<1>1. /\ UNCHANGED <<cnt, dr, worker, io, target, last>>
      /\ main' \in {main, "waiting"} /\ (main' # main => main = "idle")
  <2>1. CASE PressLong
    BY <2>1 DEF PressLong
  <2>2. CASE DisarmByHost
    BY <2>2 DEF DisarmByHost, MainAt
  <2> QED BY <2>1, <2>2
<1>5. disarm_alarm' = disarm_alarm \/ disarm_alarm' = TRUE
  BY Zenon DEF PressLong, DisarmByHost
<1>2. /\ main' \in Setup <=> main \in Setup
      /\ main' \in Setup \ {"create"} <=> main \in Setup \ {"create"}
      /\ main' \in {"mutex", "flag"} <=> main \in {"mutex", "flag"}
  BY <1>1 DEF Setup
<1>3. /\ AbstractRtc' = AbstractRtc /\ AbstractWait' = AbstractWait
      /\ AbstractBkp' = AbstractBkp /\ AbstractWorker' = AbstractWorker
      /\ AbstractIo' = AbstractIo
  <2>1. main' = "boot" <=> main = "boot"
    BY <1>1
  <2> QED BY <1>1, <1>2, <2>1
     DEF AbstractRtc, AbstractWait, AbstractBkp, AbstractWorker, AbstractIo,
         rtc_get_alarm, backup_data_get, alarm_finished
<1>4. AbstractDisarm' = AbstractDisarm \/ AbstractDisarm' = TRUE
  <2>1. CASE disarm_alarm' = disarm_alarm
    BY <1>1, <1>2, <2>1 DEF AbstractDisarm
  <2>2. CASE disarm_alarm' = TRUE
    <3>1. CASE \/ main \in {"mutex", "flag"}
               \/ worker \in {"rtc", "model", "data_hi", "data_lo", "state", "hung"}
      BY <1>1, <1>2, <3>1 DEF AbstractDisarm
    <3>2. CASE /\ main \notin {"mutex", "flag"}
               /\ worker \notin {"rtc", "model", "data_hi", "data_lo", "state", "hung"}
      BY <1>1, <1>2, <2>2, <3>2 DEF AbstractDisarm
    <3> QED BY <3>1, <3>2
  <2> QED BY <1>5, <2>1, <2>2
<1> QED BY <1>1, <1>3, <1>4 DEF Core!Disarm, Core!vars

\* The registers an alarm has been given when its worker is created.
LEMMA SetUpRegistersDone ==
  ASSUME RefInv, main = "create"
  PROVE  dr.info = A_ALARM_NEW /\ backup_data_get = 0 /\ rtc_get_alarm = target
PROOF
<1>1. /\ dr.info = A_ALARM_NEW /\ dr.adjHi = 0 /\ dr.adjLo = 0
      /\ dr.waitHi = Hi(target) /\ dr.waitLo = Lo(target) /\ target \in Word
  BY Widths DEF RefInv, SysInv, SetUpSoFar, Setup
<1> QED BY <1>1, Widths, HalvesMakeWord DEF backup_data_get, rtc_get_alarm

\* A new alarm's registers and its worker, and a boot, change nothing AlarmCore sees.
LEMMA MainRefines ==
  ASSUME RefInv, RefInv',
         \/ InitMutex \/ ClearFlag \/ SetUpRegisters \/ SetUpCount \/ CreateWorker \/ Boot
         \/ \E w \in WaitTimes : ScheduleByHost(w)
  PROVE  UNCHANGED Core!vars
PROOF
<1> USE DEF registers
<1>0. /\ TypeOK /\ io \in IO /\ LockInv /\ LockInv'
      /\ main \in Setup \cup {"boot"} => worker = "none"
      /\ main' \in Setup \cup {"boot"} => worker' = "none"
  BY DEF RefInv, SysInv, TypeOK, LockInv
<1>1. ASSUME NEW w \in WaitTimes, ScheduleByHost(w)
      PROVE  UNCHANGED Core!vars
  <2>1. /\ main = "idle" /\ main' = "abort"
        /\ UNCHANGED <<cnt, dr, worker, io, last, disarm_alarm>>
    BY <1>1 DEF ScheduleByHost, MainAt
  <2> QED BY <2>1
     DEF AbstractRtc, AbstractWait, AbstractBkp, AbstractWorker, AbstractIo, AbstractDisarm,
         rtc_get_alarm, backup_data_get, alarm_finished, Core!vars, Setup
<1>2. CASE InitMutex \/ ClearFlag \/ SetUpRegisters \/ SetUpCount
  <2>1. /\ main \in Setup \ {"create"} /\ main' \in Setup /\ UNCHANGED <<worker, target, last>>
        /\ main' = "create" => cnt' = 0
        /\ main \in {"mutex", "flag"} =>
             main' \in {"mutex", "flag"} \/ disarm_alarm' = FALSE
        /\ main \notin {"mutex", "flag"} =>
             main' \notin {"mutex", "flag"} /\ disarm_alarm' = disarm_alarm
    BY <1>2 DEF InitMutex, ClearFlag, SetUpRegisters, SetUp, SetUpCount, MainAt, Setup
  <2>2. worker = "none" /\ worker' = "none"
    BY <1>0, <2>1
  <2>3. /\ AbstractRtc' = AbstractRtc /\ AbstractWait' = AbstractWait
        /\ AbstractBkp' = AbstractBkp /\ AbstractWorker' = AbstractWorker
        /\ AbstractIo' = AbstractIo
    BY <2>1 DEF AbstractRtc, AbstractWait, AbstractBkp, AbstractWorker, AbstractIo
  <2>4. AbstractDisarm' = AbstractDisarm
    BY <2>1, <2>2 DEF AbstractDisarm
  <2> QED BY <2>1, <2>3, <2>4 DEF Core!vars
<1>3. CASE CreateWorker
  <2>1. /\ main = "create" /\ main' = "idle" /\ worker = "none" /\ worker' = "start"
        /\ UNCHANGED <<cnt, dr, last, disarm_alarm>>
    BY <1>0, <1>3 DEF CreateWorker, MainAt, Setup
  <2>2. dr.info = A_ALARM_NEW /\ backup_data_get = 0 /\ rtc_get_alarm = target
    BY <2>1, SetUpRegistersDone
  <2>3. rtc_get_alarm' = rtc_get_alarm /\ backup_data_get' = backup_data_get
    BY <2>1 DEF rtc_get_alarm, backup_data_get
  <2>4. main \in Setup /\ main' \notin Setup
    BY <2>1 DEF Setup
  <2> QED BY <2>1, <2>2, <2>3, <2>4
     DEF AbstractRtc, AbstractWait, AbstractBkp, AbstractWorker, AbstractIo, AbstractDisarm,
         Core!vars
<1>4. CASE Boot
  <2>1. /\ main = "boot" /\ main' = "idle" /\ worker = "none"
        /\ worker' = IF "FINISHED" \in dr.info THEN "none" ELSE "start"
        /\ UNCHANGED <<cnt, dr, io, last, disarm_alarm>>
    BY <1>0, <1>4 DEF Boot
  <2>2. main \notin Setup /\ main' \notin Setup
    BY <2>1 DEF Setup
  <2>3. /\ io = StartIO(dr.info, backup_data_get) /\ ClearNew(io) = io
    <3>1. io = StartIO(dr.info, backup_data_get) /\ "NEW" \notin dr.info
      BY <2>1 DEF RefInv, SysInv, RegistersFollow
    <3> QED BY <1>0, <3>1, StartIOFields, RegisterWords, OtherFlags
  <2>4. rtc_get_alarm' = rtc_get_alarm /\ backup_data_get' = backup_data_get
    BY <2>1 DEF rtc_get_alarm, backup_data_get
  <2> QED BY <2>1, <2>2, <2>3, <2>4
     DEF AbstractRtc, AbstractWait, AbstractBkp, AbstractWorker, AbstractIo, AbstractDisarm,
         Core!vars
<1> QED BY <1>1, <1>2, <1>3, <1>4

\* A power cut outside the windows loses what AlarmCore says it loses.
LEMMA PowerFaultRefines ==
  ASSUME RefInv, RefInv', ~FaultInWindow, PowerFault
  PROVE  Core!PowerFault
PROOF
<1>0. /\ main \notin Setup \ {"create"} /\ worker \notin {"data_lo", "state"}
      /\ main' = "boot" /\ worker' = "none" /\ disarm_alarm' = FALSE
      /\ io' = StartIO(dr.info, backup_data_get) /\ UNCHANGED <<cnt, dr, last>>
  BY DEF PowerFault, InWindow, registers
<1>1. rtc_get_alarm' = rtc_get_alarm /\ backup_data_get' = backup_data_get
  BY <1>0 DEF rtc_get_alarm, backup_data_get
<1>2. /\ AbstractBkp = [info |-> dr.info, adj |-> backup_data_get]
      /\ AbstractWait = rtc_get_alarm /\ AbstractRtc = cnt
  BY <1>0, SetUpRegistersDone DEF AbstractBkp, AbstractWait, AbstractRtc
<1>3. main' \notin Setup
  BY <1>0 DEF Setup
<1>4. UNCHANGED <<AbstractBkp, AbstractWait, AbstractRtc>>
  BY <1>0, <1>1, <1>2, <1>3 DEF AbstractBkp, AbstractWait, AbstractRtc
<1>5. AbstractIo' = StartIO(dr.info, backup_data_get)
  <2>1. "NEW" \notin dr.info /\ TypeOK
    BY DEF RefInv, SysInv, RegistersFollow
  <2>2. ClearNew(io') = io'
    BY <1>0, <2>1, StartIOFields, RegisterWords, OtherFlags
  <2> QED BY <1>0, <1>3, <2>2 DEF AbstractIo
<1>6. /\ AbstractWorker' = IF "FINISHED" \in dr.info THEN "none" ELSE "check"
      /\ AbstractDisarm' = FALSE
  BY <1>0, <1>3 DEF AbstractWorker, AbstractDisarm
<1> QED BY <1>0, <1>2, <1>4, <1>5, <1>6, SameModel DEF Core!PowerFault

\* Every step of AlarmSystem is one of AlarmCore, or none, where power is not cut in
\* the middle of a write and the time the model gets is the RTC's.
LEMMA StepRefines ==
  ASSUME ~FaultInWindow
  PROVE  RefInv /\ RefInv' /\ NotTorn /\ [Next]_vars => [Core!Next]_(Core!vars)
PROOF
<1> SUFFICES ASSUME RefInv, RefInv', NotTorn, [Next]_vars
             PROVE  Core!Next \/ UNCHANGED Core!vars
  OBVIOUS
<1> USE DEF registers
<1>1. CASE Tick
  <2>1. /\ cnt < MaxTime /\ cnt' = cnt + 1
        /\ UNCHANGED <<dr, disarm_alarm, worker, io, main, target, last>>
    BY <1>1 DEF Tick
  <2>2. /\ AbstractWait' = AbstractWait /\ AbstractBkp' = AbstractBkp
        /\ AbstractWorker' = AbstractWorker /\ AbstractIo' = AbstractIo
        /\ AbstractDisarm' = AbstractDisarm
    BY <2>1 DEF AbstractWait, AbstractBkp, AbstractWorker, AbstractIo, AbstractDisarm,
         rtc_get_alarm, backup_data_get, alarm_finished
  <2>3. CASE main \in Setup \ {"create"}
    BY <2>1, <2>2, <2>3 DEF AbstractRtc, Core!vars
  <2>4. CASE main \notin Setup \ {"create"}
    <3>1. AbstractRtc = cnt /\ AbstractRtc' = cnt + 1
      BY <2>1, <2>4 DEF AbstractRtc
    <3> QED BY <2>1, <2>2, <3>1 DEF Core!Tick, Core!Next
  <2> QED BY <2>3, <2>4
<1>2. CASE Worker
  BY <1>2, WorkerRefines DEF Core!Next
<1>3. CASE PressLong \/ DisarmByHost
  BY <1>3, DisarmRefines DEF Core!Next
<1>4. CASE ScheduleAtBoot
  BY <1>4, NewAlarmRefines, SystemAssumption DEF ScheduleAtBoot, Core!Next
<1>5. CASE Abort
  <2>1. main' = "mutex" /\ last' = 0 /\ target' = target /\ target \in WaitTimes
    BY <1>5 DEF Abort, MainAt, RefInv, SysInv, SetUpSoFar
  <2> QED BY <2>1, NewAlarmRefines DEF Core!Next
<1>6. CASE \/ InitMutex \/ ClearFlag \/ SetUpRegisters \/ SetUpCount \/ CreateWorker \/ Boot
           \/ \E w \in WaitTimes : ScheduleByHost(w)
  BY <1>6, MainRefines
<1>7. CASE PowerFault
  BY <1>7, PowerFaultRefines DEF Core!Next
<1>8. CASE UNCHANGED vars
  BY <1>8 DEF vars, AbstractRtc, AbstractWait, AbstractBkp, AbstractWorker, AbstractIo,
         AbstractDisarm, rtc_get_alarm, backup_data_get, alarm_finished, Core!vars
<1> QED BY <1>1, <1>2, <1>3, <1>4, <1>5, <1>6, <1>7, <1>8 DEF Next

\* AlarmSystem starts where AlarmCore does.
LEMMA InitRefines == Init => Core!Init
PROOF
<1> SUFFICES ASSUME Init PROVE Core!Init
  OBVIOUS
<1>1. /\ main = "boot" /\ worker = "none" /\ dr.info = {"FINISHED"} /\ disarm_alarm = FALSE
      /\ cnt = 0 /\ last = 0 /\ io = StartIO({"FINISHED"}, 0)
      /\ dr.waitHi = HalfMod - 1 /\ dr.waitLo = HalfMod - 1 /\ main \notin Setup
      /\ dr.adjHi = 0 /\ dr.adjLo = 0
  BY DEF Init, A_ALARM_POR_VALUE, Setup
<1>2. backup_data_get = 0 /\ rtc_get_alarm = WordMod - 1
  <2>1. (HalfMod - 1) * HalfMod = HalfMod * HalfMod - HalfMod
    BY Widths
  <2> QED BY <1>1, <2>1, Widths DEF backup_data_get, rtc_get_alarm
<1>3. ClearNew(io) = io
  <2>1. io \in IO /\ io.info = {"FINISHED"}
    BY <1>1, StartIOFields, Words DEF Flags
  <2> QED BY <2>1, OtherFlags
<1> QED BY <1>1, <1>2, <1>3, SameModel
     DEF Core!Init, AbstractRtc, AbstractWait, AbstractBkp, AbstractWorker, AbstractIo,
         AbstractDisarm, A_ALARM_POR_VALUE

\* While no reading of the RTC is torn and power is not cut in the middle of a write,
\* the threads, their mutex and the registers they write half by half do what AlarmCore
\* says in single steps, and with AlarmCore what AlarmTimeline promises.
THEOREM SystemImplementsCore ==
  ASSUME ~FaultInWindow PROVE Spec /\ []NotTorn => CoreSpec
PROOF
<1>1. RefInv /\ RefInv' /\ NotTorn /\ [Next]_vars => [Core!Next]_(Core!vars)
  BY StepRefines
<1> QED BY <1>1, RefInit, RefStep, InitRefines, PTL DEF Spec, CoreSpec, Core!Spec

\* Nothing is torn before CNTL runs over for the first time.
LEMMA HighIsZero ==
  ASSUME MaxTime < HalfMod
  PROVE  TypeOK => Hi(cnt) = 0
PROOF
<1>1. ASSUME NEW n \in Nat, NEW h \in Nat, n < h PROVE n \div h = 0
  BY <1>1, SMTT(20)
<1> QED BY <1>1, Widths DEF TypeOK, Hi

\* So no reading of an RTC that stays below 2^16 seconds is torn.
LEMMA ShortAlarmsAreNotTorn ==
  ASSUME MaxTime < HalfMod PROVE Spec => []NotTorn
PROOF
<1> DEFINE Zero == high = 0
<1>1. Init => Zero
  BY DEF Init
<1>2. TypeOK /\ Zero /\ [Next]_vars => Zero'
  <2> SUFFICES ASSUME TypeOK, Zero, [Next]_vars PROVE Zero'
    OBVIOUS
  <2>1. CASE WorkerReadHigh
    BY <2>1, HighIsZero DEF WorkerReadHigh
  <2>2. CASE PowerFault
    BY <2>2 DEF PowerFault
  <2>3. CASE ~WorkerReadHigh /\ ~PowerFault
    BY <2>3 DEF Next, Worker, Tick, WorkerStart, WorkerLock, WorkerReset, WorkerModel,
         WorkerDataHi, WorkerDataLo, WorkerState, PressLong, DisarmByHost, ScheduleByHost,
         ScheduleAtBoot, Abort, InitMutex, ClearFlag, SetUpRegisters, SetUp, SetUpCount,
         CreateWorker, Boot, vars
  <2> QED BY <2>1, <2>2, <2>3
<1>3. TypeOK /\ Zero => NotTorn
  BY HighIsZero DEF NotTorn
<1>4. Spec => [](TypeOK /\ Zero)
  BY <1>1, <1>2, SystemTypeInit, SystemTypeStep, PTL DEF Spec
<1> QED BY <1>3, <1>4, PTL

\* An alarm of less than 2^16 seconds is always one of AlarmCore.
THEOREM ShortAlarmsImplementCore ==
  ASSUME ~FaultInWindow, MaxTime < HalfMod PROVE Spec => CoreSpec
PROOF
<1>1. Spec => []NotTorn
  BY ShortAlarmsAreNotTorn
<1> QED BY <1>1, SystemImplementsCore, PTL

------------------------------------------------------------------------------
(* From AlarmCore's theorems to the threads and registers *)

\* The proofs about AlarmCore, of the alarm that AlarmSystem implements.
CoreProofs == INSTANCE AlarmCoreProofs WITH
  rtc          <- AbstractRtc,
  wait         <- AbstractWait,
  bkp          <- AbstractBkp,
  worker       <- AbstractWorker,
  io           <- AbstractIo,
  disarm_alarm <- AbstractDisarm,
  last         <- last

\* The model that AlarmCoreProofs is about is this one, too.
LEMMA ProvedModel ==
  /\ \A info, adj : CoreProofs!StartIO(info, adj) = StartIO(info, adj)
  /\ \A b : CoreProofs!set_disarm_new(b) = set_disarm_new(b)
  /\ \A b : CoreProofs!alarm_finished(b) = alarm_finished(b)
  /\ CoreProofs!A_ALARM_NEW = A_ALARM_NEW /\ CoreProofs!A_ALARM_POR_VALUE = A_ALARM_POR_VALUE
  /\ \A t, b, w : CoreProofs!do_alarm_model(t, b, w) = do_alarm_model(t, b, w)
PROOF
<1>1. \A a, b : CoreProofs!Sub(a, b) = Sub(a, b)
  BY DEF CoreProofs!Sub, Sub
<1>2. \A b, n, h : CoreProofs!dynamic_assert(b, n, h) = dynamic_assert(b, n, h)
  BY DEF CoreProofs!dynamic_assert, dynamic_assert
<1>3. \A b, l : CoreProofs!set_const_brightness(b, l) = set_const_brightness(b, l)
  BY DEF CoreProofs!set_const_brightness, set_const_brightness
<1>4. \A b, p, c, f, l : CoreProofs!SetRamp(b, p, c, f, l) = SetRamp(b, p, c, f, l)
  BY DEF CoreProofs!SetRamp, SetRamp
<1>5. \A b : CoreProofs!DarkAndFinished(b) = DarkAndFinished(b)
  BY <1>3 DEF CoreProofs!DarkAndFinished, DarkAndFinished, CoreProofs!set_alarm_finished, set_alarm_finished
<1>6. \A b : CoreProofs!ClearNew(b) = ClearNew(b)
  BY DEF CoreProofs!ClearNew, ClearNew
<1>7. \A b : CoreProofs!alarm_finished(b) = alarm_finished(b)
  BY DEF CoreProofs!alarm_finished, alarm_finished
<1>8. \A b : CoreProofs!do_alarm_finished(b) = do_alarm_finished(b)
  BY <1>3, <1>6 DEF CoreProofs!do_alarm_finished, do_alarm_finished
<1>9. \A a, b : CoreProofs!disarm_adjust_secondary(a, b) = disarm_adjust_secondary(a, b)
  BY <1>2 DEF CoreProofs!disarm_adjust_secondary, disarm_adjust_secondary
<1>10. \A a, b : CoreProofs!disarm_adjust_primary(a, b) = disarm_adjust_primary(a, b)
  BY <1>2 DEF CoreProofs!disarm_adjust_primary, disarm_adjust_primary
<1>11. \A b : CoreProofs!disarm_adjust_pre_cancel(b) = disarm_adjust_pre_cancel(b)
  BY <1>2 DEF CoreProofs!disarm_adjust_pre_cancel, disarm_adjust_pre_cancel
<1>12. \A t, b : CoreProofs!SecondDisarm(t, b) = SecondDisarm(t, b)
  BY <1>1, <1>9 DEF CoreProofs!SecondDisarm, SecondDisarm
<1>13. \A t, b, w : CoreProofs!FirstDisarm(t, b, w) = FirstDisarm(t, b, w)
  BY <1>1, <1>9, <1>10, <1>11 DEF CoreProofs!FirstDisarm, FirstDisarm
<1>14. \A t, b, w : CoreProofs!process_new_disarm(t, b, w) = process_new_disarm(t, b, w)
  BY <1>6, <1>12, <1>13 DEF CoreProofs!process_new_disarm, process_new_disarm
<1>15. \A t, b : CoreProofs!do_alarm_model_disarmed_late(t, b) = do_alarm_model_disarmed_late(t, b)
  BY <1>1, <1>2, <1>4, <1>5
     DEF CoreProofs!do_alarm_model_disarmed_late, do_alarm_model_disarmed_late
<1>16. \A t, b : CoreProofs!do_alarm_model_disarmed_early(t, b) = do_alarm_model_disarmed_early(t, b)
  BY <1>1, <1>2, <1>3, <1>4, <1>5
     DEF CoreProofs!do_alarm_model_disarmed_early, do_alarm_model_disarmed_early
<1>17. \A b : CoreProofs!do_alarm_model_disarmed_pre_cancel(b) = do_alarm_model_disarmed_pre_cancel(b)
  BY <1>5 DEF CoreProofs!do_alarm_model_disarmed_pre_cancel, do_alarm_model_disarmed_pre_cancel
<1>18. \A t, b, w : CoreProofs!do_alarm_model_direct(t, b, w) = do_alarm_model_direct(t, b, w)
  BY <1>1, <1>3, <1>4, <1>5 DEF CoreProofs!do_alarm_model_direct, do_alarm_model_direct
<1>19. \A t, b, w : CoreProofs!ModelByFlags(t, b, w) = ModelByFlags(t, b, w)
  BY <1>15, <1>16, <1>17, <1>18
     DEF CoreProofs!ModelByFlags, ModelByFlags, CoreProofs!no_disarm_pending, no_disarm_pending
<1>20. \A t, b, w : CoreProofs!do_alarm_model(t, b, w) = do_alarm_model(t, b, w)
  BY <1>7, <1>8, <1>14, <1>19 DEF CoreProofs!do_alarm_model, do_alarm_model
<1>21. \A b : CoreProofs!set_disarm_new(b) = set_disarm_new(b)
  BY DEF CoreProofs!set_disarm_new, set_disarm_new
<1>22. \A info, adj : CoreProofs!StartIO(info, adj) = StartIO(info, adj)
  BY DEF CoreProofs!StartIO, StartIO, CoreProofs!NoLight, NoLight
<1>23. CoreProofs!A_ALARM_NEW = A_ALARM_NEW /\ CoreProofs!A_ALARM_POR_VALUE = A_ALARM_POR_VALUE
  BY DEF CoreProofs!A_ALARM_NEW, CoreProofs!A_ALARM_POR_VALUE, A_ALARM_NEW, A_ALARM_POR_VALUE
<1> QED BY <1>7, <1>20, <1>21, <1>22, <1>23

\* The AlarmCore that AlarmSystem implements is the one that has been proved about.
LEMMA ProvedCore == CoreSpec => CoreProofs!Spec
PROOF
<1>1. Core!Init => CoreProofs!Init
  BY SameModel, ProvedModel DEF Core!Init, CoreProofs!Init
<1>2. ASSUME [Core!Next]_(Core!vars)
      PROVE  [CoreProofs!Next]_(CoreProofs!vars)
  <2>1. CASE Core!Tick
    BY <2>1 DEF Core!Tick, CoreProofs!Tick, CoreProofs!Next
  <2>2. CASE Core!Disarm
    BY <2>2 DEF Core!Disarm, CoreProofs!Disarm, CoreProofs!Next
  <2>3. CASE Core!Model
    <3>1. CoreProofs!Model
      BY <2>3, SameModel, ProvedModel, Zenon DEF Core!Model, CoreProofs!Model
    <3> QED BY <3>1 DEF CoreProofs!Next
  <2>4. CASE Core!Store
    BY <2>4, SameModel, ProvedModel DEF Core!Store, CoreProofs!Store, CoreProofs!Next
  <2>5. CASE Core!PowerFault
    BY <2>5, SameModel, ProvedModel
       DEF Core!PowerFault, CoreProofs!PowerFault, CoreProofs!Next
  <2>6. ASSUME NEW w \in WaitTimes, Core!NewAlarm(w)
        PROVE  CoreProofs!Next
    <3>1. CoreProofs!NewAlarm(w)
      BY <2>6, SameModel, ProvedModel DEF Core!NewAlarm, CoreProofs!NewAlarm
    <3> QED BY <3>1 DEF CoreProofs!Next
  <2>7. CASE UNCHANGED Core!vars
    BY <2>7 DEF Core!vars, CoreProofs!vars
  <2> QED BY <1>2, <2>1, <2>2, <2>3, <2>4, <2>5, <2>6, <2>7 DEF Core!Next
<1> QED BY <1>1, <1>2, PTL DEF CoreSpec, Core!Spec, CoreProofs!Spec

\* The constants of AlarmSystem are such that AlarmCore's assumptions hold.
LEMMA ProvedOfCore ==
  /\ CoreProofs!Spec => CoreProofs!TimelineSpec
  /\ CoreProofs!Spec => []CoreProofs!NoAssert
PROOF
<1> USE DurationsAssumption, NoWrapIntoHold, SystemAssumption DEF CoreProofs!Word, Word
<1>1. CoreProofs!Spec => CoreProofs!TimelineSpec
  BY CoreProofs!Implements
<1>2. CoreProofs!Spec => []CoreProofs!NoAssert
  BY CoreProofs!NoAssertFails
<1> QED BY <1>1, <1>2

\* The whole firmware around core-model.c, threads, mutex and registers, does what
\* the timetables of AlarmTimeline promise, as long as no reading of the RTC is torn
\* and power is not cut in the middle of a write.
THEOREM SystemImplementsTimeline ==
  ASSUME ~FaultInWindow PROVE Spec /\ []NotTorn => CoreProofs!TimelineSpec
  BY SystemImplementsCore, ProvedCore, ProvedOfCore, PTL

\* A worker that spins for ever in dynamic_assert.
NeverHangs == worker # "hung"

\* Nor does any dynamic_assert of core-model.c fail then, whenever the threads run.
THEOREM SystemNeverHangs ==
  ASSUME ~FaultInWindow PROVE Spec /\ []NotTorn => []NeverHangs
PROOF
<1>1. LockInv /\ CoreProofs!NoAssert => NeverHangs
  BY DEF LockInv, CoreProofs!NoAssert, AbstractWorker, NeverHangs
<1>2. Spec => []LockInv
  BY LockInit, LockStep, PTL DEF Spec
<1> QED BY <1>1, <1>2, SystemImplementsCore, ProvedCore, ProvedOfCore, PTL

\* Both hold without any condition on the readings while the RTC is below 2^16 s,
\* eighteen hours.
THEOREM ShortAlarmsImplementTimeline ==
  ASSUME ~FaultInWindow, MaxTime < HalfMod
  PROVE  Spec => CoreProofs!TimelineSpec /\ []NeverHangs
PROOF
<1>1. Spec => []NotTorn
  BY ShortAlarmsAreNotTorn
<1> QED BY <1>1, SystemImplementsTimeline, SystemNeverHangs, PTL

------------------------------------------------------------------------------
(* From the very first power on *)

\* rtc_init is over before main starts, and it goes through RCC BDCR from bit to bit.
ClockInv ==
  /\ ClockOK
  /\ main # "boot" => clock = "done"
  /\ clock \in {"spin", "select", "enable"} => "LSEON" \in bdcr
  /\ clock = "enable" => "RTCSEL" \in bdcr /\ "RTCEN" \notin bdcr
  /\ clock \notin {"lse", "spin", "select", "enable"} => "RTCEN" \in bdcr

\* rtc_init writes the counter and the registers itself.
LEMMA BootStepIs ==
  BootNext => \/ [Next]_vars
              \/ RtcConfigure \/ BackupDomainInit
  BY DEF BootNext, OscillatorStarts, RtcTick, RtcInit, NewAlarm, Running, PowerCut, Next,
         LseInit, LseSpin, RtcSelect, RtcEnable

\* With an empty battery domain rtc_init starts at its first step.
LEMMA ClockInit == BootInit => ClockInv
  BY DEF BootInit, ClockInv, ClockOK, ClockSteps

\* Neither the oscillator's moods nor a power cut in the middle of rtc_init lead it astray.
LEMMA ClockStepKeeps == ClockInv /\ [BootNext]_bootVars => ClockInv'
PROOF
<1> SUFFICES ASSUME ClockInv, [BootNext]_bootVars PROVE ClockInv'
  OBVIOUS
<1> USE DEF ClockInv, ClockOK, ClockSteps
<1>1. CASE OscillatorStarts
  BY <1>1 DEF OscillatorStarts, vars
<1>2. CASE RtcTick
  BY <1>2 DEF RtcTick, Tick, clockVars
<1>3. CASE LseInit
  BY <1>3 DEF LseInit, ClockStep, vars
<1>4. CASE LseSpin
  BY <1>4 DEF LseSpin, ClockStep, vars
<1>5. CASE RtcSelect
  BY <1>5 DEF RtcSelect, ClockStep, vars
<1>6. CASE RtcEnable
  BY <1>6 DEF RtcEnable, ClockStep, vars
<1>7. CASE RtcConfigure
  BY <1>7 DEF RtcConfigure, ClockStep
<1>8. CASE BackupDomainInit
  BY <1>8 DEF BackupDomainInit, Store, ClockStep
<1>9. CASE NewAlarm
  BY <1>9 DEF NewAlarm, clockVars
<1>10. CASE Running
  BY <1>10 DEF Running, clockVars
<1>11. CASE PowerCut
  BY <1>11 DEF PowerCut, PowerFault
<1>12. CASE UNCHANGED bootVars
  BY <1>12 DEF bootVars, vars, clockVars
<1> QED BY <1>1, <1>2, <1>3, <1>4, <1>5, <1>6, <1>7, <1>8, <1>9, <1>10, <1>11, <1>12
        DEF BootNext, RtcInit

\* Whether and whenever the oscillator starts and power is cut, the RTC that rtc_init leaves
\* has been enabled, and only with the oscillator on and selected.
THEOREM ClockIsOK == BootSpec => []ClockOK
  BY ClockInit, ClockStepKeeps, PTL DEF BootSpec, ClockInv

\* While rtc_init runs there are no threads.
LEMMA NobodyAtInit ==
  ASSUME LockInv, ClockInv, RtcConfigure \/ BackupDomainInit
  PROVE  /\ main = "boot" /\ worker = "none" /\ clock # "done"
         /\ UNCHANGED <<wait_time, disarm_alarm, held, worker, io, high, main, target, button,
                        asked, last, bdcr>>
  BY DEF RtcConfigure, BackupDomainInit, Store, ClockStep, LockInv, ClockInv

\* What backup_domain_init writes into the registers keeps their types.
LEMMA InitWrites ==
  ASSUME TypeOK, RtcConfigure \/ BackupDomainInit
  PROVE  /\ dr' \in [info : SUBSET Flags, adjHi : Half, adjLo : Half,
                     waitHi : Half, waitLo : Half]
         /\ dr'.info \in {dr.info, A_ALARM_POR_VALUE} /\ cnt' \in {cnt, 0}
         /\ dr'.adjHi \in {dr.adjHi, 0} /\ dr'.adjLo \in {dr.adjLo, 0}
PROOF
<1>1. CASE RtcConfigure
  BY <1>1 DEF RtcConfigure, TypeOK
<1>2. CASE BackupDomainInit
  <2>1. /\ \/ dr' = [dr EXCEPT !.info = A_ALARM_POR_VALUE]
           \/ dr' = [dr EXCEPT !.adjHi = 0]
           \/ dr' = [dr EXCEPT !.adjLo = 0]
           \/ dr' = [dr EXCEPT !.waitHi = HalfMod - 1]
           \/ dr' = [dr EXCEPT !.waitLo = HalfMod - 1]
        /\ UNCHANGED cnt
    BY <1>2 DEF BackupDomainInit, Store
  <2>2. A_ALARM_POR_VALUE \in SUBSET Flags /\ 0 \in Half /\ HalfMod - 1 \in Half
    BY Widths DEF A_ALARM_POR_VALUE, Flags
  <2> QED BY <2>1, <2>2 DEF TypeOK
<1> QED BY <1>1, <1>2

\* The zeros of an empty battery domain are as good as any registers.
LEMMA SysBootInit == BootInit => SysInv
PROOF
<1> SUFFICES ASSUME BootInit PROVE SysInv
  OBVIOUS
<1>1. {disarm_alarm, held, asked} \subseteq BOOLEAN
  BY Zenon DEF BootInit
<1>2. io \in IO /\ A_ALARM_NEW \in SUBSET Flags
  BY StartIOFields, Words DEF BootInit, A_ALARM_NEW
<1>3. TypeOK
  BY <1>1, <1>2, Widths, Words DEF BootInit, TypeOK, WorkerSteps, MainSteps
<1>4. LockInv
  BY DEF BootInit, LockInv, Setup
<1>5. RegistersFollow
  BY DEF BootInit, RegistersFollow, A_ALARM_NEW
<1>6. SetUpSoFar
  BY DEF BootInit, SetUpSoFar, Setup
<1> QED BY <1>3, <1>4, <1>5, <1>6 DEF SysInv

\* Nor does rtc_init, whenever it is cut, upset what main and the worker rely on.
LEMMA SysBootStep == SysInv /\ ClockInv /\ [BootNext]_bootVars => SysInv'
PROOF
<1> SUFFICES ASSUME SysInv, ClockInv, [BootNext]_bootVars PROVE SysInv'
  OBVIOUS
<1>1. CASE [Next]_vars
  BY <1>1, SysStep
<1>2. CASE RtcConfigure \/ BackupDomainInit
  <2>1. /\ main = "boot" /\ worker = "none"
        /\ UNCHANGED <<wait_time, disarm_alarm, held, worker, io, high, main, target, button,
                       asked, last>>
    BY <1>2, NobodyAtInit DEF SysInv
  <2>2. TypeOK'
    BY <1>2, <2>1, InitWrites, Widths DEF SysInv, TypeOK
  <2>3. LockInv' /\ SetUpSoFar'
    BY <2>1 DEF SysInv, LockInv, SetUpSoFar, Setup
  <2>4. RegistersFollow'
    BY <1>2, <2>1, InitWrites DEF SysInv, RegistersFollow, A_ALARM_POR_VALUE
  <2> QED BY <2>2, <2>3, <2>4 DEF SysInv
<1>3. CASE UNCHANGED bootVars
  BY <1>3, SysStep DEF bootVars
<1> QED BY <1>1, <1>2, <1>3, BootStepIs

------------------------------------------------------------------------------
(* Once disarmed, never bright *)

\* A worker's block has every flag that is in the registers, and once it has one, or
\* there is a request, the last thing shown was not on its way to the maximum.
BrightInv ==
  worker \notin {"none", "start"} =>
    /\ dr.info \subseteq io.info
    /\ io.info \ {"NEW"} # {} => io.light.to # "MAX"

\* A disarm in the registers is one in the block.
LEMMA BrightImplies == SysInv /\ BrightInv => DisarmedNotBright
  BY DEF SysInv, RegistersFollow, BrightInv, DisarmedNotBright, A_ALARM_NEW

\* The flags are written into the registers last, and power can be cut at any time.
LEMMA BrightStep == SysInv /\ BrightInv /\ [Next]_vars => BrightInv'
PROOF
<1> SUFFICES ASSUME SysInv, BrightInv, [Next]_vars PROVE BrightInv'
  OBVIOUS
<1> USE DEF registers
<1>0. /\ TypeOK /\ io \in IO /\ dr.info \in SUBSET Flags /\ RegistersFollow
      /\ main \in Setup \cup {"boot"} => worker = "none"
  BY RegisterWords DEF SysInv, TypeOK, LockInv
<1>1. CASE WorkerStart
  <2>1. UNCHANGED dr /\ io' = StartIO(dr.info, backup_data_get)
    BY <1>1 DEF WorkerStart
  <2> QED BY <1>0, <2>1, StartIOFields, RegisterWords DEF BrightInv
<1>2. CASE WorkerLock \/ WorkerReadHigh
  BY <1>2 DEF WorkerLock, WorkerReadHigh, WorkerAt, BrightInv
<1>3. CASE WorkerReset
  <2>1. /\ worker = "reset" /\ UNCHANGED dr /\ io' \in {io, set_disarm_new(io)}
    BY <1>3 DEF WorkerReset, WorkerAt
  <2>2. set_disarm_new(io).light = io.light
    BY <1>0 DEF set_disarm_new, IO
  <2> QED BY <1>0, <2>1, <2>2, OtherFlags DEF BrightInv
<1>4. CASE WorkerModel
  <2>1. /\ worker = "model" /\ UNCHANGED dr
        /\ io' = do_alarm_model(high * HalfMod + Lo(cnt), io, wait_time)
    BY <1>4 DEF WorkerModel, WorkerAt
  <2>2. io.info \ {"NEW"} \subseteq io'.info /\ (io'.light.to = "MAX" => io'.info = {})
    BY <1>0, <2>1, TimeRead, CallBlock DEF TypeOK
  <2> QED BY <1>0, <2>1, <2>2 DEF BrightInv, RegistersFollow
<1>5. CASE WorkerDataHi \/ WorkerDataLo
  <2>1. /\ worker \in {"data_hi", "data_lo"} /\ UNCHANGED io
        /\ \/ dr' = [dr EXCEPT !.adjHi = Hi(io.adj)]
           \/ dr' = [dr EXCEPT !.adjLo = Lo(io.adj)]
    BY <1>5 DEF WorkerDataHi, WorkerDataLo, WorkerAt
  <2>2. dr'.info = dr.info
    BY <1>0, <2>1, Fields
  <2> QED BY <2>1, <2>2 DEF BrightInv
<1>6. CASE WorkerState
  <2>1. worker = "state" /\ UNCHANGED io /\ dr' = [dr EXCEPT !.info = io.info]
    BY <1>6 DEF WorkerState, WorkerAt
  <2>2. dr'.info = io.info
    BY <1>0, <2>1, Fields
  <2> QED BY <2>1, <2>2 DEF BrightInv
<1>7. CASE SetUpRegisters
  <2>1. main \in Setup /\ worker' = worker
    BY <1>7 DEF SetUpRegisters, SetUp, MainAt, Setup
  <2> QED BY <1>0, <2>1 DEF BrightInv
<1>8. CASE Abort \/ PowerFault \/ Boot \/ CreateWorker
  <2>1. worker' \in {"none", "start"}
    BY <1>8 DEF Abort, PowerFault, Boot, CreateWorker
  <2> QED BY <2>1 DEF BrightInv
<1>9. CASE \/ Tick \/ PressLong \/ DisarmByHost \/ ScheduleAtBoot \/ InitMutex \/ ClearFlag
           \/ SetUpCount \/ (\E w \in WaitTimes : ScheduleByHost(w)) \/ UNCHANGED vars
  <2>1. UNCHANGED <<dr, worker, io>>
    BY <1>9 DEF Tick, PressLong, DisarmByHost, ScheduleAtBoot, InitMutex, ClearFlag, SetUpCount,
                ScheduleByHost, vars
  <2> QED BY <2>1 DEF BrightInv
<1> QED BY <1>1, <1>2, <1>3, <1>4, <1>5, <1>6, <1>7, <1>8, <1>9 DEF Next, Worker

\* Wherever a write is cut in two and however torn a reading of the RTC is: with a disarm in
\* the registers nothing brings the maximum back.
THEOREM NeverBrightAfterDisarm == Spec => []DisarmedNotBright
PROOF
<1>1. Init => SysInv /\ BrightInv
  BY RefInit DEF RefInv, Init, BrightInv
<1>2. (SysInv /\ BrightInv) /\ [Next]_vars => (SysInv /\ BrightInv)'
  BY SysStep, BrightStep
<1> QED BY <1>1, <1>2, BrightImplies, PTL DEF Spec

\* The same from the very first power on.
THEOREM NeverBrightAfterDisarmFromBoot == BootSpec => []DisarmedNotBright
PROOF
<1> DEFINE I == ClockInv /\ SysInv /\ BrightInv
<1>1. BootInit => I
  BY ClockInit, SysBootInit DEF BootInit, BrightInv
<1>2. I /\ [BootNext]_bootVars => I'
  <2> SUFFICES ASSUME I, [BootNext]_bootVars PROVE BrightInv'
    BY ClockStepKeeps, SysBootStep
  <2>1. CASE [Next]_vars
    BY <2>1, BrightStep
  <2>2. CASE RtcConfigure \/ BackupDomainInit
    BY <2>2, NobodyAtInit DEF SysInv, BrightInv
  <2>3. CASE UNCHANGED bootVars
    BY <2>3, BrightStep DEF bootVars
  <2> QED BY <2>1, <2>2, <2>3, BootStepIs
<1>3. I => DisarmedNotBright
  BY BrightImplies
<1> QED BY <1>1, <1>2, <1>3, PTL DEF BootSpec

------------------------------------------------------------------------------
(* Nobody's alarm *)

\* Unless rtc_init was cut before it stored that there is no alarm, it has stored that when it
\* is done, and until somebody schedules an alarm nothing else is written there.
ScheduledInv ==
  /\ OnlyScheduled
  /\ main \in Setup => scheduled
  /\ "RTCEN" \in bdcr /\ clock \notin Unsaid =>
       scheduled \/ "init" \in cuts \/ "FINISHED" \in dr.info
  /\ {scheduled} \subseteq BOOLEAN

\* Only a new alarm takes FINISHED out of the registers that rtc_init has written.
LEMMA ScheduledStep ==
  SysInv /\ ClockInv /\ ScheduledInv /\ [BootNext]_bootVars => ScheduledInv'
PROOF
<1> SUFFICES ASSUME SysInv, ClockInv, ScheduledInv, [BootNext]_bootVars PROVE ScheduledInv'
  OBVIOUS
<1> USE DEF ScheduledInv, OnlyScheduled, Unsaid, registers
<1>0. /\ TypeOK /\ scheduled \in BOOLEAN
      /\ main \in Setup \cup {"boot"} => worker = "none"
      /\ clock # "done" => main = "boot"
  BY DEF SysInv, LockInv, ClockInv
<1>1. CASE NewAlarm
  <2>1. scheduled' = TRUE
    BY <1>1, Zenon DEF NewAlarm
  <2> QED BY <2>1
<1>2. CASE OscillatorStarts
  BY <1>2 DEF OscillatorStarts, vars
<1>3. CASE RtcTick
  BY <1>3 DEF RtcTick, Tick, clockVars
<1>4. CASE LseInit \/ LseSpin
  <2>1. /\ clock \in {"lse", "spin"} /\ clock' \in {"spin", "select"}
        /\ UNCHANGED <<vars, scheduled, cuts>>
        /\ "RTCEN" \in bdcr' <=> "RTCEN" \in bdcr
    BY <1>4 DEF LseInit, LseSpin, ClockStep
  <2> QED BY <2>1 DEF vars
<1>5. CASE RtcSelect
  <2>1. /\ clock = "select" /\ clock' \in {"enable", "done"}
        /\ UNCHANGED <<vars, scheduled, cuts>>
        /\ "RTCEN" \in bdcr' <=> "RTCEN" \in bdcr
    BY <1>5 DEF RtcSelect, ClockStep
  <2> QED BY <2>1 DEF vars
<1>6. CASE RtcEnable
  BY <1>6 DEF RtcEnable, ClockStep, vars
<1>7. CASE RtcConfigure
  BY <1>7 DEF RtcConfigure, ClockStep
<1>8. CASE BackupDomainInit
  <2>1. /\ UNCHANGED <<worker, main, scheduled, cuts, bdcr>> /\ "RTCEN" \in bdcr
        /\ clock \in {"info", "adjHi", "adjLo", "waitHi", "waitLo"}
    BY <1>8 DEF BackupDomainInit, Store, ClockStep, ClockInv
  <2>2. CASE clock = "info"
    <3>1. dr' = [dr EXCEPT !.info = {"FINISHED"}]
      BY <1>8, <2>2 DEF BackupDomainInit, Store, ClockStep, A_ALARM_POR_VALUE
    <3>2. "FINISHED" \in dr'.info
      BY <1>0, <3>1, Fields
    <3> QED BY <2>1, <3>2
  <2>3. CASE clock # "info"
    <3>1. \/ dr' = [dr EXCEPT !.adjHi = 0]
          \/ dr' = [dr EXCEPT !.adjLo = 0]
          \/ dr' = [dr EXCEPT !.waitHi = HalfMod - 1]
          \/ dr' = [dr EXCEPT !.waitLo = HalfMod - 1]
      BY <1>8, <2>3 DEF BackupDomainInit, Store, ClockStep
    <3>2. dr'.info = dr.info
      BY <1>0, <3>1, Fields
    <3> QED BY <2>1, <2>3, <3>2
  <2> QED BY <2>2, <2>3
<1>9. CASE Running
  <2>0. /\ UNCHANGED <<clock, bdcr, scheduled, cuts>> /\ clock = "done" /\ "RTCEN" \in bdcr
    BY <1>9 DEF Running, clockVars, ClockInv
  <2>1. CASE worker # "none"
    <3>1. scheduled \/ "init" \in cuts
      BY <2>1
    <3>2. main' \notin Setup \/ scheduled
      BY <1>0, <1>9, <2>1 DEF Running, Worker, WorkerStart, WorkerLock, WorkerReset,
         WorkerReadHigh, WorkerModel, WorkerDataHi, WorkerDataLo, WorkerState, PressLong,
         DisarmByHost, ScheduleByHost, InitMutex, ClearFlag, SetUpRegisters, SetUp, SetUpCount,
         CreateWorker, Boot, MainAt, Setup
    <3> QED BY <2>0, <3>1, <3>2
  <2>2. CASE worker = "none" /\ main \in Setup
    BY <2>0, <2>2
  <2>3. CASE worker = "none" /\ main \notin Setup
    <3>1. /\ main' \notin Setup /\ UNCHANGED dr
          /\ worker' # "none" => "FINISHED" \notin dr.info
      <4>1. CASE Worker
        BY <2>3, <4>1 DEF Worker, WorkerStart, WorkerLock, WorkerReset,
         WorkerReadHigh, WorkerModel, WorkerDataHi, WorkerDataLo, WorkerState, WorkerAt
      <4>2. CASE PressLong
        BY <2>3, <4>2 DEF PressLong
      <4>3. CASE DisarmByHost
        BY <2>3, <4>3 DEF DisarmByHost, Setup
      <4>4. CASE \E w \in WaitTimes : ScheduleByHost(w)
        BY <2>3, <4>4 DEF ScheduleByHost, Setup
      <4>5. CASE InitMutex \/ ClearFlag \/ SetUpRegisters \/ SetUpCount \/ CreateWorker
        BY <2>3, <4>5 DEF InitMutex, ClearFlag, SetUpRegisters, SetUp, SetUpCount, CreateWorker,
           MainAt, Setup
      <4>6. CASE Boot
        BY <2>3, <4>6 DEF Boot, Setup
      <4> QED BY <1>9, <4>1, <4>2, <4>3, <4>4, <4>5, <4>6 DEF Running
    <3> QED BY <2>0, <2>3, <3>1
  <2> QED BY <2>1, <2>2, <2>3
<1>10. CASE PowerCut
  <2>1. /\ worker' = "none" /\ main' = "boot" /\ UNCHANGED <<dr, bdcr, scheduled>>
        /\ cuts \subseteq cuts' /\ (clock \in Unsaid => "init" \in cuts')
    BY <1>10 DEF PowerCut, PowerFault
  <2> QED BY <2>1 DEF Setup
<1>11. CASE UNCHANGED bootVars
  BY <1>11 DEF bootVars, vars, clockVars
<1> QED BY <1>1, <1>2, <1>3, <1>4, <1>5, <1>6, <1>7, <1>8, <1>9, <1>10, <1>11
        DEF BootNext, RtcInit

\* No alarm runs that nobody scheduled, whenever power is cut, unless it is cut in the few steps
\* between the start of the RTC and the first write to the registers.
THEOREM AlarmsAreScheduled == BootSpec => []OnlyScheduled
PROOF
<1> DEFINE I == ClockInv /\ SysInv /\ ScheduledInv
<1>1. BootInit => I
  <2>1. BootInit => scheduled \in BOOLEAN
    BY Zenon DEF BootInit
  <2> QED BY <2>1, ClockInit, SysBootInit DEF BootInit, ScheduledInv, OnlyScheduled, Setup
<1>2. I /\ [BootNext]_bootVars => I'
  BY ClockStepKeeps, SysBootStep, ScheduledStep
<1>3. I => OnlyScheduled
  BY DEF ScheduledInv
<1> QED BY <1>1, <1>2, <1>3, PTL DEF BootSpec

------------------------------------------------------------------------------
(* Why an assert may fail *)

\* rtc_init meets an alarm in the registers only where it is going to leave them alone.
DomainInv ==
  \/ "RTCEN" \notin bdcr
  \/ clock \in {"enable", "count", "info", "adjHi", "adjLo", "waitHi", "waitLo"}
  => dr.info \subseteq {"FINISHED"} /\ dr.adjHi = 0 /\ dr.adjLo = 0

RegistersConsistent ==
  FlagsOK(dr.info) /\ AdjOK(dr.info, backup_data_get, cnt, rtc_get_alarm)

BlockConsistent == io.failed = {} /\ AdjOK(io.info, io.adj, cnt, rtc_get_alarm)

\* The flags and the adjustment go together and with the counter, in the registers and in
\* the worker's block, unless power was cut in a write of the present alarm: then anything
\* may be found there.  What has been read of CNTH is never ahead of it.
TornInv ==
  /\ worker = "model" => high <= Hi(cnt)
  /\ worker = "start" => "FINISHED" \notin dr.info
  /\ "write" \notin cuts =>
       /\ main \notin Setup /\ worker \notin {"data_lo", "state"} => RegistersConsistent
       /\ worker \in {"lock", "reset", "rtc", "model"} =>
            BlockConsistent /\ {"PRE_CANCEL", "FINISHED"} \cap io.info = {}
       /\ worker \in {"data_hi", "data_lo", "state"} => BlockConsistent /\ FlagsOK(io.info)
       /\ worker = "hung" => /\ io.failed = {"rtc not before adjustment"}
                             /\ last + HalfMod <= cnt

\* CNTH read, then CNTL: the time is right or at least one overflow of CNTL too small.
LEMMA TimeNotAhead ==
  ASSUME TypeOK, high <= Hi(cnt)
  PROVE  LET time == high * HalfMod + Lo(cnt)
         IN  time \in Word /\ time <= cnt /\ (time = cnt \/ time + HalfMod <= cnt)
PROOF
<1>1. /\ cnt \in Word /\ high \in Nat /\ Hi(cnt) \in Nat /\ Lo(cnt) \in Nat
      /\ HalfMod \in Nat /\ cnt = Hi(cnt) * HalfMod + Lo(cnt) /\ cnt \in Nat
  BY RegisterWords, SplitWord, HalvesMakeWord, Widths DEF TypeOK, Half
<1>2. high * HalfMod + Lo(cnt) \in Word
  BY TimeRead
<1>3. CASE high = Hi(cnt)
  BY <1>1, <1>2, <1>3
<1>4. CASE high + 1 <= Hi(cnt)
  <2>1. ASSUME NEW a \in Nat, NEW b \in Nat, NEW h \in Nat, a + 1 <= b
        PROVE  a * h + h <= b * h /\ a * h \in Nat /\ b * h \in Nat
    <3>1. PICK d \in Nat : b = a + 1 + d
      <4>1. b - a - 1 \in Nat /\ b = a + 1 + (b - a - 1)
        BY <2>1
      <4> QED BY <4>1
    <3>2. b * h = a * h + h + d * h /\ a * h \in Nat /\ d * h \in Nat
      BY <3>1
    <3> QED BY <3>2
  <2>2. high * HalfMod + HalfMod <= Hi(cnt) * HalfMod
    BY <1>1, <1>4, <2>1
  <2>3. high * HalfMod \in Nat /\ Hi(cnt) * HalfMod \in Nat
    BY <1>1
  <2> QED BY <1>1, <1>2, <2>2, <2>3
<1>5. high = Hi(cnt) \/ high + 1 <= Hi(cnt)
  <2>1. high \in Nat /\ Hi(cnt) \in Nat
    BY <1>1
  <2> QED BY <2>1
<1> QED BY <1>3, <1>4, <1>5

\* The high half does not go back while time goes on.
LEMMA HiGrows ==
  ASSUME NEW x \in Nat PROVE Hi(x) <= Hi(x + 1) /\ Hi(x) \in Nat /\ Hi(x + 1) \in Nat
PROOF
<1>1. ASSUME NEW n \in Nat, NEW h \in Nat, 0 < h
      PROVE  n \div h <= (n + 1) \div h /\ n \div h \in Nat /\ (n + 1) \div h \in Nat
  BY <1>1, SMTT(20)
<1> QED BY <1>1, Widths DEF Hi

\* Registers without a disarm and with the adjustment at zero go together.
LEMMA NothingDisarmed ==
  ASSUME TypeOK, dr.info \subseteq {"FINISHED"}, dr.adjHi = 0, dr.adjLo = 0
  PROVE  RegistersConsistent
PROOF
<1>1. backup_data_get = 0 /\ cnt \in Nat
  BY Widths DEF backup_data_get, TypeOK
<1> QED BY <1>1 DEF RegistersConsistent, FlagsOK, AdjOK

\* Time does no harm.
LEMMA TornTick == SysInv /\ TornInv /\ RtcTick => TornInv'
PROOF
<1> SUFFICES ASSUME SysInv, TornInv, RtcTick PROVE TornInv'
  OBVIOUS
<1>1. /\ cnt' = cnt + 1 /\ cnt \in Nat /\ UNCHANGED <<dr, worker, io, high, main, last, cuts>>
      /\ last \in Nat /\ HalfMod \in Nat /\ backup_data_get \in Nat /\ io.adj \in Nat
      /\ high \in Nat
  BY RegisterWords, Widths DEF RtcTick, Tick, SysInv, TypeOK, Word, IO, Half
<1>2. worker = "model" => high <= Hi(cnt')
  BY <1>1, HiGrows DEF TornInv
<1>3. backup_data_get' = backup_data_get /\ rtc_get_alarm' = rtc_get_alarm
  BY <1>1 DEF backup_data_get, rtc_get_alarm
<1>4. RegistersConsistent => RegistersConsistent'
  <2>1. AdjOK(dr.info, backup_data_get, cnt, rtc_get_alarm) =>
          AdjOK(dr.info, backup_data_get, cnt + 1, rtc_get_alarm)
    BY <1>1, AdjOKLater
  <2> QED BY <1>1, <1>3, <2>1 DEF RegistersConsistent
<1>5. BlockConsistent => BlockConsistent'
  <2>1. AdjOK(io.info, io.adj, cnt, rtc_get_alarm) =>
          AdjOK(io.info, io.adj, cnt + 1, rtc_get_alarm)
    BY <1>1, AdjOKLater
  <2> QED BY <1>1, <1>3, <2>1 DEF BlockConsistent
<1>6. last + HalfMod <= cnt => last + HalfMod <= cnt'
  BY <1>1
<1> QED BY <1>1, <1>2, <1>4, <1>5, <1>6 DEF TornInv

\* The model is called with a block that goes together, but perhaps too early a time.
LEMMA TornModelStep ==
  ASSUME SysInv, TornInv, WorkerModel, UNCHANGED cuts, "write" \notin cuts
  PROVE  /\ io'.failed = {} => BlockConsistent' /\ FlagsOK(io'.info)
         /\ io'.failed # {} => /\ io'.failed = {"rtc not before adjustment"}
                               /\ last' + HalfMod <= cnt'
PROOF
<1> DEFINE b    == ClearNew(io)
           time == high * HalfMod + Lo(cnt)
           new  == "NEW" \in io.info
           out  == do_alarm_model(time, IF new THEN set_disarm_new(b) ELSE b, wait_time)
<1>1. /\ worker = "model" /\ UNCHANGED <<cnt, dr>> /\ last' = time
      /\ io' = do_alarm_model(time, io, wait_time)
  BY DEF WorkerModel, WorkerAt, registers
<1>2. /\ TypeOK /\ io \in IO /\ io.failed = {} /\ wait_time = rtc_get_alarm
      /\ AdjOK(io.info, io.adj, cnt, wait_time) /\ {"PRE_CANCEL", "FINISHED"} \cap io.info = {}
      /\ high <= Hi(cnt) /\ wait_time \in Word /\ cnt \in Nat
  BY <1>1, RegisterWords, Widths
     DEF SysInv, TypeOK, RegistersFollow, TornInv, BlockConsistent, Word
<1>3. time \in Word /\ time <= cnt /\ (time = cnt \/ time + HalfMod <= cnt)
  BY <1>2, TimeNotAhead
<1>4. /\ b \in IO /\ b.info = io.info \ {"NEW"} /\ b.adj = io.adj /\ b.failed = {}
      /\ io = IF new THEN set_disarm_new(b) ELSE b
  <2>1. b \in IO /\ b.info = io.info \ {"NEW"} /\ (IF new THEN set_disarm_new(b) ELSE b) = io
    BY <1>2, OtherFlags
  <2>2. b.adj = io.adj /\ b.failed = io.failed
    BY <1>2 DEF ClearNew, IO
  <2> QED BY <1>2, <2>1, <2>2
<1>5. Clean(b) /\ AdjOK(b.info, b.adj, cnt, wait_time)
  BY <1>2, <1>4 DEF Clean, AdjOK
<1>6. io' = out /\ new \in BOOLEAN
  BY <1>1, <1>4
<1>7. rtc_get_alarm' = wait_time
  BY <1>1, <1>2 DEF rtc_get_alarm
<1>8. out \in IO /\ out.adj \in Nat /\ time \in Nat
  <2>1. out \in IO
    BY <1>1, <1>2, <1>3, <1>6, CallBlock
  <2> QED BY <1>3, <2>1, DurationTypes DEF IO, Word
<1> HIDE DEF b, time, new, out
<1>9. ASSUME out.failed = {}, FlagsOK(out.info), AdjOK(out.info, out.adj, time, wait_time)
      PROVE  BlockConsistent' /\ FlagsOK(io'.info)
  <2>1. AdjOK(out.info, out.adj, cnt, wait_time)
    BY <1>2, <1>3, <1>8, <1>9, AdjOKLater
  <2> QED BY <1>1, <1>6, <1>7, <1>9, <2>1 DEF BlockConsistent
<1>10. CASE b.adj <= time
  <2>1. AdjOK(b.info, b.adj, time, wait_time)
    BY <1>5, <1>10 DEF AdjOK
  <2>2. Called(out, b, time, wait_time)
    BY <1>2, <1>3, <1>5, <1>6, <2>1, CallOutcome DEF out
  <2> QED BY <1>6, <1>9, <2>2 DEF Called
<1>11. CASE time < b.adj
  <2>1. time + HalfMod <= cnt
    <3>1. b.adj <= cnt /\ b.adj \in Nat
      BY <1>4, <1>5, DurationTypes DEF AdjOK, IO, Word
    <3> QED BY <1>2, <1>3, <1>8, <1>11, <3>1
  <2>2. \/ out.failed = {"rtc not before adjustment"}
        \/ out.failed = {} /\ FlagsOK(out.info) /\ AdjOK(out.info, out.adj, time, wait_time)
    BY <1>2, <1>3, <1>5, <1>6, <1>11, TornCall DEF out
  <2> QED BY <1>1, <1>6, <1>9, <2>1, <2>2 DEF time
<1>12. b.adj <= time \/ time < b.adj
  <2>1. b.adj \in Nat
    BY <1>4, DurationTypes DEF IO, Word
  <2> QED BY <1>8, <2>1
<1> QED BY <1>10, <1>11, <1>12

\* Nothing else the worker does brings flags and adjustment apart.
LEMMA TornWorker ==
  ASSUME SysInv, TornInv, Worker, UNCHANGED cuts PROVE TornInv'
PROOF
<1> USE DEF registers
<1>0. /\ main \notin Setup \cup {"boot"} /\ worker # "none" /\ TypeOK /\ io \in IO
      /\ RegistersFollow /\ main' \notin Setup
  <2>1. main \notin Setup \cup {"boot"} /\ worker # "none" /\ TypeOK /\ RegistersFollow
    BY WorkerRuns DEF SysInv
  <2>2. main' \in {main, "idle"}
    BY DEF Worker, WorkerStart, WorkerLock, WorkerReset, WorkerReadHigh, WorkerModel,
           WorkerDataHi, WorkerDataLo, WorkerState
  <2> QED BY <2>1, <2>2 DEF TypeOK, Setup
<1>1. CASE WorkerStart
  <2>1. /\ worker = "start" /\ worker' = "lock" /\ UNCHANGED <<cnt, dr>>
        /\ io' = StartIO(dr.info, backup_data_get)
    BY <1>1 DEF WorkerStart, WorkerAt
  <2>2. io'.info = dr.info /\ io'.adj = backup_data_get /\ io'.failed = {}
    BY <1>0, <2>1, RegisterWords, StartIOFields
  <2>3. RegistersConsistent' <=> RegistersConsistent
    BY <2>1 DEF RegistersConsistent, backup_data_get, rtc_get_alarm
  <2>4. RegistersConsistent => BlockConsistent'
    BY <2>1, <2>2 DEF RegistersConsistent, BlockConsistent, rtc_get_alarm
  <2>5. RegistersConsistent => {"PRE_CANCEL", "FINISHED"} \cap io'.info = {}
    BY <2>1, <2>2 DEF RegistersConsistent, FlagsOK, TornInv
  <2> QED BY <1>0, <2>1, <2>3, <2>4, <2>5 DEF TornInv
<1>2. CASE WorkerLock \/ WorkerReset \/ WorkerReadHigh
  <2>1. /\ UNCHANGED <<cnt, dr>> /\ worker \in {"lock", "reset", "rtc"}
        /\ worker' \in {"reset", "rtc", "model"}
        /\ io' \in {io, set_disarm_new(io)}
        /\ worker' = "model" => high' = Hi(cnt)
    BY <1>2 DEF WorkerLock, WorkerReset, WorkerReadHigh, WorkerAt
  <2>2. /\ io'.info \in {io.info, io.info \cup {"NEW"}}
        /\ io'.adj = io.adj /\ io'.failed = io.failed
    BY <1>0, <2>1 DEF set_disarm_new, IO
  <2>3. RegistersConsistent' <=> RegistersConsistent
    BY <2>1 DEF RegistersConsistent, backup_data_get, rtc_get_alarm
  <2>4. BlockConsistent => BlockConsistent'
    BY <2>1, <2>2 DEF BlockConsistent, AdjOK, rtc_get_alarm
  <2>5. {"PRE_CANCEL", "FINISHED"} \cap io'.info = {"PRE_CANCEL", "FINISHED"} \cap io.info
    BY <2>2
  <2>6. worker' = "model" => high' <= Hi(cnt')
    <3>1. Hi(cnt) \in Nat
      BY <1>0, RegisterWords, SplitWord DEF Half
    <3> QED BY <2>1, <3>1
  <2> QED BY <1>0, <2>1, <2>3, <2>4, <2>5, <2>6 DEF TornInv
<1>3. CASE WorkerModel
  <2>1. /\ worker = "model" /\ UNCHANGED <<cnt, dr>>
        /\ worker' = IF io'.failed = {} THEN "data_hi" ELSE "hung"
    BY <1>3 DEF WorkerModel, WorkerAt
  <2>2. RegistersConsistent' <=> RegistersConsistent
    BY <2>1 DEF RegistersConsistent, backup_data_get, rtc_get_alarm
  <2>3. "write" \notin cuts =>
          /\ io'.failed = {} => BlockConsistent' /\ FlagsOK(io'.info)
          /\ io'.failed # {} => /\ io'.failed = {"rtc not before adjustment"}
                                /\ last' + HalfMod <= cnt'
    BY <1>3, TornModelStep
  <2> QED BY <1>0, <2>1, <2>2, <2>3 DEF TornInv
<1>4. CASE WorkerDataHi \/ WorkerDataLo
  <2>1. /\ worker \in {"data_hi", "data_lo"} /\ worker' \in {"data_lo", "state"}
        /\ UNCHANGED <<cnt, io>>
        /\ \/ dr' = [dr EXCEPT !.adjHi = Hi(io.adj)]
           \/ dr' = [dr EXCEPT !.adjLo = Lo(io.adj)]
    BY <1>4 DEF WorkerDataHi, WorkerDataLo, WorkerAt
  <2>2. dr'.waitHi = dr.waitHi /\ dr'.waitLo = dr.waitLo
    <3>1. CASE dr' = [dr EXCEPT !.adjHi = Hi(io.adj)]
      BY <1>0, <3>1, RegisterWritten
    <3>2. CASE dr' = [dr EXCEPT !.adjLo = Lo(io.adj)]
      BY <1>0, <3>2, RegisterWritten
    <3> QED BY <2>1, <3>1, <3>2
  <2>3. BlockConsistent => BlockConsistent'
    BY <2>1, <2>2 DEF BlockConsistent, rtc_get_alarm
  <2> QED BY <1>0, <2>1, <2>3 DEF TornInv
<1>5. CASE WorkerState
  <2>1. /\ worker = "state" /\ UNCHANGED <<cnt, io>> /\ dr' = [dr EXCEPT !.info = io.info]
        /\ worker' = IF alarm_finished(io) THEN "none" ELSE "lock"
    BY <1>5 DEF WorkerState, WorkerAt
  <2>2. /\ dr'.info = io.info /\ UNCHANGED rtc_get_alarm /\ backup_data_get' = backup_data_get
    BY <1>0, <2>1, RegisterWritten DEF rtc_get_alarm, backup_data_get
  <2>3. backup_data_get = io.adj
    <3>1. dr.adjHi = Hi(io.adj) /\ dr.adjLo = Lo(io.adj) /\ io.adj \in Word
      BY <1>0, <2>1 DEF RegistersFollow, IO
    <3> QED BY <3>1, HalvesMakeWord DEF backup_data_get
  <2>4. BlockConsistent /\ FlagsOK(io.info) =>
          /\ RegistersConsistent' /\ BlockConsistent'
          /\ "FINISHED" \notin io.info => {"PRE_CANCEL", "FINISHED"} \cap io.info = {}
    BY <2>1, <2>2, <2>3 DEF BlockConsistent, RegistersConsistent, FlagsOK
  <2> QED BY <1>0, <2>1, <2>2, <2>4 DEF TornInv, alarm_finished
<1> QED BY <1>1, <1>2, <1>3, <1>4, <1>5 DEF Worker

\* A new alarm finds its registers as it needs them, and a power cut leaves them alone.
LEMMA TornMain ==
  ASSUME SysInv, TornInv,
         \/ NewAlarm \/ PowerCut
         \/ /\ Running /\ ~Worker
  PROVE  TornInv'
PROOF
<1> USE DEF registers
<1>0. /\ TypeOK /\ io \in IO /\ SetUpSoFar
      /\ main \in Setup \cup {"boot"} => worker = "none"
      /\ main = "create" => RegistersConsistent
  <2>1. TypeOK /\ LockInv /\ SetUpSoFar
    BY DEF SysInv
  <2>2. main = "create" => dr.info = {} /\ dr.adjHi = 0 /\ dr.adjLo = 0
    BY <2>1 DEF SetUpSoFar, Setup, A_ALARM_NEW
  <2> QED BY <2>1, <2>2, NothingDisarmed DEF LockInv, TypeOK
<1>1. CASE NewAlarm
  <2>1. main' \in Setup /\ worker' = "none"
    BY <1>0, <1>1 DEF NewAlarm, ScheduleAtBoot, Abort, Setup
  <2> QED BY <2>1 DEF TornInv
<1>2. CASE PowerCut
  <2>1. /\ worker' = "none" /\ main' = "boot" /\ UNCHANGED <<dr, cnt>>
        /\ "write" \notin cuts' => /\ "write" \notin cuts /\ main \notin Setup \ {"create"}
                                   /\ worker \notin {"data_lo", "state"}
    BY <1>2 DEF PowerCut, PowerFault, InWindow
  <2>2. RegistersConsistent' <=> RegistersConsistent
    BY <2>1 DEF RegistersConsistent, backup_data_get, rtc_get_alarm
  <2> QED BY <1>0, <2>1, <2>2 DEF TornInv
<1>3. CASE Running /\ (InitMutex \/ ClearFlag \/ SetUpRegisters \/ SetUpCount)
  <2>1. main \in Setup /\ main' \in Setup /\ UNCHANGED worker
    BY <1>3 DEF InitMutex, ClearFlag, SetUpRegisters, SetUp, SetUpCount, MainAt, Setup
  <2> QED BY <1>0, <2>1 DEF TornInv
<1>4. CASE Running /\ (CreateWorker \/ Boot)
  <2>1. /\ UNCHANGED <<dr, cnt, io, cuts>> /\ main \in {"create", "boot"} /\ main' = "idle"
        /\ worker' \in {"none", "start"} /\ worker = "none"
        /\ worker' = "start" => main = "create" \/ "FINISHED" \notin dr.info
    BY <1>0, <1>4 DEF Running, CreateWorker, Boot, MainAt, Setup
  <2>2. RegistersConsistent' <=> RegistersConsistent
    BY <2>1 DEF RegistersConsistent, backup_data_get, rtc_get_alarm
  <2>3. main = "create" => "FINISHED" \notin dr.info
    BY <1>0 DEF SetUpSoFar, A_ALARM_NEW
  <2> QED BY <1>0, <2>1, <2>2, <2>3 DEF TornInv, Setup
<1>5. CASE Running /\ (PressLong \/ DisarmByHost \/ \E w \in WaitTimes : ScheduleByHost(w))
  <2>1. /\ UNCHANGED <<dr, cnt, io, cuts, worker, high, last>>
        /\ main \in Setup <=> main' \in Setup
    BY <1>5 DEF Running, PressLong, DisarmByHost, ScheduleByHost, MainAt, Setup
  <2>2. /\ RegistersConsistent' <=> RegistersConsistent
        /\ BlockConsistent' <=> BlockConsistent
    BY <2>1 DEF RegistersConsistent, BlockConsistent, backup_data_get, rtc_get_alarm
  <2> QED BY <2>1, <2>2 DEF TornInv
<1> QED BY <1>1, <1>2, <1>3, <1>4, <1>5 DEF Running

\* The registers are as rtc_init needs them when it comes to write them.
LEMMA DomainStep == SysInv /\ ClockInv /\ DomainInv /\ [BootNext]_bootVars => DomainInv'
PROOF
<1> SUFFICES ASSUME SysInv, ClockInv, DomainInv, [BootNext]_bootVars PROVE DomainInv'
  OBVIOUS
<1> USE DEF DomainInv
<1>1. CASE OscillatorStarts
  BY <1>1 DEF OscillatorStarts, vars
<1>2. CASE RtcTick
  BY <1>2 DEF RtcTick, Tick, clockVars
<1>3. CASE LseInit \/ LseSpin
  BY <1>3 DEF LseInit, LseSpin, ClockStep, vars
<1>4. CASE RtcSelect
  BY <1>4 DEF RtcSelect, ClockStep, vars
<1>5. CASE RtcEnable
  BY <1>5 DEF RtcEnable, ClockStep, vars
<1>6. CASE RtcConfigure \/ BackupDomainInit
  <2>1. clock \in {"count", "info", "adjHi", "adjLo", "waitHi", "waitLo"}
    BY <1>6 DEF RtcConfigure, BackupDomainInit, Store, ClockStep
  <2>2. TypeOK
    BY DEF SysInv
  <2> QED BY <1>6, <2>1, <2>2, InitWrites DEF A_ALARM_POR_VALUE
<1>7. CASE NewAlarm \/ Running
  <2>1. "RTCEN" \in bdcr' /\ clock' = "done"
    BY <1>7 DEF NewAlarm, Running, clockVars, ClockInv
  <2> QED BY <2>1
<1>8. CASE PowerCut
  BY <1>8 DEF PowerCut, PowerFault, registers
<1>9. CASE UNCHANGED bootVars
  BY <1>9 DEF bootVars, vars, clockVars
<1> QED BY <1>1, <1>2, <1>3, <1>4, <1>5, <1>6, <1>7, <1>8, <1>9 DEF BootNext, RtcInit

\* Every step from the first power on keeps the registers and the block together.
LEMMA TornStep ==
  SysInv /\ ClockInv /\ DomainInv /\ TornInv /\ [BootNext]_bootVars => TornInv'
PROOF
<1> SUFFICES ASSUME SysInv, ClockInv, DomainInv, TornInv, [BootNext]_bootVars PROVE TornInv'
  OBVIOUS
<1>1. CASE RtcTick
  BY <1>1, TornTick
<1>2. CASE Running /\ Worker
  BY <1>2, TornWorker DEF Running
<1>3. CASE NewAlarm \/ PowerCut \/ (Running /\ ~Worker)
  BY <1>3, TornMain
<1>4. CASE RtcConfigure \/ BackupDomainInit
  <2>1. /\ worker' = "none" /\ UNCHANGED cuts
        /\ clock \in {"count", "info", "adjHi", "adjLo", "waitHi", "waitLo"}
    BY <1>4, NobodyAtInit DEF SysInv, RtcConfigure, BackupDomainInit, Store, ClockStep
  <2>2. TypeOK' /\ dr'.info \subseteq {"FINISHED"} /\ dr'.adjHi = 0 /\ dr'.adjLo = 0
    BY <1>4, <2>1, SysBootStep, InitWrites DEF SysInv, DomainInv, A_ALARM_POR_VALUE
  <2>3. RegistersConsistent'
    <3>1. backup_data_get' = 0 /\ cnt' \in Nat
      BY <2>2, Widths DEF backup_data_get, TypeOK
    <3> QED BY <2>2, <3>1 DEF RegistersConsistent, FlagsOK, AdjOK
  <2> QED BY <2>1, <2>3 DEF TornInv
<1>5. CASE \/ OscillatorStarts \/ LseInit \/ LseSpin \/ RtcSelect \/ RtcEnable
           \/ UNCHANGED bootVars
  <2>1. UNCHANGED vars /\ UNCHANGED cuts
    BY <1>5 DEF OscillatorStarts, LseInit, LseSpin, RtcSelect, RtcEnable, ClockStep, bootVars
  <2>2. /\ RegistersConsistent' <=> RegistersConsistent
        /\ BlockConsistent' <=> BlockConsistent
    BY <2>1 DEF vars, RegistersConsistent, BlockConsistent, backup_data_get, rtc_get_alarm
  <2> QED BY <2>1, <2>2 DEF TornInv, vars
<1> QED BY <1>1, <1>2, <1>3, <1>4, <1>5 DEF BootNext, RtcInit

\* When the firmware hangs in an assert, power was cut in a write of the present alarm's
\* registers, or CNTL ran over between the two readings of the RTC: there is no other way.
THEOREM OnlyTornAlarmsFail == BootSpec => []FailsOnlyWhenTorn
PROOF
<1> DEFINE I == ClockInv /\ SysInv /\ DomainInv /\ TornInv
<1>1. BootInit => I
  <2> SUFFICES ASSUME BootInit PROVE DomainInv /\ TornInv
    BY ClockInit, SysBootInit
  <2>1. TypeOK /\ dr.info = {} /\ dr.adjHi = 0 /\ dr.adjLo = 0
    BY SysBootInit DEF BootInit, SysInv, A_ALARM_NEW
  <2>2. RegistersConsistent
    BY <2>1, NothingDisarmed
  <2> QED BY <2>1, <2>2 DEF BootInit, DomainInv, TornInv
<1>2. I /\ [BootNext]_bootVars => I'
  BY ClockStepKeeps, SysBootStep, DomainStep, TornStep
<1>3. I => FailsOnlyWhenTorn
  BY DEF TornInv, FailsOnlyWhenTorn
<1> QED BY <1>1, <1>2, <1>3, PTL DEF BootSpec
==============================================================================
