------------------------------ MODULE BtAtProofs ------------------------------
(***************************************************************************)
(* BtAt for a module with any parameters and any number of retries: what   *)
(* hm11_init reports is true, when it reports success and when it does     *)
(* not.                                                                    *)
(***************************************************************************)
EXTENDS BtAt, TLAPS

\* The parameters that a list of commands asks for.
ToAsk(cmds) == {cmds[i].what : i \in 1 .. Len(cmds)}

\* Why hm11_init may fail.
Hopeless(p) == p \in refused \/ p \notin Reconfigured

\* A parameter that the outer call does not ask for any more is good.  An inner
\* call is there for the one that the outer call has come to, and has set it
\* when it is through its list.
ListInv ==
  /\ Params \subseteq good \cup ToAsk(calls[1].cmds)
  /\ Len(calls) = 2 =>
       /\ calls[1].cmds # <<>> /\ calls[1].retry = MAX_RETRY_AT
       /\ \/ calls[2].cmds = reconf(Head(calls[1].cmds).what)
          \/ calls[2].cmds = <<>> /\ Head(calls[1].cmds).what \in good

\* The retries that are used up are answers that were lost in a row, so that
\* silence alone never fails an attempt.  An answer that came tells what the
\* module has.
AnswerInv ==
  /\ step = "loop"  => lost >= MAX_RETRY_AT - Top.retry
  /\ step = "judge" =>
       /\ Top.cmds # <<>>
       /\ answer = "silent" => lost > MAX_RETRY_AT - Top.retry
       /\ answer = "right"  => Cmd.what \in good
       /\ answer = "wrong"  => /\ Cmd.what \notin good
                               /\ Cmd.verb = "set" => Cmd.what \in refused

RetInv ==
  /\ step \in {"return", "done"} /\ ret = "OK" => Top.cmds = <<>>
  /\ ret = "EINVAL" => /\ step \in {"return", "done"}
                       /\ \E p \in Params \ good : Hopeless(p)
  /\ step = "done" => Len(calls) = 1

AtInv == TypeOK /\ ListInv /\ AnswerInv /\ RetInv

------------------------------------------------------------------------------
(* Lists and calls *)

CallRecord == [cmds : Seq(Command), retry : 0 .. MAX_RETRY_AT, reset_left : BOOLEAN]

\* The parameters are those of a sequence.
LEMMA Lists ==
  /\ Asserted \in Seq(Params) /\ Len(Asserted) \in Nat
  /\ Reconfigured \subseteq Params
  /\ MAX_RETRY_AT \in Nat /\ MAX_RETRY_AT >= 1
  BY ListAssumption

\* hm11_assert asks for every parameter there is.
LEMMA AssertAsks == hm11_assert \in Seq(Command) /\ ToAsk(hm11_assert) = Params
PROOF
<1>1. ASSUME NEW i \in 1 .. Len(Asserted)
      PROVE  hm11_assert[i] \in Command /\ hm11_assert[i].what = Asserted[i]
  <2>1. Asserted[i] \in Params
    BY <1>1 DEF Params
  <2>2. ASSUME NEW p \in Params
        PROVE  /\ [verb |-> "get", what |-> p] \in Command
               /\ [verb |-> "get", what |-> p].what = p
    BY DEF Command
  <2>3. hm11_assert[i] = [verb |-> "get", what |-> Asserted[i]]
    BY Zenon DEF hm11_assert
  <2> QED BY <2>1, <2>2, <2>3
<1>2. hm11_assert \in Seq(Command) /\ Len(hm11_assert) = Len(Asserted)
  <2>1. hm11_assert \in [1 .. Len(Asserted) -> Command]
    BY <1>1 DEF hm11_assert
  <2> QED BY <2>1, Lists
<1>3. \A i \in 1 .. Len(Asserted) : hm11_assert[i].what = Asserted[i]
  BY <1>1
<1> QED BY <1>2, <1>3 DEF ToAsk, Params

\* The list to set a parameter with is one command.
LEMMA ReconfSets ==
  ASSUME NEW p \in Params
  PROVE  /\ reconf(p) \in Seq(Command) /\ reconf(p) # <<>> /\ Tail(reconf(p)) = <<>>
         /\ Head(reconf(p)) = [verb |-> "set", what |-> p]
PROOF
<1>1. [verb |-> "set", what |-> p] \in Command
  BY DEF Command
<1> QED BY <1>1 DEF reconf

\* What a list asks for is what its first command asks for and what the others do.
LEMMA AskTail ==
  ASSUME NEW cmds \in Seq(Command), cmds # <<>>
  PROVE  /\ Head(cmds) \in Command /\ Tail(cmds) \in Seq(Command)
         /\ ToAsk(cmds) \subseteq {Head(cmds).what} \cup ToAsk(Tail(cmds))
PROOF
<1>1. /\ Head(cmds) = cmds[1] /\ Head(cmds) \in Command /\ Tail(cmds) \in Seq(Command)
      /\ Len(cmds) \in Nat /\ Len(Tail(cmds)) = Len(cmds) - 1
      /\ \A i \in 1 .. Len(cmds) - 1 : Tail(cmds)[i] = cmds[i + 1]
  OBVIOUS
<1>2. ASSUME NEW i \in 1 .. Len(cmds), i # 1
      PROVE  cmds[i].what \in ToAsk(Tail(cmds))
  <2>1. i - 1 \in 1 .. Len(Tail(cmds)) /\ Tail(cmds)[i - 1] = cmds[i]
    BY <1>1, <1>2
  <2> QED BY <2>1 DEF ToAsk
<1> QED BY <1>1, <1>2 DEF ToAsk

\* A new call has all its retries.
LEMMA CallType ==
  ASSUME NEW cmds \in Seq(Command)
  PROVE  Call(cmds) \in CallRecord /\ Call(cmds).cmds = cmds /\ Call(cmds).retry = MAX_RETRY_AT
  BY Lists DEF Call, CallRecord

\* The calls that there are.
LEMMA CallsType ==
  ASSUME TypeOK
  PROVE  /\ calls \in Seq(CallRecord) /\ Len(calls) \in 1 .. 2
         /\ Top \in CallRecord /\ calls[1] \in CallRecord
         /\ Top.cmds \in Seq(Command) /\ Top.retry \in 0 .. MAX_RETRY_AT
         /\ Len(calls) = 1 => Top = calls[1]
         /\ Len(calls) = 2 => Top = calls[2]
PROOF
<1>1. calls \in Seq(CallRecord) /\ Len(calls) \in 1 .. 2
  BY DEF TypeOK, CallRecord
<1>2. Top \in CallRecord /\ calls[1] \in CallRecord
  BY <1>1 DEF Top
<1> QED BY <1>1, <1>2 DEF Top, CallRecord

\* The innermost call in other words.
LEMMA TopUpdate ==
  ASSUME NEW call \in CallRecord
  PROVE  /\ \A n \in 0 .. MAX_RETRY_AT :
              LET new == [call EXCEPT !.retry = n]
              IN  /\ new \in CallRecord /\ new.cmds = call.cmds
                  /\ new.retry = n /\ new.reset_left = call.reset_left
         /\ \A cmds \in Seq(Command) :
              LET new == [call EXCEPT !.cmds = cmds]
              IN  /\ new \in CallRecord /\ new.cmds = cmds
                  /\ new.retry = call.retry /\ new.reset_left = call.reset_left
         /\ LET new == [call EXCEPT !.reset_left = TRUE, !.retry = MAX_RETRY_AT]
            IN  /\ new \in CallRecord /\ new.cmds = call.cmds
                /\ new.retry = MAX_RETRY_AT
PROOF
<1>1. ASSUME NEW n \in 0 .. MAX_RETRY_AT
      PROVE  /\ [call EXCEPT !.retry = n] \in CallRecord
             /\ [call EXCEPT !.retry = n].cmds = call.cmds
             /\ [call EXCEPT !.retry = n].retry = n
             /\ [call EXCEPT !.retry = n].reset_left = call.reset_left
  BY DEF CallRecord
<1>2. ASSUME NEW cmds \in Seq(Command)
      PROVE  /\ [call EXCEPT !.cmds = cmds] \in CallRecord
             /\ [call EXCEPT !.cmds = cmds].cmds = cmds
             /\ [call EXCEPT !.cmds = cmds].retry = call.retry
             /\ [call EXCEPT !.cmds = cmds].reset_left = call.reset_left
  BY DEF CallRecord
<1>3. /\ [call EXCEPT !.reset_left = TRUE, !.retry = MAX_RETRY_AT] \in CallRecord
      /\ [call EXCEPT !.reset_left = TRUE, !.retry = MAX_RETRY_AT].cmds = call.cmds
      /\ [call EXCEPT !.reset_left = TRUE, !.retry = MAX_RETRY_AT].retry = MAX_RETRY_AT
  <2>1. MAX_RETRY_AT \in 0 .. MAX_RETRY_AT
    BY Lists
  <2> QED BY <2>1 DEF CallRecord
<1> QED BY <1>1, <1>2, <1>3

\* What SetTop does to the calls.
LEMMA SetTopStep ==
  ASSUME TypeOK, NEW call \in CallRecord, SetTop(call)
  PROVE  /\ calls' \in Seq(CallRecord) /\ Len(calls') = Len(calls)
         /\ Top' = call
         /\ Len(calls) = 1 => calls'[1] = call
         /\ Len(calls) = 2 => calls'[1] = calls[1] /\ calls'[2] = call
PROOF
<1>1. calls \in Seq(CallRecord) /\ Len(calls) \in 1 .. 2
  BY CallsType
<1>2. calls' = [calls EXCEPT ![Len(calls)] = call]
  BY DEF SetTop
<1> QED BY <1>1, <1>2 DEF Top

\* As long as the innermost list stays as it is there is nothing new to ask for.
LEMMA SameLists ==
  ASSUME TypeOK, ListInv, NEW call \in CallRecord, SetTop(call), call.cmds = Top.cmds,
         good' = good
  PROVE  ListInv'
PROOF
<1>1. /\ Len(calls) \in 1 .. 2 /\ Len(calls') = Len(calls)
      /\ calls'[1].cmds = calls[1].cmds
      /\ Len(calls) = 2 => calls'[1] = calls[1] /\ calls'[2].cmds = calls[2].cmds
  BY CallsType, SetTopStep
<1> QED BY <1>1 DEF ListInv, ToAsk

------------------------------------------------------------------------------
(* The steps *)

\* The first call of hm11_init asks for everything.
LEMMA AtInit == Init => AtInv
PROOF
<1> SUFFICES ASSUME Init PROVE AtInv
  OBVIOUS
<1>1. /\ calls = <<Call(hm11_assert)>> /\ Call(hm11_assert) \in CallRecord
      /\ Call(hm11_assert).cmds = hm11_assert /\ Call(hm11_assert).retry = MAX_RETRY_AT
  BY AssertAsks, CallType DEF Init
<1>2. /\ calls \in Seq(CallRecord) /\ Len(calls) = 1
      /\ calls[1] = Call(hm11_assert) /\ Top = Call(hm11_assert)
  BY <1>1 DEF Top
<1>3. /\ good \in SUBSET Params /\ refused \in SUBSET Params /\ lost = 0
      /\ most \in 0 .. MAX_RETRY_AT /\ lost \in 0 .. most
      /\ step = "loop" /\ ret = "OK" /\ answer = "silent"
  BY Lists DEF Init
<1>4. TypeOK
  BY <1>2, <1>3 DEF TypeOK, CallRecord
<1>5. ListInv
  BY <1>1, <1>2, AssertAsks DEF ListInv
<1>6. AnswerInv
  BY <1>1, <1>2, <1>3, Lists DEF AnswerInv
<1>7. RetInv
  BY <1>3 DEF RetInv
<1> QED BY <1>4, <1>5, <1>6, <1>7 DEF AtInv

\* What a step leaves of the types when it gives the innermost call other values.
LEMMA SetTopType ==
  ASSUME TypeOK, NEW call \in CallRecord, SetTop(call), UNCHANGED <<module, answer>>,
         step' \in {"loop", "return"}, ret' \in {"OK", "EINVAL"}
  PROVE  TypeOK'
PROOF
<1>1. calls' \in Seq(CallRecord) /\ Len(calls') \in 1 .. 2
  BY CallsType, SetTopStep
<1> QED BY <1>1 DEF TypeOK, module, CallRecord

\* The command is sent, and it or its answer may be lost.
LEMMA AttemptStep == ASSUME AtInv, Attempt PROVE AtInv'
PROOF
<1>0. TypeOK /\ ListInv /\ AnswerInv /\ RetInv
  BY DEF AtInv
<1>1. /\ step = "loop" /\ Top.cmds # <<>> /\ step' = "judge"
      /\ UNCHANGED <<refused, most, calls, ret>>
  BY DEF Attempt
<1>2. /\ Top \in CallRecord /\ Top.cmds \in Seq(Command) /\ Top.retry \in 0 .. MAX_RETRY_AT
      /\ Cmd \in Command /\ Cmd.what \in Params
      /\ Top' = Top /\ Cmd' = Cmd
  BY <1>0, <1>1, CallsType, AskTail DEF Cmd, Top, Command
<1>3. ret = "OK"
  BY <1>0, <1>1 DEF RetInv, TypeOK
<1>4. /\ most \in Nat /\ lost \in 0 .. most /\ most <= MAX_RETRY_AT
      /\ good \subseteq Params /\ MAX_RETRY_AT \in Nat
      /\ lost >= MAX_RETRY_AT - Top.retry
  BY <1>0, <1>1, Lists DEF TypeOK, AnswerInv
<1>5. /\ lost' \in 0 .. most /\ good \subseteq good' /\ good' \subseteq Params
      /\ answer' \in {"silent", "right", "wrong"}
      /\ answer' = "silent" => lost' > MAX_RETRY_AT - Top.retry
      /\ answer' = "right"  => Cmd.what \in good'
      /\ answer' = "wrong"  => /\ Cmd.what \notin good'
                               /\ Cmd.verb = "set" => Cmd.what \in refused
  <2>1. CASE Lose
    <3>1. lost' = lost + 1 /\ lost < most /\ answer' = "silent"
      BY <2>1 DEF Lose
    <3>2. good' = good \/ good' = good \cup {Cmd.what}
      BY <2>1 DEF Lose
    <3> QED BY <1>2, <1>4, <3>1, <3>2
  <2>2. CASE Reply
    <3>1. lost' = 0 /\ answer' = IF Cmd.what \in good' THEN "right" ELSE "wrong"
      BY <2>2 DEF Reply
    <3>2. good' = IF Accepts(Cmd) THEN good \cup {Cmd.what} ELSE good
      BY <2>2 DEF Reply
    <3>3. CASE Accepts(Cmd)
      BY <1>2, <1>4, <3>1, <3>2, <3>3
    <3>4. CASE ~Accepts(Cmd)
      <4>1. Cmd.verb = "set" => Cmd.what \in refused
        BY <3>4 DEF Accepts
      <4> QED BY <1>2, <1>4, <3>1, <3>2, <3>4, <4>1
    <3> QED BY <3>3, <3>4
  <2> QED BY <2>1, <2>2 DEF Attempt
<1>6. TypeOK'
  BY <1>0, <1>1, <1>5 DEF TypeOK
<1>7. ListInv'
  BY <1>0, <1>1, <1>5 DEF ListInv, ToAsk
<1>8. AnswerInv'
  BY <1>1, <1>2, <1>5 DEF AnswerInv
<1>9. RetInv'
  BY <1>1, <1>3 DEF RetInv
<1> QED BY <1>6, <1>7, <1>8, <1>9 DEF AtInv

\* Sending a command again costs a retry, and the answer that was lost is one more.
LEMMA RetryStep == ASSUME AtInv, Retry \/ Reset PROVE AtInv'
PROOF
<1>0. TypeOK /\ ListInv /\ AnswerInv /\ RetInv
  BY DEF AtInv
<1>1. /\ step = "judge" /\ step' = "loop" /\ UNCHANGED <<module, ret, answer>>
      /\ good' = good /\ lost' = lost
  BY DEF Retry, Reset, module
<1>2. /\ Top \in CallRecord /\ Top.retry \in 0 .. MAX_RETRY_AT
      /\ lost \in Nat /\ MAX_RETRY_AT \in Nat
  BY <1>0, CallsType, Lists DEF TypeOK
<1>3. PICK n \in 0 .. MAX_RETRY_AT : /\ SetTop([Top EXCEPT !.retry = n])
                                      /\ lost >= MAX_RETRY_AT - n
  <2>1. CASE Retry
    <3>1. answer = "silent" /\ Top.retry > 0 /\ SetTop([Top EXCEPT !.retry = Top.retry - 1])
      BY <2>1 DEF Retry, AnswerLost
    <3>2. lost > MAX_RETRY_AT - Top.retry
      BY <1>0, <1>1, <3>1 DEF AnswerInv
    <3>3. /\ Top.retry - 1 \in 0 .. MAX_RETRY_AT
          /\ lost >= MAX_RETRY_AT - (Top.retry - 1)
      BY <1>2, <3>1, <3>2
    <3> QED BY <3>1, <3>3
  <2>2. CASE Reset
    <3>1. SetTop([Top EXCEPT !.retry = MAX_RETRY_AT])
      BY <2>2 DEF Reset
    <3>2. /\ MAX_RETRY_AT \in 0 .. MAX_RETRY_AT
          /\ lost >= MAX_RETRY_AT - MAX_RETRY_AT
      BY <1>2
    <3> QED BY <3>1, <3>2
  <2> QED BY <2>1, <2>2
<1> DEFINE call == [Top EXCEPT !.retry = n]
<1>4. call \in CallRecord /\ call.cmds = Top.cmds /\ call.retry = n
  BY <1>2, TopUpdate
<1>5. SetTop(call)
  BY <1>3
<1> HIDE DEF call
<1>6. Top' = call
  BY <1>0, <1>4, <1>5, SetTopStep
<1>7. ret = "OK" /\ ret' = "OK"
  BY <1>0, <1>1 DEF RetInv, TypeOK
<1>8. TypeOK'
  BY <1>0, <1>1, <1>4, <1>5, <1>7, SetTopType
<1>9. ListInv'
  BY <1>0, <1>1, <1>4, <1>5, SameLists
<1>10. AnswerInv'
  BY <1>1, <1>3, <1>4, <1>6 DEF AnswerInv
<1>11. RetInv'
  BY <1>1, <1>7 DEF RetInv
<1> QED BY <1>8, <1>9, <1>10, <1>11 DEF AtInv

\* What the answer was right for is good, and need not be asked for again.
LEMMA MatchStep == ASSUME AtInv, Match PROVE AtInv'
PROOF
<1>0. TypeOK /\ ListInv /\ AnswerInv /\ RetInv
  BY DEF AtInv
<1>1. /\ step = "judge" /\ step' = "loop" /\ UNCHANGED <<module, ret, answer>>
      /\ good' = good /\ lost' = lost /\ answer = "right"
      /\ SetTop([Judged EXCEPT !.cmds = Tail(@)])
  BY DEF Match, module
<1>2. Judged \in CallRecord /\ Judged.cmds = Top.cmds /\ Judged.retry = MAX_RETRY_AT
  BY <1>0, CallsType, TopUpdate DEF Judged
<1>3. Top.cmds # <<>> /\ Top.cmds \in Seq(Command) /\ Cmd.what \in good
  BY <1>0, <1>1, CallsType DEF AnswerInv
<1>4. /\ Tail(Top.cmds) \in Seq(Command) /\ Head(Top.cmds) = Cmd
      /\ ToAsk(Top.cmds) \subseteq {Cmd.what} \cup ToAsk(Tail(Top.cmds))
  BY <1>3, AskTail DEF Cmd
<1> DEFINE call == [Judged EXCEPT !.cmds = Tail(Top.cmds)]
<1>5. call \in CallRecord /\ call.cmds = Tail(Top.cmds) /\ call.retry = MAX_RETRY_AT
  BY <1>2, <1>4, TopUpdate
<1>6. SetTop(call)
  BY <1>1, <1>2
<1> HIDE DEF call
<1>7. /\ Top' = call /\ Len(calls') = Len(calls) /\ Len(calls) \in 1 .. 2
      /\ Len(calls) = 1 => Top = calls[1] /\ calls'[1] = call
      /\ Len(calls) = 2 => Top = calls[2] /\ calls'[1] = calls[1] /\ calls'[2] = call
  BY <1>0, <1>5, <1>6, SetTopStep, CallsType
<1>8. ret = "OK" /\ ret' = "OK"
  BY <1>0, <1>1 DEF RetInv, TypeOK
<1>9. TypeOK'
  BY <1>0, <1>1, <1>5, <1>6, <1>8, SetTopType
<1>10. ListInv'
  <2>1. CASE Len(calls) = 1
    <3>1. /\ Params \subseteq good \cup ToAsk(Top.cmds)
          /\ ToAsk(calls'[1].cmds) = ToAsk(Tail(Top.cmds))
      BY <1>0, <1>5, <1>7, <2>1 DEF ListInv
    <3>2. Params \subseteq good' \cup ToAsk(calls'[1].cmds)
      BY <1>1, <1>3, <1>4, <3>1
    <3> QED BY <1>7, <2>1, <3>2 DEF ListInv, ToAsk
  <2>2. CASE Len(calls) = 2
    <3> DEFINE p == Head(calls[1].cmds).what
    <3>1. /\ calls[1].cmds # <<>> /\ calls[1].retry = MAX_RETRY_AT
          /\ Top.cmds = reconf(p)
      BY <1>0, <1>3, <1>7, <2>2 DEF ListInv
    <3>2. p \in Params
      <4>1. calls[1].cmds \in Seq(Command)
        BY <1>0, CallsType DEF CallRecord
      <4> QED BY <3>1, <4>1, AskTail DEF Command
    <3>3. Cmd.what = p /\ Tail(Top.cmds) = <<>>
      BY <3>1, <3>2, ReconfSets DEF Cmd
    <3>4. calls'[2].cmds = <<>> /\ calls'[1] = calls[1] /\ p \in good'
      BY <1>1, <1>3, <1>5, <1>7, <2>2, <3>3
    <3>5. Params \subseteq good' \cup ToAsk(calls'[1].cmds)
      BY <1>0, <1>1, <3>4 DEF ListInv
    <3> QED BY <1>7, <2>2, <3>1, <3>4, <3>5 DEF ListInv, ToAsk
  <2> QED BY <1>7, <2>1, <2>2
<1>11. AnswerInv'
  <2>1. lost >= MAX_RETRY_AT - MAX_RETRY_AT
    BY <1>0, Lists DEF TypeOK
  <2> QED BY <1>1, <1>5, <1>7, <2>1 DEF AnswerInv
<1>12. RetInv'
  BY <1>1, <1>8 DEF RetInv
<1> QED BY <1>9, <1>10, <1>11, <1>12 DEF AtInv

\* An answer that is not as expected is one that came, so that what is wrong is known.
LEMMA WrongAnswer ==
  ASSUME AtInv, Unexpected
  PROVE  /\ answer = "wrong" /\ Top.cmds # <<>> /\ Cmd \in Command /\ Cmd.what \in Params
         /\ Cmd.what \notin good /\ (Cmd.verb = "set" => Cmd.what \in refused)
PROOF
<1>0. TypeOK /\ AnswerInv
  BY DEF AtInv
<1>1. step = "judge" /\ ~AnswerLost /\ answer # "right"
  BY DEF Unexpected
<1>2. Top.cmds \in Seq(Command) /\ Top.cmds # <<>> /\ Top.retry \in 0 .. MAX_RETRY_AT
  BY <1>0, <1>1, CallsType DEF AnswerInv
<1>3. Cmd \in Command /\ Cmd.what \in Params
  BY <1>2, AskTail DEF Cmd, Command
<1>4. answer # "silent"
  <2> SUFFICES ASSUME answer = "silent" PROVE FALSE
    OBVIOUS
  <2>1. lost > MAX_RETRY_AT - Top.retry
    BY <1>0, <1>1 DEF AnswerInv
  <2>2. Top.retry = 0
    BY <1>1, <1>2 DEF AnswerLost
  <2> QED BY <1>0, <2>1, <2>2, Lists DEF TypeOK
<1>5. answer = "wrong"
  BY <1>0, <1>1, <1>4 DEF TypeOK
<1> QED BY <1>0, <1>1, <1>2, <1>3, <1>5 DEF AnswerInv

\* Failing for a reason: a wrong parameter that has no list, or that the module will not have set.
LEMMA MustEqualStep == ASSUME AtInv, MustEqual PROVE AtInv'
PROOF
<1>0. TypeOK /\ ListInv /\ AnswerInv /\ RetInv
  BY DEF AtInv
<1>1. /\ Unexpected /\ ~HasList(Cmd) /\ SetTop(Judged)
      /\ ret' = "EINVAL" /\ step' = "return" /\ UNCHANGED <<module, answer>>
      /\ good' = good /\ refused' = refused
  BY DEF MustEqual, module
<1>2. Judged \in CallRecord /\ Judged.cmds = Top.cmds
  BY <1>0, CallsType, TopUpdate DEF Judged
<1>3. TypeOK'
  BY <1>0, <1>1, <1>2, SetTopType
<1>4. ListInv'
  BY <1>0, <1>1, <1>2, SameLists
<1>5. Cmd.what \in Params \ good /\ Hopeless(Cmd.what)
  <2>1. /\ Cmd \in Command /\ Cmd.what \in Params /\ Cmd.what \notin good
        /\ Cmd.verb = "set" => Cmd.what \in refused
    BY <1>1, WrongAnswer
  <2>2. Cmd.verb = "get" \/ Cmd.verb = "set"
    BY <2>1 DEF Command
  <2> QED BY <1>1, <2>1, <2>2 DEF HasList, Hopeless
<1>6. \E p \in Params \ good' : Hopeless(p)'
  BY <1>1, <1>5 DEF Hopeless
<1>7. RetInv'
  BY <1>1, <1>6 DEF RetInv
<1>8. AnswerInv'
  BY <1>1 DEF AnswerInv
<1> QED BY <1>3, <1>4, <1>7, <1>8 DEF AtInv

\* Only the outer call asks for what it can have set, so that there are never three calls.
LEMMA ReconfigureStep == ASSUME AtInv, Reconfigure PROVE AtInv'
PROOF
<1>0. TypeOK /\ ListInv /\ AnswerInv /\ RetInv
  BY DEF AtInv
<1>1. /\ Unexpected /\ HasList(Cmd) /\ step = "judge" /\ step' = "loop"
      /\ calls' = [calls EXCEPT ![Len(calls)] = Judged] \o <<Call(reconf(Cmd.what))>>
      /\ UNCHANGED <<module, ret, answer>> /\ good' = good /\ lost' = lost
  BY DEF Reconfigure, Unexpected, module
<1>2. Judged \in CallRecord /\ Judged.cmds = Top.cmds /\ Judged.retry = MAX_RETRY_AT
  BY <1>0, CallsType, TopUpdate DEF Judged
<1>3. Top.cmds # <<>> /\ Cmd.what \in Params
  BY <1>1, WrongAnswer
<1>4. /\ calls \in Seq(CallRecord) /\ Len(calls) \in 1 .. 2
      /\ Len(calls) = 1 => Top = calls[1]
      /\ Len(calls) = 2 => Top = calls[2]
  BY <1>0, CallsType
<1>5. Len(calls) = 1
  <2> SUFFICES ASSUME Len(calls) = 2 PROVE FALSE
    BY <1>4
  <2> DEFINE p == Head(calls[1].cmds).what
  <2>1. Top.cmds = reconf(p) /\ calls[1].cmds # <<>>
    BY <1>0, <1>3, <1>4 DEF ListInv
  <2>2. p \in Params
    <3>1. calls[1].cmds \in Seq(Command)
      BY <1>0, CallsType DEF CallRecord
    <3> QED BY <2>1, <3>1, AskTail DEF Command
  <2>3. Cmd.verb = "set"
    BY <2>1, <2>2, ReconfSets DEF Cmd
  <2> QED BY <1>1, <2>3 DEF HasList
<1> DEFINE inner == Call(reconf(Cmd.what))
<1>6. /\ inner \in CallRecord /\ inner.cmds = reconf(Cmd.what) /\ inner.retry = MAX_RETRY_AT
  BY <1>3, ReconfSets, CallType
<1>7. calls' = <<Judged>> \o <<inner>>
  <2>1. [calls EXCEPT ![Len(calls)] = Judged] = <<Judged>>
    BY <1>2, <1>4, <1>5
  <2> QED BY <1>1, <2>1
<1> HIDE DEF inner
<1>8. /\ calls' \in Seq(CallRecord) /\ Len(calls') = 2
      /\ calls'[1] = Judged /\ calls'[2] = inner
  BY <1>2, <1>6, <1>7
<1>9. Top' = inner
  BY <1>8 DEF Top
<1>10. ret = "OK" /\ ret' = "OK"
  BY <1>0, <1>1 DEF RetInv, TypeOK
<1>11. TypeOK'
  BY <1>0, <1>1, <1>8, <1>10 DEF TypeOK, module, CallRecord
<1>12. ListInv'
  <2>1. Params \subseteq good \cup ToAsk(Top.cmds)
    BY <1>0, <1>4, <1>5 DEF ListInv
  <2>2. Params \subseteq good' \cup ToAsk(calls'[1].cmds)
    BY <1>1, <1>2, <1>8, <2>1
  <2>3. /\ calls'[1].cmds # <<>> /\ calls'[1].retry = MAX_RETRY_AT
        /\ calls'[2].cmds = reconf(Head(calls'[1].cmds).what)
    BY <1>2, <1>3, <1>6, <1>8 DEF Cmd
  <2> QED BY <2>2, <2>3 DEF ListInv, ToAsk
<1>13. AnswerInv'
  <2>1. lost >= MAX_RETRY_AT - MAX_RETRY_AT
    BY <1>0, Lists DEF TypeOK
  <2> QED BY <1>1, <1>6, <1>9, <2>1 DEF AnswerInv
<1>14. RetInv'
  BY <1>1, <1>10 DEF RetInv
<1> QED BY <1>11, <1>12, <1>13, <1>14 DEF AtInv

\* The outer call goes on when the inner one has set the parameter, and fails with it.
LEMMA ReturnStep == ASSUME AtInv, Return PROVE AtInv'
PROOF
<1>0. TypeOK /\ ListInv /\ AnswerInv /\ RetInv
  BY DEF AtInv
<1>1. /\ step = "return" /\ Len(calls) = 2 /\ UNCHANGED <<module, ret, answer>>
      /\ good' = good /\ lost' = lost /\ refused' = refused
  <2>1. step = "return" /\ Len(calls) > 1 /\ UNCHANGED <<module, ret, answer>>
    BY DEF Return
  <2>2. Len(calls) \in 1 .. 2
    BY <1>0, CallsType
  <2>3. Len(calls) = 2
    BY <2>1, <2>2
  <2>4. good' = good /\ lost' = lost /\ refused' = refused
    BY <2>1 DEF module
  <2> QED BY <2>1, <2>3, <2>4
<1>2. /\ Caller = calls[1] /\ calls[1] \in CallRecord /\ Top = calls[2]
      /\ calls[1].cmds \in Seq(Command) /\ calls[1].cmds # <<>>
      /\ calls[1].retry = MAX_RETRY_AT
  BY <1>0, <1>1, CallsType DEF Caller, CallRecord, ListInv
<1>3. CASE ret = "OK"
  <2> DEFINE call == [calls[1] EXCEPT !.cmds = Tail(calls[1].cmds)]
  <2>1. calls' = <<call>> /\ step' = "loop"
    BY <1>1, <1>2, <1>3 DEF Return
  <2>2. /\ Tail(calls[1].cmds) \in Seq(Command)
        /\ ToAsk(calls[1].cmds) \subseteq {Head(calls[1].cmds).what} \cup ToAsk(Tail(calls[1].cmds))
    BY <1>2, AskTail
  <2>3. call \in CallRecord /\ call.cmds = Tail(calls[1].cmds) /\ call.retry = MAX_RETRY_AT
    BY <1>2, <2>2, TopUpdate
  <2> HIDE DEF call
  <2>4. calls' \in Seq(CallRecord) /\ Len(calls') = 1 /\ calls'[1] = call /\ Top' = call
    BY <2>1, <2>3 DEF Top
  <2>5. Head(calls[1].cmds).what \in good
    <3>1. calls[2].cmds = <<>>
      BY <1>0, <1>1, <1>2, <1>3 DEF RetInv
    <3>2. calls[2].cmds # reconf(Head(calls[1].cmds).what)
      BY <1>2, <3>1, AskTail, ReconfSets DEF Command
    <3> QED BY <1>0, <1>1, <3>2 DEF ListInv
  <2>6. TypeOK'
    BY <1>0, <1>1, <1>3, <2>1, <2>4 DEF TypeOK, module, CallRecord
  <2>7. ListInv'
    <3>1. Params \subseteq good \cup ToAsk(calls[1].cmds)
      BY <1>0 DEF ListInv
    <3>2. Params \subseteq good' \cup ToAsk(calls'[1].cmds)
      BY <1>1, <2>2, <2>3, <2>4, <2>5, <3>1
    <3> QED BY <2>4, <3>2 DEF ListInv, ToAsk
  <2>8. AnswerInv'
    <3>1. lost >= MAX_RETRY_AT - MAX_RETRY_AT
      BY <1>0, Lists DEF TypeOK
    <3> QED BY <1>1, <2>1, <2>3, <2>4, <3>1 DEF AnswerInv
  <2>9. RetInv'
    BY <1>1, <1>3, <2>1 DEF RetInv
  <2> QED BY <2>6, <2>7, <2>8, <2>9 DEF AtInv
<1>4. CASE ret # "OK"
  <2>1. calls' = <<calls[1]>> /\ step' = "return"
    BY <1>1, <1>2, <1>4 DEF Return
  <2>2. calls' \in Seq(CallRecord) /\ Len(calls') = 1 /\ calls'[1] = calls[1]
    BY <1>2, <2>1
  <2>3. TypeOK'
    BY <1>0, <1>1, <2>1, <2>2 DEF TypeOK, module, CallRecord
  <2>4. ListInv'
    BY <1>0, <1>1, <2>2 DEF ListInv, ToAsk
  <2>5. AnswerInv'
    BY <2>1 DEF AnswerInv
  <2>6. RetInv'
    BY <1>0, <1>1, <1>4, <2>1 DEF RetInv, Hopeless
  <2> QED BY <2>3, <2>4, <2>5, <2>6 DEF AtInv
<1> QED BY <1>3, <1>4

\* Every step of hm11_do_at_cmd and of the module keeps what is known of its parameters.
LEMMA AtStep == AtInv /\ [Next]_vars => AtInv'
PROOF
<1> SUFFICES ASSUME AtInv, [Next]_vars PROVE AtInv'
  OBVIOUS
<1>0. TypeOK /\ ListInv /\ AnswerInv /\ RetInv
  BY DEF AtInv
<1>1. CASE Attempt
  BY <1>1, AttemptStep
<1>2. CASE Retry \/ Reset
  BY <1>2, RetryStep
<1>3. CASE Match
  BY <1>3, MatchStep
<1>4. CASE MustEqual
  BY <1>4, MustEqualStep
<1>5. CASE Reconfigure
  BY <1>5, ReconfigureStep
<1>6. CASE Return
  BY <1>6, ReturnStep
<1>7. CASE EndOfList
  <2>1. /\ step = "loop" /\ step' = "return" /\ Top.cmds = <<>>
        /\ UNCHANGED <<good, refused, most, lost, calls, ret, answer>>
    BY <1>7 DEF EndOfList, module
  <2>2. Top' = Top
    BY <2>1 DEF Top
  <2>3. TypeOK'
    BY <1>0, <2>1 DEF TypeOK
  <2>4. ListInv'
    BY <1>0, <2>1 DEF ListInv, ToAsk
  <2>5. AnswerInv'
    BY <2>1 DEF AnswerInv
  <2>6. RetInv'
    BY <1>0, <2>1, <2>2 DEF RetInv
  <2> QED BY <2>3, <2>4, <2>5, <2>6 DEF AtInv
<1>8. CASE InitReturns
  <2>1. /\ step = "return" /\ step' = "done" /\ Len(calls) = 1
        /\ UNCHANGED <<good, refused, most, lost, calls, ret, answer>>
    BY <1>8 DEF InitReturns, module
  <2>2. Top' = Top
    BY <2>1 DEF Top
  <2>3. TypeOK'
    BY <1>0, <2>1 DEF TypeOK
  <2>4. ListInv'
    BY <1>0, <2>1 DEF ListInv, ToAsk
  <2>5. AnswerInv'
    BY <2>1 DEF AnswerInv
  <2>6. RetInv'
    BY <1>0, <2>1, <2>2 DEF RetInv, Hopeless
  <2> QED BY <2>3, <2>4, <2>5, <2>6 DEF AtInv
<1>9. CASE UNCHANGED vars
  <2>1. /\ UNCHANGED <<good, refused, most, lost, calls, step, ret, answer>>
        /\ Top' = Top /\ Cmd' = Cmd
    BY <1>9 DEF vars, Top, Cmd
  <2> QED BY <1>0, <2>1 DEF AtInv, TypeOK, ListInv, ToAsk, AnswerInv, RetInv, Hopeless
<1> QED BY <1>1, <1>2, <1>3, <1>4, <1>5, <1>6, <1>7, <1>8, <1>9 DEF Next

\* The calls nest no deeper than two, and their lists are commands, for a module of any kind.
THEOREM TypeCorrect == Spec => []TypeOK
PROOF
<1>1. AtInv => TypeOK
  BY DEF AtInv
<1> QED BY <1>1, AtInit, AtStep, PTL DEF Spec

\* Whatever was lost, repeated, reset or had to be set, for any list of parameters and any
\* number of retries: when hm11_init reports success every parameter is as it should be.
THEOREM SuccessIsConfigured == Spec => []OkIsConfigured
PROOF
<1>1. AtInv => OkIsConfigured
  <2> SUFFICES ASSUME AtInv, step = "done", ret = "OK" PROVE Params \subseteq good
    BY DEF OkIsConfigured
  <2>1. Top = calls[1] /\ Top.cmds = <<>>
    BY CallsType DEF AtInv, RetInv
  <2>2. ToAsk(calls[1].cmds) = {}
    BY <2>1 DEF ToAsk
  <2> QED BY <2>2 DEF AtInv, ListInv
<1> QED BY <1>1, AtInit, AtStep, PTL DEF Spec

\* As long as no more answers than there are retries are lost in a row, hm11_init fails only
\* for a parameter that is wrong and cannot be set, and not because the module was slow.
THEOREM FailureHasAReason == Spec => []FailsForAReason
PROOF
<1>1. AtInv => FailsForAReason
  BY DEF AtInv, RetInv, FailsForAReason, Hopeless
<1> QED BY <1>1, AtInit, AtStep, PTL DEF Spec
==============================================================================
