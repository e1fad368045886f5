--------------------------------- MODULE BtAt ---------------------------------
(***************************************************************************)
(* Setting up the HM-11 at boot: hm11_do_at_cmd of src/bt/bt-hm11-ctl.c,   *)
(* which asks for one parameter after the other, repeats what was not      *)
(* answered and calls itself to set a parameter that is wrong.             *)
(*                                                                         *)
(* An attempt is one step: what the module answers is there when main has  *)
(* waited for it, or it is lost.  The module, which is not part of the     *)
(* firmware, keeps its parameters over power cuts.                         *)
(***************************************************************************)
EXTENDS Integers, Sequences

CONSTANTS
  Asserted,      \* what hm11_assert asks for, in its order
  Reconfigured,  \* what of it has a list to set it with
  MAX_RETRY_AT

Params == {Asserted[i] : i \in 1 .. Len(Asserted)}

ASSUME ListAssumption ==
  /\ Asserted \in Seq(Params) /\ Asserted # <<>>
  /\ Reconfigured \subseteq Params
  /\ MAX_RETRY_AT \in Nat \ {0}

Command == [verb : {"get", "set"}, what : Params]

hm11_assert == [i \in 1 .. Len(Asserted) |-> [verb |-> "get", what |-> Asserted[i]]]
reconf(param) == <<[verb |-> "set", what |-> param]>>

VARIABLES
  good,     \* the module's parameters that are as expected
  refused,  \* those that it will not have set
  most,     \* how many answers are lost in a row at most
  lost,     \* how many have been
  calls,    \* the calls of hm11_do_at_cmd, the innermost one last
  step,     \* what that one does next
  ret,      \* its ret
  answer    \* what it has received: nothing, what was expected, or else

vars == <<good, refused, most, lost, calls, step, ret, answer>>
module == <<good, refused, most, lost>>

Call(list) == [cmds |-> list, retry |-> MAX_RETRY_AT, reset_left |-> FALSE]
Top == calls[Len(calls)]
Cmd == Head(Top.cmds)

TypeOK ==
  /\ {good, refused} \subseteq SUBSET Params
  /\ most \in 0 .. MAX_RETRY_AT /\ lost \in 0 .. most
  /\ calls \in Seq([cmds : Seq(Command), retry : 0 .. MAX_RETRY_AT, reset_left : BOOLEAN])
  /\ Len(calls) \in 1 .. 2
  /\ step \in {"loop", "judge", "return", "done"}
  /\ ret \in {"OK", "EINVAL"}
  /\ answer \in {"silent", "right", "wrong"}

\* Any module: some of its parameters are right, and some of the others it will
\* not have set.
Init ==
  /\ good \in SUBSET Params /\ refused \in SUBSET (Reconfigured \ good)
  /\ most \in 0 .. MAX_RETRY_AT /\ lost = 0
  /\ calls = <<Call(hm11_assert)>>
  /\ step = "loop" /\ ret = "OK"
  /\ answer = "silent"

------------------------------------------------------------------------------
(* The module *)

Accepts(cmd) == cmd.verb = "set" /\ cmd.what \notin refused

\* A command or its answer is lost.
Lose ==
  /\ lost < most
  /\ lost' = lost + 1
  /\ good' \in {good} \cup {good \cup {c.what} : c \in {d \in {Cmd} : Accepts(d)}}
  /\ answer' = "silent"

Reply ==
  /\ lost' = 0
  /\ good' = IF Accepts(Cmd) THEN good \cup {Cmd.what} ELSE good
  /\ answer' = IF Cmd.what \in good' THEN "right" ELSE "wrong"

------------------------------------------------------------------------------
(* hm11_do_at_cmd *)

SetTop(call) == calls' = [calls EXCEPT ![Len(calls)] = call]

Attempt ==
  /\ step = "loop" /\ Top.cmds # <<>>
  /\ Lose \/ Reply
  /\ step' = "judge"
  /\ UNCHANGED <<refused, most, calls, ret>>

EndOfList ==
  /\ step = "loop" /\ Top.cmds = <<>>
  /\ step' = "return"
  /\ UNCHANGED <<module, calls, ret, answer>>

\* Gives up one attempt too early.
BadAnswerLost == answer = "silent" /\ Top.retry > 1

AnswerLost == answer = "silent" /\ Top.retry > 0

\* Takes the attempt before the last one for the last one.
BadStillSilent == ~AnswerLost /\ Top.retry <= 1 /\ ~Top.reset_left

StillSilent == ~AnswerLost /\ Top.retry = 0 /\ ~Top.reset_left

Retry ==
  /\ step = "judge" /\ AnswerLost
  /\ SetTop([Top EXCEPT !.retry = @ - 1])
  /\ step' = "loop"
  /\ UNCHANGED <<module, ret, answer>>

\* hm11_do_reset itself is not implemented.
Reset ==
  /\ step = "judge" /\ StillSilent
  /\ SetTop([Top EXCEPT !.retry = MAX_RETRY_AT])
  /\ step' = "loop"
  /\ UNCHANGED <<module, ret, answer>>

Judged == [Top EXCEPT !.reset_left = TRUE, !.retry = MAX_RETRY_AT]

Match ==
  /\ step = "judge" /\ ~AnswerLost /\ ~StillSilent /\ answer = "right"
  /\ SetTop([Judged EXCEPT !.cmds = Tail(@)])
  /\ step' = "loop"
  /\ UNCHANGED <<module, ret, answer>>

Unexpected == step = "judge" /\ ~AnswerLost /\ ~StillSilent /\ answer # "right"

\* Has the commands that set a parameter set it again when they fail.
BadHasList(cmd) == cmd.what \in Reconfigured

HasList(cmd) == cmd.verb = "get" /\ cmd.what \in Reconfigured

\* hm11_must_equal_h, and hm11_version_h for a version that is too old: one that
\* is newer than expected counts as right.
MustEqual ==
  /\ Unexpected /\ ~HasList(Cmd)
  /\ SetTop(Judged)
  /\ ret' = "EINVAL" /\ step' = "return"
  /\ UNCHANGED <<module, answer>>

\* simple_reconfig_h calls hm11_do_at_cmd.
Reconfigure ==
  /\ Unexpected /\ HasList(Cmd)
  /\ calls' = [calls EXCEPT ![Len(calls)] = Judged] \o <<Call(reconf(Cmd.what))>>
  /\ step' = "loop"
  /\ UNCHANGED <<module, ret, answer>>

Caller == calls[Len(calls) - 1]

\* Goes on whatever the inner call returned.
BadReturn ==
  /\ step = "return" /\ Len(calls) > 1
  /\ calls' = <<[Caller EXCEPT !.cmds = Tail(@)]>>
  /\ step' = "loop" /\ ret' = "OK"
  /\ UNCHANGED <<module, answer>>

Return ==
  /\ step = "return" /\ Len(calls) > 1
  /\ IF ret = "OK"
     THEN calls' = <<[Caller EXCEPT !.cmds = Tail(@)]>> /\ step' = "loop"
     ELSE calls' = <<Caller>> /\ step' = "return"
  /\ UNCHANGED <<module, ret, answer>>

\* Main goes on, whatever hm11_init returns.
InitReturns ==
  /\ step = "return" /\ Len(calls) = 1
  /\ step' = "done"
  /\ UNCHANGED <<module, calls, ret, answer>>

Next ==
  \/ Attempt \/ EndOfList \/ Retry \/ Reset \/ Match
  \/ MustEqual \/ Reconfigure \/ Return \/ InitReturns

Spec == Init /\ [][Next]_vars
FairSpec == Spec /\ WF_vars(Next)

------------------------------------------------------------------------------
(* Properties *)

\* When hm11_init reports success every parameter of the module is as it should
\* be, whatever was lost, repeated or had to be set.
OkIsConfigured == step = "done" /\ ret = "OK" => Params \subseteq good

\* No more than MAX_RETRY_AT lost answers in a row make hm11_init fail: when it
\* does, something is wrong that the firmware cannot set.
FailsForAReason ==
  step = "done" /\ ret = "EINVAL" =>
    \E p \in Params \ good : p \in refused \/ p \notin Reconfigured

\* hm11_init returns, so that commands of the host are served, if fewer answers
\* than that are lost in a row.  With as many it need not: the answer to the
\* first command may come with each last retry, and is thrown away then.
InitEnds == most < MAX_RETRY_AT => <>(step = "done")
==============================================================================
