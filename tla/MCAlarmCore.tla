----------------------------- MODULE MCAlarmCore -----------------------------
(***************************************************************************)
(* AlarmCore for TLC: durations of a few seconds, all different where two  *)
(* of them could be mixed up, and waits of none and of two seconds.        *)
(***************************************************************************)
EXTENDS AlarmCore, CrossTest

MCWaitTimes == {0, 2}
==============================================================================
