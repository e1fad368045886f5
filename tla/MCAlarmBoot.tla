----------------------------- MODULE MCAlarmBoot -----------------------------
(***************************************************************************)
(* AlarmBoot for TLC: registers of two bits, so that CNTL runs over in the *)
(* middle of an alarm, and one wait time on each side of that.             *)
(***************************************************************************)
EXTENDS AlarmBoot

MCWaitTimes == {0, 5}
==============================================================================
