---------------------------- MODULE MCAlarmSystem ----------------------------
(***************************************************************************)
(* AlarmSystem for TLC: stretches of one or two seconds, so that an alarm  *)
(* is over within the bound, and waits of none, of one second, and of more *)
(* than a register half holds.                                             *)
(***************************************************************************)
EXTENDS AlarmSystem

MCWaitTimes == {0, 1, 9}
==============================================================================
