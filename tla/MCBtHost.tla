------------------------------- MODULE MCBtHost -------------------------------
EXTENDS BtHost
\* Packets of different kinds, good and bad.  Bytes are smaller than 8, the
\* prefix is 6, and one payload has a byte that looks like a prefix.
MCHostPackets == {
  <<6, 1, 2, 2>>,   \* a lamp
  <<6, 2, 0, 0>>,
  <<6, 3, 3, 1>>,   \* an alarm in 11 s
  <<6, 4, 6, 4>>,
  <<0, 4, 0, 0>> }

\* Four bytes, of which only the number matters.
MCModulePackets == { <<6, 2, 0, 0>> }
==============================================================================
