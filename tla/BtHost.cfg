\* Packets of the host, whole, cut and back to back.
SPECIFICATION FairSpec
CONSTANTS
  HostPackets <- MCHostPackets
  ModulePackets <- MCModulePackets
  BT_H_PKT_SZ = 4
  ByteMod = 8
  HOSTPKT_PFX = 6
  MaxBrightness = 2
  RISE_TIME_S = 2
  DAY_S = 16
  MAX_RX_SIZE = 5
  MAX_NOTIF_SIZE = 2
  AnswerSizes = {2, 4}
  LagBytes = 3
  NoPacket = NoPacket
INVARIANTS
  TypeOK
  DueIsServed
PROPERTIES
  NotifyFits
  ComesToRest
