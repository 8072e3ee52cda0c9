SPECIFICATION FairSpec
CONSTANTS
  Controllers = {p1, p2}
  Relays = {r1, r2}
  Mic = mic
  None = none
  FrameSize = 13
  ShortReads <- MCShortReads
  MaxOperations = 4
  MaxFaults = 10
CONSTRAINT
  OneDirection
INVARIANTS
  TypeOK
  OneCaller
  HandlesBalance
  OutputAsWanted
  PaddedWithSilence
PROPERTIES
  OperationsReturn
  OutputRecovers
CHECK_DEADLOCK FALSE
