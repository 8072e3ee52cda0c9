SPECIFICATION FairSpec
CONSTANTS
  Updaters = {u1, u2}
  Fingered <- MCFingered
  Networks <- MCNetworks
  Links <- MCLinks
  Rotations <- MCRotations
  BlankFacts <- MCBlankFacts
  VersionLength = 40
  SystemLength = 33
  MaxEvents = 1
  MaxChanges = 1
INVARIANTS
  TypeOK
  NeverStuck
  OncePerHold
  DisplaySettles
  CalibrationFollows
PROPERTIES
  VersionShown
  BootEnds
