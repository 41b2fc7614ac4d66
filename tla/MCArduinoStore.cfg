SPECIFICATION FairSpec
CONSTANTS
  Regions <- MC_Regions
  WordBytes = 2
  SectorBytes = 4
  MaxSector = 128
  EraseText <- MC_EraseText
  Asked <- MC_Asked
  Messages <- MC_Messages
  PutWait = 8
  GetWait = 3
  Burst = 5
  BufSize = 4
  CountMod = 32
  NumberMod = 256
  Pauses <- MC_Pauses
  MaxCmd = 2
INVARIANTS
  TypeOK
  DecodedRight
  NoStray
  ReadsItsSector
PROPERTIES
  StoredReadsBack
  WritesItsSector
  CommandEnds
CHECK_DEADLOCK FALSE
