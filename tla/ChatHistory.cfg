\* Appends, prunes, kills and power failures outside a prune.
SPECIFICATION Spec
CONSTANTS
  IdMod = 8
  SizeMod = 64
  MaxLimit = 2
  DefaultLimit = 1
  MaxMsgs = 2
  UseDays = FALSE
  Inode <- Inodes4
  NoInode = NoInode
  MaxSaid = 5
  MaxStops = 2
  PruneDies = FALSE
  PowerFails = TRUE
  DiskFull = FALSE
INVARIANTS IndexReads QueryExact
PROPERTIES ImplementsLog
