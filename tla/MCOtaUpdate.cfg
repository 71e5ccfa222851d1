SPECIFICATION FairSpec
CONSTANTS PageWords = 64
          Base = base
          Spare = spare
          NSector = 2
          NPage = 2
          Kind = {"copy", "copy_erase", "boot", "boot_erase"}
          UpdateLimit = 2
          LossLimit = 3

INVARIANTS TypeOK AckMeansStored BootsWhole
PROPERTIES BootEnds BootsAllowed
CHECK_DEADLOCK FALSE
