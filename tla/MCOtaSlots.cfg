SPECIFICATION Spec
CONSTANTS PageWords = 64
          Base = base
          Spare = spare
          NSector = 1
          NPage = 1
          Kind = {"copy", "copy_erase", "boot", "boot_erase"}
          UpdateLimit = 5
          LossLimit = 0
INVARIANTS SlotFound
CHECK_DEADLOCK FALSE
