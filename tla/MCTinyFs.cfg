SPECIFICATION Spec
CONSTANTS NSection = 3
          Size = 8
          Page = 4
          MetaRest = 1
          Crc = 1
          CountSize = 16
          NodeMax = 3
          Name = {n1, n2}
          Val = {1, 2}
          DirIdLimit = 0
          LiveLimit = 8
          FillLimit = 5
          LagLimit = 2
          LossLimit = 1
SYMMETRY Names
INVARIANTS RoomIsMade TailErased TailFound LiveReadable TypeOK
PROPERTIES ImplementsStore
CHECK_DEADLOCK FALSE
