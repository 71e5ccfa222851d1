SPECIFICATION FairSpec
CONSTANTS NSection = 3
          Size = 10
          Page = 2
          MetaRest = 1
          Crc = 1
          CountSize = 16
          NodeMax = 3
          Name = {n1}
          Val = {1}
          DirIdLimit = 2
          LiveLimit = 10
          FillLimit = 4
          LagLimit = 1
          LossLimit = 1
INVARIANTS NoOrphan
PROPERTIES ImplementsStore EveryCallReturns
CHECK_DEADLOCK FALSE
