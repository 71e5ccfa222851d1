SPECIFICATION FairSpec
CONSTANTS NSection = 3
          Size = 8
          Page = 2
          MetaRest = 1
          Crc = 1
          CountSize = 16
          NodeMax = 3
          Name = {n1}
          Val = {1}
          DirIdLimit = 0
          LiveLimit = 6
          FillLimit = 4
          LagLimit = 3
          LossLimit = 1
PROPERTIES InitReturns
CHECK_DEADLOCK FALSE
