SPECIFICATION FairSpec
CONSTANTS Alarms = {a1, a2}
          Second = 2
          Base = 3
          Settings = {0, 3}
          Targets = {2, 3, 5, 7}
          CallLimit = 9
          ClockLimit = 30
          Stall = 2
INVARIANTS TypeOK ListOrdered Armed
PROPERTIES RingsInTime KeepsTime AlarmEnds
CHECK_DEADLOCK FALSE
