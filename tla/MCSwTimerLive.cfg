SPECIFICATION FairSpec
CONSTANTS Timer = {t1, t2}
          NULL = NULL
          Wrap = 8
          Period = {1, 2}
          LateLimit = 1
          DepthLimit = 2
PROPERTIES ImplementsService EveryTimerFires
