SPECIFICATION Spec
CONSTANTS Timer = {t1, t2, t3}
          NULL = NULL
          Wrap = 8
          Period = {1, 2}
          LateLimit = 1
          DepthLimit = 1
SYMMETRY Timers
INVARIANTS TypeOK InOrder WakeUpDue
