CONSTANTS
  MaxPid = 4
  Queues <- MC_Queues
  NbProcs <- MC_NbProcs
  MaxCalls = 8

SPECIFICATION Spec
CHECK_DEADLOCK FALSE
INVARIANT TypeOK
INVARIANT RunningIsCurrent
PROPERTY ReadyRuns
