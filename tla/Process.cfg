SPECIFICATION FairSpec
CONSTANTS
  NUM_OF_PROCESS_GROUPS = 2
  MAX_PID = 4
  VidmapUsers = {1, 3}
  SwitchTargets = {0, 1}
INVARIANTS ProcessTree ContextsIntact OwnProgramPage VideoIsolation VideoGranted
PROPERTIES ParentStable GroupsProgress
\* A crashed kernel stops.
CHECK_DEADLOCK FALSE
