SPECIFICATION FairSpec
CONSTANTS
  Tasks = {t1, t2, t3, t4}
  MaxRepetitions = 2
INVARIANTS CleanupWhileTasks
PROPERTIES OnlyFinishedLeave Collected
