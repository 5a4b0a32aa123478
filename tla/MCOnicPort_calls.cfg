SPECIFICATION FairSpec
CONSTANTS
  Threads = {owner, t1, t2}
  Owner = owner
  NumQueues = 2
  Faults = {"dev_reset", "dev_remove", "init"}
  LockGarbage = {FALSE, TRUE}
INVARIANT SoleOperator
INVARIANT QueuesBacked
INVARIANT NoNameClash
PROPERTY ResetLosesQueues
PROPERTY LockReleased
CHECK_DEADLOCK FALSE
