SPECIFICATION FairSpec
CONSTANT Lcores = {0, 1, 2, 3, 4, 5, 6, 7, 8, 9, 10, 11, 12, 13, 14}
INVARIANT WaitedFor
INVARIANT NoUseAfterTeardown
PROPERTY SigintExits
CHECK_DEADLOCK FALSE
