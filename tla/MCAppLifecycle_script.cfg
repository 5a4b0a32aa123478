SPECIFICATION Spec
CONSTANT Lcores = {16, 17, 18, 19, 20, 21, 22, 24, 25, 26, 27, 28, 29, 30, 31}
INVARIANT WaitedFor
CHECK_DEADLOCK FALSE
