CONSTANT Modes <- AllModes
SPECIFICATION Spec
INVARIANT StubbornDie
CHECK_DEADLOCK FALSE
