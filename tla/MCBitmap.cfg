SPECIFICATION Spec
CONSTANT NumBits = 5
INVARIANTS TypeOK NothingBehindCur FailsOnlyWhenFull
PROPERTY FirstFit
