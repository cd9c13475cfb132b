SPECIFICATION Spec
CONSTANT NumBits = 5
INVARIANT FullReturnsMinusOne
