CONSTANT Workers = {w1}
SPECIFICATION Spec
PROPERTY DestructorReturns
CHECK_DEADLOCK FALSE
