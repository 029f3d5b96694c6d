SPECIFICATION Spec
CONSTANT Instances <- FarCallee
INVARIANT ResumeAtEnd
CHECK_DEADLOCK FALSE
