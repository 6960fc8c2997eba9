SPECIFICATION Spec
INVARIANT ClientAbortNotCharged
