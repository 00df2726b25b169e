SPECIFICATION NavSpec
INVARIANT GoneIsSignedOut
CHECK_DEADLOCK FALSE
