SPECIFICATION ResumeSpec
CONSTANTS
    OnboardingRoles = {"FOUNDER", "INVESTOR", "MENTOR", "INCUBATOR", "UNIVERSITY",
                       "SERVICE_PROVIDER", "JOB_SEEKER"}
    MaxLoads = 1
INVARIANT ResumeKeepsAnswers
CHECK_DEADLOCK FALSE
