CONSTANTS
    MaxJobs = 2
    MaxRequests = 2
    MaxOutstanding = 2
    MaxRetained = 1
SPECIFICATION FairSpec
INVARIANTS NoMutualWait NoMissedResponse SteeringInterruptsWaits
    EndedJobLeavesNothing OneAnswer
PROPERTIES AnswersAreKept QueuedRequestsAreRead
CHECK_DEADLOCK FALSE
