CONSTANTS
    None = None
    Goals = {1, 2}
    AutomaticTurns = 2
    MaxPrompts = 1
SPECIFICATION Spec
INVARIANTS ActiveHoldsWorkflow OneContinuationWanted UnattendedTurnsAreBounded IdleGoalHasWorkComing
PROPERTY ContinuationsServeTheirGoal
CHECK_DEADLOCK FALSE
