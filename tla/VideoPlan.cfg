SPECIFICATION Spec
CONSTANTS
    Plans <- MCPlans
    Queried = {7}
CONSTRAINT BoundedWait
INVARIANTS
    WriterInPlan
    PlannedIsRecorded
