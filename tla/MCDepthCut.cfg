\* One client; a chain of two steps, and a depth of one.
SPECIFICATION Spec
CONSTANTS
    c1 = c1
    Client = {c1}
    Scenario <- DepthScenario
    Bounds <- DepthBounds
    FeedbackRelationId <- FeedbackCases
INVARIANTS BoundsAreExplicit
CHECK_DEADLOCK FALSE
