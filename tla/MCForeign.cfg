\* One case, two typed invalidations, up to two events through the plain store.
SPECIFICATION Spec
CONSTANTS
    Setup <- ForeignSetup
    Menu <- ForeignMenu
    Foreign <- ForeignEvents
    FeedbackRelationId <- FeedbackCases
    MaxForeign = 2
INVARIANTS ReplayAcceptsExactlyTheEarned
CHECK_DEADLOCK FALSE
