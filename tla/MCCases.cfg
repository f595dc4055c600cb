\* Two clients: the whole chain, races over a decision and over releases, the application of
\* a case, a case whose relation id is taken.
SPECIFICATION Spec
CONSTANTS
    c1 = c1
    c2 = c2
    Client = {c1, c2}
    Scenario <- CaseScenarios
    FeedbackRelationId <- FeedbackCases
SYMMETRY Clients
INVARIANTS TypeOK OnlyOccupationPoisons FreshPermitIsEarned FreshReleaseIsEarned StaleForever
PROPERTIES CallsAreAtomic GivesUpOnlyWhenRaced OccupiedIsClosed
CHECK_DEADLOCK FALSE
