\* Two clients apply two cases that exclude each other, or one whose relation id is taken.
SPECIFICATION Spec
CONSTANTS
    c1 = c1
    c2 = c2
    Client = {c1, c2}
    Scenario <- PromiseScenarios
    FeedbackRelationId <- DuelCases
SYMMETRY Clients
INVARIANTS RivalsExclude
PROPERTIES ImplementsFeedbackCase
CHECK_DEADLOCK FALSE
