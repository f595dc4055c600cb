\* One client; a record has the id of the case's relation.
SPECIFICATION Spec
CONSTANTS
    c1 = c1
    Client = {c1}
    Scenario <- IdTakenScenario
    FeedbackRelationId <- FeedbackCases
PROPERTIES GivesUpAfterChanges
CHECK_DEADLOCK FALSE
