\* One client that keeps applying one case, and may die once while it appends.
SPECIFICATION RetrySpec
CONSTANTS
    c1 = c1
    Client = {c1}
    Scenario <- JournalScenario
    FeedbackRelationId <- FeedbackCases
PROPERTIES RetriesSettle
CHECK_DEADLOCK FALSE
