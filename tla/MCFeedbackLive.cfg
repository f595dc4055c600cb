\* Two clients that retry one case, with a failing database and deaths.
SPECIFICATION RetrySpec
CONSTANTS
    c1 = c1
    c2 = c2
    Client = {c1, c2}
    Scenario <- LiveScenarios
    FeedbackRelationId <- FeedbackCases
PROPERTIES CallsEnd CasesSettle
CHECK_DEADLOCK FALSE
