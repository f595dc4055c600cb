\* One client; every order in which the activations of a menu can follow each other.
SPECIFICATION Spec
CONSTANTS
    c1 = c1
    Client = {c1}
    Scenario <- ViewScenarios
    Bounds <- ViewBounds
    FeedbackRelationId <- FeedbackCases
INVARIANTS OneCurrentRevision StalenessIsReachability CausePathsAreShortest ExplanationIsExact StalenessIsExplained ImpactIsCovered TimelinesAgree ProvenanceIsExact LossesAreOnTimelines
PROPERTIES UnusableForever
CHECK_DEADLOCK FALSE
