CONSTANTS
    Keys = {"report_generated", "engagement_scope_reviewed", "unresolved_high_acknowledged"}
    Severities = {"none", "medium", "critical"}
    HandRatings = {"not_assessed"}
SPECIFICATION Spec
PROPERTIES
    UnwaivedClosingHasNoOpenRisk
    UnwaivedClosingIsComplete
    ClosingAssessesRisk
