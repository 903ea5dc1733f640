SPECIFICATION Spec
CONSTANTS
    StatusTargets = {"active"}
    StageTargets = {"archived"}
    r1 = r1
    r2 = r2
    Requests = {r1, r2}
    Unset = Unset
SYMMETRY Symmetry
CONSTRAINT BeforeTheRace
CHECK_DEADLOCK FALSE
INVARIANTS
    ClosingsAreEarned
PROPERTIES
    ClosedReviewStays
    AtomicUnlessOvertaken
    PurgedFromArchive
    LateEditsOnly
