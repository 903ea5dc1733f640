CONSTANTS
    Runs = {n1, n2}
    Steps = {s1, s2}
    RequiredSteps = {s1}
    RunTargets = {"blocked", "completed", "cancelled"}
    StepTargets = {"in_progress", "completed", "skipped"}
    ArchiveTargets = {}
    Requests = {r1, r2}
SPECIFICATION Spec
SYMMETRY SlotSymmetry
INVARIANTS
    FinishedRunsAreClosed
    OneRunUnderWay
PROPERTIES
    ClosedRunsAreFrozen
    AtomicUnlessOvertaken
