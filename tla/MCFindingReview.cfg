CONSTANTS
    FindingTargets = {"validated", "mitigated"}
    HistoryLimit = 3
    Requests = {r1, r2}
    Unset = unset
SPECIFICATION Spec
SYMMETRY SlotSymmetry
CONSTRAINT BeforeTheRace
INVARIANTS
    OutcomeMatchesRemediation
    RemediatedIsVerified
    HistoryTellsDecisions
    ClosureIsStrictest
PROPERTIES
    ResolutionIsKept
