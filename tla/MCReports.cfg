SPECIFICATION Spec
CONSTANTS
    Users = {owner, admin}
    Requests = {r1, r2, r3}
    Unset = unset
CONSTRAINT InFlightBound
SYMMETRY Symmetry
INVARIANTS
    ContentMatchesStatus
    ArchiveIsWhole
    VerdictsAreWhole
    PendingIsAlerted
PROPERTIES
    RefusedByRebuildOnly
