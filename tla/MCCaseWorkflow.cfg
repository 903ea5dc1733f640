CONSTANTS
    Users = {ana, pam}
    PlatformAdmins = {}
    NoUser = nobody
    AddRoles = {"collaborator"}
    TransferRoles = {"owner"}
SPECIFICATION Spec
SYMMETRY UserSymmetry
INVARIANTS
    ClosureEarned
    ReviewEarned
    SingleOwner
PROPERTIES
    ReviewClosedIsFinal
    CompletionIsGoverned
    ArchiveLeftOnlyByRestoreOrReview
    StageArchivedWithCase
    ImplementsLifecycle
CHECK_DEADLOCK FALSE
