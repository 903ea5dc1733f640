CONSTANTS
    Users = {ana, pam}
    PlatformAdmins = {}
    NoUser = nobody
    AddRoles = {"collaborator"}
    TransferRoles = {"owner"}
SPECIFICATION Spec
SYMMETRY UserSymmetry
INVARIANT ClosedCaseReadOnly
CHECK_DEADLOCK FALSE
