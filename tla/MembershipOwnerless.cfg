CONSTANTS
    Users = {ana, bea, pam}
    PlatformAdmins = {pam}
    NoUser = nobody
    AddRoles = {"collaborator"}
    TransferRoles = {"null"}
SPECIFICATION MembershipSpec
SYMMETRY UserSymmetry
INVARIANT NeverOwnerless
