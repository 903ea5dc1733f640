CONSTANTS
    Users = {ana, bea, pam}
    PlatformAdmins = {pam}
    NoUser = nobody
    AddRoles = {"owner", "admin", "collaborator", "viewer"}
    TransferRoles = {"owner", "admin", "analyst", "viewer", "null"}
    r1 = r1
    r2 = r2
    EditSlots = {r1, r2}
    TaskPatches <- OneField
    NewTasks <- FreshTasks
    Unset = Unset
SPECIFICATION TasksSpec
SYMMETRY Symmetry
CONSTRAINT TasksOnOrdinaryCases
INVARIANTS
    CompletionIsStamped
    AssigneeIsTold
PROPERTIES
    GivenToMembers
    OutgoingOwnerDemoted
    SingleOwnerLostOneOfTwoWays
    LastOwnerKept
