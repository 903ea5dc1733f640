CONSTANTS
    Accounts = {ana, bea, cid}
    Requests = {r1, r2}
    RequiresApproval = TRUE
SPECIFICATION Spec
SYMMETRY AccountSymmetry
INVARIANT SomeActiveAdmin
