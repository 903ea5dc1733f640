SPECIFICATION SessionSpec
CONSTANTS
    Accounts = {ana, bea}
    Requests = {r1}
    RequiresApproval = TRUE
    Holder = ana
    Tokens = {t1, t2, t3}
    NoToken = none
    Refreshes = {f1, f2}
SYMMETRY Symmetry
CONSTRAINT OverlapInPairs
INVARIANTS
    SomeActiveAdmin
    ColumnsAgree
    SessionsAreSingle
PROPERTIES
    IssuedToActive
