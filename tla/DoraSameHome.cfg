CONSTANTS
    d1 = d1
    d2 = d2
    b1 = b1
    b2 = b2
    Drivers = {d1, d2}
    Branches = {b1, b2}
    Home <- SameHome
    AcctBranch <- SameAcct
    ActErrors = {FALSE, TRUE}
    None = None
SPECIFICATION Spec
INVARIANT TypeOK
PROPERTY ActionsRunAndFinish
