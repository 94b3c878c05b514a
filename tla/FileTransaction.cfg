SPECIFICATION Spec
CONSTANTS
    f1 = f1
    f2 = f2
    f3 = f3
    old = old
    new = new
    File = {f1, f2, f3}
    Content = {old, new}
    Absent = Absent
    Keep = Keep
    Plans <- MCPlans
INVARIANTS
    AllOrNothing
    MarkedIsKept
