CONSTANTS
    r1 = r1
    r2 = r2
    t1 = t1
    t2 = t2
    Request = {r1, r2}
    TasksOf <- TwoAndOne
    PlansOf <- TwoAndOnePlans
SPECIFICATION Spec
INVARIANTS
    SnapshotIsOfTheRequest
CHECK_DEADLOCK FALSE
