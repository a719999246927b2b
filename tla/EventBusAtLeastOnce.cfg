CONSTANTS
    Topic = {completed, deadletter}
    Group = {king1, king2}
    Subscription = {s1, s2}
    Drainer = {d}
    MaxRetries = 2
    MaxEvents = 2
    None = None
SPECIFICATION Spec
SYMMETRY Symmetry
PROPERTIES
    DeliveryIsSettled
CHECK_DEADLOCK FALSE
