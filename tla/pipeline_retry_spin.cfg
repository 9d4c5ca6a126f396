SPECIFICATION Spec
CONSTANTS
    Processors = {p1, p2}
    Arbs = {r1}
    Capacity = 1
    Accounts = {}
    Subscribed = {}
    MaxStream = 5
PROPERTIES StreamEndStops
