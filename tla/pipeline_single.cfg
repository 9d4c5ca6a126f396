SPECIFICATION Spec
CONSTANTS
    Processors = {p1}
    Arbs = {r1, r2}
    Capacity = 2
    Accounts = {a1, a2}
    Subscribed = {a1}
    MaxStream = 4
INVARIANTS TypeOK RetryFindsRoom ArbSeesUpdates
PROPERTIES CacheForward StreamEndStops EveryTransactionSettles ImplementsFeed
