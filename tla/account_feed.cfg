SPECIFICATION Spec
CONSTANTS
    P1 = P1
    P2 = P2
    Pools = {P1, P2}
    Deployments <- MCDeployments
    RoleLists <- MCRoleLists
    KeyLists <- MCKeyLists
    Pairs <- MCPairs
    Absent = Absent
    Unset = Unset
    Grain = 2
    None = None
    MaxMessages = 2
INVARIANTS TypeOK VaultsFollowed QuotesReadWhatIsFollowed ChangesAreTheTransactions SwapsAreSearched
CHECK_DEADLOCK FALSE
