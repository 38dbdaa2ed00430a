CONSTANTS
    Partition = {p, q}
    Limit = 2
    MaxRank = 5
    Versions = {v, w}
    NoRow = NoRow
    Row <- MCRow
    Rank <- MCRank
    Part <- MCPart
SPECIFICATION Spec
INVARIANTS TypeOK NoFault WindowCorrect FetchMatchesOutput NeverOverLimit UnconstrainedFetchComplete
