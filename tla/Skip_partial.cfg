CONSTANTS
    Row <- MCRow
    PrimaryKey <- MCPrimaryKey
    Queries <- TieQueries
SPECIFICATION Spec
INVARIANT FetchAgrees
