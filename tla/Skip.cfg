CONSTANTS
    Row <- MCRow
    PrimaryKey <- MCPrimaryKey
    Queries <- MCQueries
SPECIFICATION Spec
INVARIANTS TypeOK PageCorrect FetchAgrees
