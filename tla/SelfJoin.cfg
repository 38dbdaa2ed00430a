CONSTANTS
    Ids = {1, 2, 3}
    Keys = {k}
    Null = Null
    Versions = {1, 2}
    NoRow = NoRow
    Row <- Sibling
    Pk <- SiblingPk
    Rank <- SiblingRank
    ParentKey <- SiblingKey
    ChildKey <- SiblingKey
    ParentRows <- Sibling
    ChildRows <- OfVersion1
SPECIFICATION Spec
INVARIANTS TypeOK NoFault FetchMatchesOutput OthersCorrect
CHECK_DEADLOCK FALSE
