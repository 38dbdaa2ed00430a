CONSTANTS
    Asts <- MCAsts
    Parent <- MCParent
    Child <- MCChild
    UniqueKeys <- MCUniqueKeys
    ExistsLimit = 2
    StartParents <- MCStartParents
    StartChildren <- MCStartChildren
SPECIFICATION Spec
INVARIANTS TypeOK OutputFits ViewCorrect FetchAgrees
