CONSTANTS
    Asts <- ScalarById
    Parent <- MCParent
    Child <- MCChild
    UniqueKeys <- MCUniqueKeys
    ExistsLimit = 2
    StartParents <- MCStartParents
    StartChildren <- MCStartChildren
SPECIFICATION Spec
INVARIANT ScalarStaysLive
