\* One visitor and the administrator, who changes one thing.
SPECIFICATION Spec
CONSTANTS
    Up = Up
    NoLink = NoLink
    Names <- MCNames
    Sub <- Folder
    Raws <- MCRaws
    Targets <- MCTargets
    Seeds <- MCSeeds
    Placed <- MCPlaced
    Policies <- MCPolicies
    MaxEdits = 1
INVARIANTS
    TypeOK
    Guarded
    OutsideOnlyBySwap
    LinksAnswer
CHECK_DEADLOCK FALSE
