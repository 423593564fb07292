\* Is a document in the published shape accepted where the same in the contract's is?
SPECIFICATION MCSpec
CONSTANTS
    Containers = {1, 2}
    Keys = {1}
    Groups = {g1, g2}
    Shapes = {s1, s2}
    Ports = {80}
    None = None
    MaxStrays = 2
    MaxRenders = 2
    Values <- MCValues
    Drafts <- MCDrafts
    MaxEdits = 3
    Documents <- MCDocuments
    Apps = {"a", "b"}
    SecretNames = {"k"}
    MountPaths = {1, 2}
    HeaderNames = {1, 2}
    Missing = Missing
SYMMETRY Symmetry
INVARIANT CamelIsAccepted
CHECK_DEADLOCK FALSE
