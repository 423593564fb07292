\* Two containers that may share a group, one key in three layers.
\* Three facts of metadata.fly written in either spelling on top of a first draft.
\* Twelve services and three odd documents, planned, kept in a file, applied.
SPECIFICATION MCSpec
CONSTANTS
    Containers = {1, 2}
    Keys = {1}
    Groups = {g1, g2}
    Shapes = {s1, s2}
    Ports = {80}
    None = None
    MaxStrays = 2
    MaxRenders = 2
    Values <- MCValues
    Drafts <- MCDrafts
    MaxEdits = 3
    Documents <- MCDocuments
    Apps = {"a", "b"}
    SecretNames = {"k"}
    MountPaths = {1, 2}
    HeaderNames = {1, 2}
    Missing = Missing
SYMMETRY Symmetry
INVARIANTS SecretsStayOut FalseAlarmsBounded InnermostWins PlanIsWhole MeansWhatItSays AppliedAsPlanned
PROPERTY HashIsStable
CHECK_DEADLOCK FALSE
