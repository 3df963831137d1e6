\* Two jobs and one instance or validation, over three releases.
CONSTANTS
    Jobs = {j1, j2}
    Checkers = {c1}
    s1 = s1
    s2 = s2
    s3 = s3
    edited = edited
    Scripts = {s1, s2, s3, edited}
    Releases = {"first", "second", "drifted"}
    Embedded <- MCEmbedded
    Nil = Nil
SPECIFICATION Spec
INVARIANTS
    SchemaMatchesHistory
    SuccessIsLasting
    JobsDoNotCollide
PROPERTIES
    WholeBatches
    EveryJobEnds
