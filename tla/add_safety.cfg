CONSTANTS
    Workers = {w1, w2}
    Users = {u1}
    Sessions = {s1}
    RequestIDs = {id1}
    Payloads = {m1, m2}
    NoHash = NoHash
    Bodies <- MCBodies
    LegacyBody <- DistinctBodies
    CurrentBody <- RenderedBodies
    NoDoc = NoDoc
    DistillEnabled = TRUE
    MaxAttempts = 2
SPECIFICATION Spec
SYMMETRY Symmetry
INVARIANTS AckDurable IInv RetryPaysNoModel PathBindsMessages
PROPERTIES ConflictIsReal ImplementsContract
