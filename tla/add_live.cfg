CONSTANTS
    Workers = {w1, w2}
    Users = {u1}
    Sessions = {s1}
    RequestIDs = {id1}
    Payloads = {m1, m2}
    NoHash = NoHash
    Bodies <- MCBodies
    LegacyBody <- OneBody
    CurrentBody <- RenderedBodies
    NoDoc = NoDoc
    DistillEnabled = FALSE
    MaxAttempts = 2
SPECIFICATION FairSpec
PROPERTIES Answered Settles
