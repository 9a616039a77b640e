CONSTANTS
    Docs = {d1, d2, d3}
    Outside = Outside
    TopK = 2
    MaxCalls = 4
    MaxPaths = 3
SPECIFICATION Spec
INVARIANTS EvidenceVouched SubmitDecides NoSilentDegradation AutoDegradesFully
