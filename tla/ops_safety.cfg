CONSTANTS
    Backups = {b1, b2}
    Jobs = {{"backup"}, {"purge"}}
    Docs = {d1, d2}
    Expired = {d1}
    MaxFaults = 1
SPECIFICATION Spec
INVARIANTS Serialized ServicesRestored PublishedWhole ArchiveConsistent NeverDangling
