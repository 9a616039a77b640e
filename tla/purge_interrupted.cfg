CONSTANTS
    Backups = {}
    Jobs = {{"purge"}}
    Docs = {d1, d2}
    Expired = {d1, d2}
    MaxFaults = 1
SPECIFICATION Spec
INVARIANT PurgedWhole
