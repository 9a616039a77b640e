CONSTANTS
    Backups = {b1}
    Jobs = {{"backup"}}
    Docs = {d1, d2}
    Expired = {d1}
    MaxFaults = 2
SPECIFICATION Spec
INVARIANT ServicesRestored
