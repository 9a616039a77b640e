CONSTANTS
    Backups = {b1}
    Jobs = {{"backup", "purge"}}
    Docs = {d1, d2}
    Expired = {d1, d2}
    MaxFaults = 0
SPECIFICATION Spec
PROPERTY DeletesOnlyStopped
