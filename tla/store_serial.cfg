\* One update at a time, disk errors, and a crash at any moment.
SPECIFICATION Spec
CONSTANTS
    Updaters = {u1}
    Boot = Boot
    Fields = {f1, f2}
    Vals = {0, 1}
    DefaultVal = 0
    Inodes = {i1, i2}
    NoFile = NoFile
    Blank = Blank
    Torn = Torn
    DiskErrors = TRUE
    MaxPushes = 2
    SessionKeys = {k1, k2}
    NoKey = NoKey
INVARIANTS
    DiskNeverTorn
    NoLostUpdate
    CacheIsDisk
PROPERTIES
    SavedKeepsKeyAndCount
    SavedIsAtomic
