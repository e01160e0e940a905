\* One start that cannot read its file is enough.
SPECIFICATION Spec
CONSTANTS
    Updaters = {u1}
    Boot = Boot
    Fields = {f1}
    Vals = {0, 1}
    DefaultVal = 0
    Inodes = {i1, i2}
    NoFile = NoFile
    Blank = Blank
    Torn = Torn
    DiskErrors = TRUE
    MaxPushes = 0
    SessionKeys = {k1, k2}
    NoKey = NoKey
PROPERTIES
    KeyOnFirstRun
