\* Two updates at once, no disk error, no crash needed.
SPECIFICATION Spec
CONSTANTS
    Updaters = {u1, u2}
    Boot = Boot
    Fields = {f1, f2}
    Vals = {0, 1}
    DefaultVal = 0
    Inodes = {i1, i2, i3, i4}
    NoFile = NoFile
    Blank = Blank
    Torn = Torn
    DiskErrors = FALSE
    MaxPushes = 0
    SessionKeys = {k1, k2}
    NoKey = NoKey
SYMMETRY Symmetry
INVARIANTS
    DiskNeverTorn
