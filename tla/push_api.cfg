\* What becomes of a push and of the key list: two keys and one alias, one push of any
\* kind against two updates of the configuration, two entries.
SPECIFICATION Spec
CONSTANTS
    k1 = k1
    k2 = k2
    a1 = a1
    Pushers = {r1}
    Handlers = {h1, h2}
    Keys = {k1, k2}
    Aliases = {a1}
    Blank = Blank
    Words = Words
    Requests <- Sent
    MaxKeys = 3
    Bare = {k1}
    MaxEntries = 2
INVARIANTS
    RepliesAreTrue
    HooksComeThrough
    DeletedStaysOut
    AliasReachesOwner
    TwiceOnlyIfOverlapped
SYMMETRY Symmetry
