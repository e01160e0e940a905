\* A password change and another setting, saved at once.
SPECIFICATION Spec
CONSTANTS
    Handlers = {h1, h2}
    Users = {u1}
    Passwords = {p1, p2}
    None = None
    MaxLoginFails = 2
    LockSecs = 2
    TtlSecs = 2
    MaxTime = 4
SYMMETRY Symmetry
PROPERTIES
    SettingKeepsPassword
