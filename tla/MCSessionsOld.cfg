\* What a comment says of verify-otp: old sessions are logged out.
SPECIFICATION Spec
CONSTANTS
    None = None
    WebKeys = {}
    AppKeys = {k1, k2}
    Devices = {d1}
    WebUsers = {}
    AppUsers = {a1}
    Reqs = {r1}
    WebTTL = 1
    AppTTL = 1
    MaxTime = 2
PROPERTY OldSessionsLoggedOut
