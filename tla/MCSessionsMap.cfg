\* What a comment says of verify-otp: the session is mapped to the user.
SPECIFICATION Spec
CONSTANTS
    None = None
    WebKeys = {}
    AppKeys = {k1}
    Devices = {d1}
    WebUsers = {}
    AppUsers = {a1}
    Reqs = {r1}
    WebTTL = 1
    AppTTL = 1
    MaxTime = 2
PROPERTY MappedOntoSession
