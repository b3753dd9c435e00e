\* App users: two requests in flight over two sessions of one device.
SPECIFICATION Spec
CONSTANTS
    None = None
    WebKeys = {}
    AppKeys = {k1, k2}
    Devices = {d1}
    WebUsers = {}
    AppUsers = {a1}
    Reqs = {r1, r2}
    WebTTL = 1
    AppTTL = 1
    MaxTime = 2
SYMMETRY Symmetry
INVARIANT TypeOK
INVARIANT ZombieOnlyAfterOverlap
PROPERTY AdmittedInTime
PROPERTY RevocationFinal
