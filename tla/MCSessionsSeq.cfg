\* One request at a time, failures included: web and app sessions together.
SPECIFICATION FairSpec
CONSTANTS
    None = None
    WebKeys = {k1, k2}
    AppKeys = {j1}
    Devices = {d1}
    WebUsers = {w1}
    AppUsers = {a1}
    Reqs = {r1}
    WebTTL = 1
    AppTTL = 1
    MaxTime = 2
PROPERTY WebLoginLogsOutEverywhere
PROPERTY ImplementsLifecycle
PROPERTY EverySessionEnds
