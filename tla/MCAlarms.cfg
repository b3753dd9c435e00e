\* Two logins of one student in flight, two devices, a class to move into, over midnight.
SPECIFICATION Spec
CONSTANTS
    None = None
    OtpPush = OtpPush
    StudentIds = {u1}
    StaffIds = {u1}
    Tokens = {t1, t2}
    Classes = {c1}
    AlarmIds = {a1}
    Plans <- TwoPlans
    Reqs = {r1, r2}
    ALARM_SLOTS <- OneSlot
    MaxRows = 2
    MaxDays = 1
SYMMETRY Symmetry
INVARIANT TypeOK
INVARIANT OneRowPerStudentUnlessRaced
INVARIANT FreshDay
INVARIANT ClassAsAtLogin
PROPERTY StopRespected
