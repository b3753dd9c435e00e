\* What the docstring of stop_alarm says.
SPECIFICATION Spec
CONSTANTS
    None = None
    OtpPush = OtpPush
    StudentIds = {u1}
    StaffIds = {u1}
    Tokens = {t1}
    Classes = {}
    AlarmIds = {a1}
    Plans <- TwoPlans
    Reqs = {r1}
    ALARM_SLOTS <- OneSlot
    MaxRows = 2
    MaxDays = 0
PROPERTY StopsOwnAlarm
