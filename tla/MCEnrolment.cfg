\* Two requests in flight for two students.
SPECIFICATION Spec
CONSTANTS
    None = None
    c1 = c1
    c2 = c2
    c3 = c3
    x1 = x1
    StudentIds = {s1, s2}
    MapIds = {m1, m2, m3}
    Rolls = {x1}
    Classes = {c1, c2, c3}
    Codes = {"A", "B"}
    Sections <- School
    NextClass <- Following
    Payloads <- Bodies
    Files <- Uploads
    Reqs = {r1, r2}
SYMMETRY Symmetry
INVARIANT TypeOK
INVARIANT OneStayUnlessRaced
INVARIANT StaysEnrolled
INVARIANT LookupsAgree
INVARIANT RollsUnique
PROPERTY HistoryKept
PROPERTY MovesFromStay
