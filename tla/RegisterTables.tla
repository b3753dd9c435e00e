--------------------------- MODULE RegisterTables ---------------------------
(***************************************************************************)
(* The tables of the API that hold one row per key by look-up alone, and   *)
(* what each handler looks for before it writes.                           *)
(***************************************************************************)

Handler(does, asks, looks) == [does |-> does, asks |-> asks, looks |-> looks]

Register(name, places, keeps, unique, handlers) ==
  [name |-> name, places |-> places, keeps |-> keeps, unique |-> unique,
   handlers |-> handlers]

Nowhere(places) == [p \in places |-> {}]
Anywhere(places) == [p \in places |-> places]
SamePlace(places) == [p \in places |-> {p}]

-----------------------------------------------------------------------------
(* Most tables: one key, and everything else (other keys, and rows without *)
(* one, for which the look-up is skipped).                                 *)
Slot == {"key", "else"}
AtKey == [p \in Slot |-> IF p = "key" THEN {"key"} ELSE {}]

OneAtKey == Handler("insert", "one", AtKey)
AnyAtKey == Handler("insert", "any", AtKey)
Unlooked(does) == Handler(does, "nothing", Nowhere(Slot))

(* The admin panel creates, edits and deletes the rows of its tables, and  *)
(* looks for nothing.                                                      *)
Panel(places) ==
  {Handler(does, "nothing", Nowhere(places)) : does \in {"insert", "move", "delete"}}

SlotRegister(name, handlers) == Register(name, Slot, AtKey, FALSE, handlers)

-----------------------------------------------------------------------------
(* Groups, classes, sections and subjects: deleting is a change of status, *)
(* and the look-ups do not mind the status.                                *)
create_school_group == OneAtKey
update_school_group == Unlooked("move")
create_class == OneAtKey
update_class == Unlooked("move")
create_section == OneAtKey
update_section == Unlooked("move")
create_subject == OneAtKey
update_subject == Unlooked("move")

SchoolTables ==
  { SlotRegister("group", {create_school_group, update_school_group} \cup Panel(Slot)),
    SlotRegister("class", {create_class, update_class} \cup Panel(Slot)),
    SlotRegister("section", {create_section, update_section} \cup Panel(Slot)),
    SlotRegister("subject", {create_subject, update_subject} \cup Panel(Slot)) }

-----------------------------------------------------------------------------
(* Roles, employees (the one table here with a UNIQUE key), inquiries.     *)
create_role == OneAtKey
update_role == Unlooked("move")
create_employee == OneAtKey
bulk_upload_employees == Handler("upsert", "any", AtKey)
create_inquiry == OneAtKey
update_inquiry == Handler("move", "one", AtKey)
delete_inquiry == Unlooked("delete")

PeopleTables ==
  { SlotRegister("role", {create_role, update_role} \cup Panel(Slot)),
    Register("employee", Slot, AtKey, TRUE,
             {create_employee, bulk_upload_employees} \cup Panel(Slot)),
    SlotRegister("inquiry", {create_inquiry, update_inquiry, delete_inquiry}) }

-----------------------------------------------------------------------------
(* Holidays, notifications and the diary, which the student app adds to.   *)
create_holiday == OneAtKey
update_holiday == Unlooked("move")
delete_holiday == Unlooked("delete")
(* mutant: the look-up leaves the role out *)
create_notification_any_role == Handler("insert", "one", Anywhere(Slot))
create_notification == OneAtKey
update_notification == Unlooked("move")
delete_notification == Unlooked("delete")
create_diary == OneAtKey
update_diary == Unlooked("move")
delete_diary == Unlooked("delete")
create_diary_entry == Unlooked("insert")

NoticeTables ==
  { SlotRegister("holiday", {create_holiday, update_holiday, delete_holiday} \cup Panel(Slot)),
    SlotRegister("notification",
      {create_notification, update_notification, delete_notification} \cup Panel(Slot)),
    SlotRegister("diary",
      {create_diary, update_diary, delete_diary, create_diary_entry} \cup Panel(Slot)) }

-----------------------------------------------------------------------------
(* Grades, exams and their timetables.  A range of more than two decimals  *)
(* is looked up as it was sent and stored rounded (DECIMAL(18, 2)), which  *)
(* is as good as not looking.                                              *)
create_grade == OneAtKey
create_grades_bulk == AnyAtKey
create_grade_unrounded == Unlooked("insert")
delete_grade == Unlooked("delete")
create_exam == OneAtKey
update_exam == Unlooked("move")
delete_exam == Unlooked("delete")
create_exam_timetable == OneAtKey
update_exam_timetable == Handler("move", "one", AtKey)
delete_exam_timetable == Unlooked("delete")
create_online_exam == OneAtKey
update_online_exam == Unlooked("move")
delete_online_exam == Unlooked("delete")

(* The marks of a student in a subject, one per class.  A create looks at  *)
(* the student and the subject only, whatever the exam and the class, and  *)
(* inserts a row for every entry of the body, which may name a subject     *)
(* twice; the teacher's upsert looks at the class as well.                 *)
TwoClasses == {"class1", "class2"}
create_marks == Handler("insert_each", "any", Anywhere(TwoClasses))
teacher_submit_exam_results == Handler("upsert", "one", SamePlace(TwoClasses))

ExamTables ==
  { SlotRegister("grade",
      {create_grade, create_grades_bulk, create_grade_unrounded, delete_grade} \cup Panel(Slot)),
    SlotRegister("exam", {create_exam, update_exam, delete_exam} \cup Panel(Slot)),
    SlotRegister("exam_timetable",
      {create_exam_timetable, update_exam_timetable, delete_exam_timetable} \cup Panel(Slot)),
    SlotRegister("online_exam",
      {create_online_exam, update_online_exam, delete_online_exam} \cup Panel(Slot)),
    Register("marks", TwoClasses, SamePlace(TwoClasses), FALSE,
             {create_marks, teacher_submit_exam_results} \cup Panel(TwoClasses)) }

-----------------------------------------------------------------------------
(* The routes of vehicles, and the students on them.                       *)
create_vehicle_route_map == OneAtKey
update_vehicle_route_map == Unlooked("move")
delete_vehicle_route_map == Unlooked("delete")
create_transportation_student == OneAtKey
update_transportation_student == Unlooked("move")
delete_transportation_student == Unlooked("delete")

TransportTables ==
  { SlotRegister("vehicle_route",
      {create_vehicle_route_map, update_vehicle_route_map, delete_vehicle_route_map}),
    SlotRegister("transport_student",
      {create_transportation_student, update_transportation_student,
       delete_transportation_student} \cup Panel(Slot)) }

-----------------------------------------------------------------------------
(* Attendance: one row per person and day.  The bulk creates look once for *)
(* each entry, and the look-up flushes the rows of the entries before it.  *)
create_bulk_employee_attendance == AnyAtKey
delete_employee_attendance == Unlooked("delete")

(* A student's rows of one day, in two classes, and one of another day.  A *)
(* teacher replaces the rows of one class, whatever another class has of   *)
(* the same student.  The update expects one row of the student, of the    *)
(* day that was given, or, where none was, of all days.                    *)
ThatDay == {"class1", "class2"}
Attended == ThatDay \cup {"another_day"}
OneADay == [p \in Attended |-> IF p \in ThatDay THEN ThatDay ELSE {p}]
create_bulk_student_attendance == Handler("insert", "any", OneADay)
teacher_mark_attendance == Handler("replace", "nothing", SamePlace(Attended))
update_student_attendance == Handler("touch", "one", OneADay)
update_student_attendance_any_day == Handler("touch", "one", Anywhere(Attended))
delete_student_attendance == Handler("delete", "nothing", Nowhere(Attended))

student_attendance ==
  Register("student_attendance", Attended, OneADay, FALSE,
    {create_bulk_student_attendance, teacher_mark_attendance, update_student_attendance,
     update_student_attendance_any_day, delete_student_attendance} \cup Panel(Attended))

AttendanceTables ==
  { SlotRegister("emp_attendance",
      {create_bulk_employee_attendance, delete_employee_attendance} \cup Panel(Slot)),
    student_attendance }

-----------------------------------------------------------------------------
(* The leaves of one employee: two days and the leave over both.           *)
Days == {"first", "second", "both"}
Overlap == [p \in Days |-> {q \in Days : p = q \/ "both" \in {p, q}}]
(* mutant: only the last day of the new leave is looked up *)
create_leave_request_at_end ==
  Handler("insert", "one", [Overlap EXCEPT !["both"] = @ \ {"first"}])
create_leave_request == Handler("insert", "one", Overlap)
update_leave_request == Handler("move", "nothing", Nowhere(Days))
delete_leave_request == Handler("delete", "nothing", Nowhere(Days))
teacher_apply_leave == Handler("insert", "nothing", Nowhere(Days))

leaves ==
  Register("leave", Days, Overlap, FALSE,
    {create_leave_request, update_leave_request, delete_leave_request, teacher_apply_leave}
    \cup Panel(Days))

-----------------------------------------------------------------------------
(* emp_class_mapping holds two registers (employee.create_mapping, which    *)
(* would be a third, gives no section and always fails).  The class        *)
(* teacher of a class and section:                                         *)
create_class_teacher == OneAtKey
update_mapping == Unlooked("move")
delete_mapping == Unlooked("delete")

(* and the teacher of a subject in a class and section, which the class    *)
(* teacher may be made as well, without a look-up:                         *)
Teachers == {"teacher1", "teacher2"}
create_subject_teacher == Handler("insert", "one", Anywhere(Teachers))
create_class_teacher_of_subject == Handler("insert", "nothing", Nowhere(Teachers))
update_subject_mapping == Handler("move", "nothing", Nowhere(Teachers))
delete_subject_mapping == Handler("delete", "nothing", Nowhere(Teachers))

TeacherTables ==
  { SlotRegister("class_teacher", {create_class_teacher, update_mapping, delete_mapping}),
    Register("subject_teacher", Teachers, Anywhere(Teachers), FALSE,
      {create_subject_teacher, create_class_teacher_of_subject, update_subject_mapping,
       delete_subject_mapping}) }

-----------------------------------------------------------------------------
(* Announcements of one title: for a class, or for all.  The look-up for   *)
(* all does not name a class, and finds the ones of every class.           *)
Audience == {"class1", "class2", "all"}
Named == [p \in Audience |-> IF p = "all" THEN Audience ELSE {p}]
create_announcement == Handler("insert", "one", Named)
update_announcement == Handler("move", "nothing", Nowhere(Audience))
delete_announcement == Handler("delete", "nothing", Nowhere(Audience))
teacher_create_announcement == Handler("insert", "nothing", Nowhere(Audience))

announcements ==
  Register("announcement", Audience, SamePlace(Audience), FALSE,
    {create_announcement, update_announcement, delete_announcement,
     teacher_create_announcement} \cup Panel(Audience))

-----------------------------------------------------------------------------
(* Upserts: a device (UNIQUE), and what a student submits for an           *)
(* assignment, whose rows go with the assignment, and the key with them.   *)
register_device == Handler("upsert", "one", AtKey)
student_submit_assignment == Handler("upsert", "one", AtKey)

UpsertTables ==
  { Register("device", Slot, AtKey, TRUE, {register_device}),
    SlotRegister("submission", {student_submit_assignment}) }

-----------------------------------------------------------------------------
AllTables ==
  SchoolTables \cup PeopleTables \cup NoticeTables \cup ExamTables \cup TransportTables
  \cup AttendanceTables \cup TeacherTables \cup UpsertTables \cup {leaves, announcements}

(* The handlers that insert, move or replace without a look-up. *)
AllUnchecked ==
  UNION {{t} \X {h \in t.handlers : h.asks = "nothing" /\ h.does # "delete"} : t \in AllTables}

(* A leave over two days finds the two leaves of one day each; an          *)
(* announcement to all finds those of two classes; an update of attendance *)
(* without a day finds the student's rows of all days.                     *)
AllWide ==
  { << leaves, create_leave_request >>,
    << announcements, create_announcement >>,
    << student_attendance, update_student_attendance_any_day >> }
=============================================================================
