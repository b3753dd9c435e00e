------------------------------ MODULE AppRoutes ------------------------------
(***************************************************************************)
(* The writes that go past the cache: the handlers of the student and the  *)
(* teacher app (android_student.py, android_teacher.py) and the sqladmin   *)
(* panel (admin/db_admin.py) change the tables the cached answers are read *)
(* from, and remove no entry.  The handlers of the apps that write to      *)
(* tables no cached answer reads (assignments, tasks, chat, the micro      *)
(* schedule) are not listed.                                               *)
(***************************************************************************)
EXTENDS CachedRoutes

AppWrite(inserts, updates) == Route("app", inserts, updates, << >>)

(* android_teacher.py.  The attendance of a class is deleted and inserted  *)
(* again; the results of an exam are updated or inserted.                  *)
teacher_mark_attendance ==
  AppWrite({"student_attendance"}, {"student_attendance"})
teacher_submit_exam_results == AppWrite({"marks"}, {"marks"})
teacher_create_announcement == AppWrite({"announcement"}, {})
teacher_update_announcement == AppWrite({}, {"announcement"})
teacher_delete_announcement == AppWrite({}, {"announcement"})
teacher_apply_leave == AppWrite({"leave"}, {})

(* android_student.py *)
create_diary_entry == AppWrite({"diary"}, {})

(* The tables of the panel's views that a cached answer reads.  sqladmin   *)
(* lets each view create, edit and delete.                                 *)
AdminTables ==
  { "group", "class", "section", "subject", "role", "employee", "student", "mapping",
    "student_attendance", "emp_attendance", "grade", "exam", "exam_timetable", "marks",
    "online_exam", "online_class", "announcement", "notification", "holiday",
    "timetable", "vehicle", "transport_student", "leave", "diary" }

AdminWrites ==
  { Route("admin", {table}, {}, << >>) : table \in AdminTables }
  \cup { Route("admin", {}, {table}, << >>) : table \in AdminTables }

AppWrites ==
  { teacher_mark_attendance, teacher_submit_exam_results,
    teacher_create_announcement, teacher_update_announcement,
    teacher_delete_announcement, teacher_apply_leave, create_diary_entry }
  \cup AdminWrites
=============================================================================
