----------------------------- MODULE ExamRoutes -----------------------------
(***************************************************************************)
(* The cached answers and the writes of exam.py.                           *)
(***************************************************************************)
EXTENDS CachedRoutes

-----------------------------------------------------------------------------
(* Grades *)
list_grades ==
  List("grade", <<"grade", "list">>,
       <<"is_active", "search", "page", "limit">>,
       Pages \cup {"is_active", "search"}, {"grade"}, {})
get_grade == Item("grade", <<"grade", "id">>, {"grade"})

create_grade ==
  Route("grade", {"grade"}, {}, << Set(<<"grade", "id">>), Sweep(<<"grade", "list">>) >>)
create_grades_bulk == Route("grade", {"grade"}, {}, << Sweep(<<"grade", "list">>) >>)
delete_grade ==
  Route("grade", {}, {"grade"}, << Del(<<"grade", "id">>), Sweep(<<"grade", "list">>) >>)

-----------------------------------------------------------------------------
(* Exams *)
list_exams ==
  List("exam", <<"exam", "list">>,
       <<"class_id", "search", "page", "limit">>,
       Pages \cup {"class_id", "search"}, {"exam"}, {})
get_exam == Item("exam", <<"exam", "id">>, {"exam"})

create_exam ==
  Route("exam", {"exam"}, {}, << Set(<<"exam", "id">>), Sweep(<<"exam", "list">>) >>)
update_exam ==
  Route("exam", {}, {"exam"}, << Set(<<"exam", "id">>), Sweep(<<"exam", "list">>) >>)
delete_exam ==
  Route("exam", {}, {"exam"}, << Del(<<"exam", "id">>), Sweep(<<"exam", "list">>) >>)

-----------------------------------------------------------------------------
(* Exam timetables: their list shares the prefix timetable:list with       *)
(* timetable.py, so that each sweeps the other's lists too.                *)
list_exam_timetables ==
  List("exam_timetable", <<"timetable", "list">>,
       <<"class_id", "exam_id", "search", "page", "limit">>,
       Pages \cup {"class_id", "exam_id", "search"},
       {"exam_timetable"}, {"exam"})

create_exam_timetable ==
  Route("exam_timetable", {"exam_timetable"}, {}, << Sweep(<<"timetable", "list">>) >>)
update_exam_timetable ==
  Route("exam_timetable", {}, {"exam_timetable"}, << Sweep(<<"timetable", "list">>) >>)
delete_exam_timetable ==
  Route("exam_timetable", {}, {"exam_timetable"}, << Sweep(<<"timetable", "list">>) >>)

-----------------------------------------------------------------------------
(* Marks: three lists of one student's marks, of which a create sweeps the *)
(* first only.                                                             *)
list_marks ==
  List("marks", <<"marks", "student">>,
       <<"student_id", "class_id", "section_id", "subject_id",
         "exam_id", "online_exam_id", "page", "limit">>,
       Pages \cup {"student_id", "class_id", "section_id", "subject_id",
                   "exam_id", "online_exam_id"},
       {"marks"}, {"exam", "online_exam"})
list_offline_marks ==
  List("marks", <<"marks", "offline">>,
       <<"student_id", "class_id", "section_id", "subject_id",
         "exam_id", "page", "limit">>,
       Pages \cup {"student_id", "class_id", "section_id", "subject_id",
                   "exam_id"},
       {"marks"}, {"exam"})
list_online_marks ==
  List("marks", <<"marks", "online">>,
       <<"student_id", "class_id", "section_id", "subject_id",
         "online_exam_id", "page", "limit">>,
       Pages \cup {"student_id", "class_id", "section_id", "subject_id",
                   "online_exam_id"},
       {"marks"}, {"online_exam"})

create_marks == Route("marks", {"marks"}, {}, << Sweep(<<"marks", "student">>) >>)

-----------------------------------------------------------------------------
(* Online exams and online classes: the entries per row are written and    *)
(* removed, and no handler reads them.                                     *)
list_online_exams ==
  List("online_exam", <<"online_exam", "list">>,
       <<"class_id", "subject_id", "search", "page", "limit">>,
       Pages \cup {"class_id", "subject_id", "search"}, {"online_exam"}, {})
list_online_classes ==
  List("online_class", <<"online_class", "list">>,
       <<"class_id", "subject_id", "search", "page", "limit">>,
       Pages \cup {"class_id", "subject_id", "search"}, {"online_class"}, {})

create_online_exam ==
  Route("online_exam", {"online_exam"}, {},
        << Set(<<"online_exam", "id">>), Sweep(<<"online_exam", "list">>) >>)
update_online_exam ==
  Route("online_exam", {}, {"online_exam"},
        << Set(<<"online_exam", "id">>), Sweep(<<"online_exam", "list">>) >>)
delete_online_exam ==
  Route("online_exam", {}, {"online_exam"},
        << Del(<<"online_exam", "id">>), Sweep(<<"online_exam", "list">>) >>)
create_online_class ==
  Route("online_class", {"online_class"}, {},
        << Set(<<"online_class", "id">>), Sweep(<<"online_class", "list">>) >>)
update_online_class ==
  Route("online_class", {}, {"online_class"},
        << Set(<<"online_class", "id">>), Sweep(<<"online_class", "list">>) >>)
delete_online_class ==
  Route("online_class", {}, {"online_class"},
        << Del(<<"online_class", "id">>), Sweep(<<"online_class", "list">>) >>)

-----------------------------------------------------------------------------
ExamViews ==
  { list_grades, get_grade, list_exams, get_exam, list_exam_timetables,
    list_marks, list_offline_marks, list_online_marks,
    list_online_exams, list_online_classes }

ExamWrites ==
  { create_grade, create_grades_bulk, delete_grade,
    create_exam, update_exam, delete_exam,
    create_exam_timetable, update_exam_timetable, delete_exam_timetable,
    create_marks,
    create_online_exam, update_online_exam, delete_online_exam,
    create_online_class, update_online_class, delete_online_class }

ExamForgotten == {create_marks} \X {list_offline_marks, list_online_marks}
=============================================================================
