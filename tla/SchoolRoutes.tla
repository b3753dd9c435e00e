---------------------------- MODULE SchoolRoutes ----------------------------
(***************************************************************************)
(* The cached answers and the writes of school_group.py,                   *)
(* school_stream_class.py, school_stream_class_section.py,                 *)
(* school_stream_subject.py, timetable.py and class_teacher.py.            *)
(***************************************************************************)
EXTENDS CachedRoutes

-----------------------------------------------------------------------------
(* school_group.py.  The key of the list leaves school_id out.             *)
list_school_groups ==
  List("school_group", <<"school_groups", "list">>,
       <<"page", "limit", "search">>,
       Pages \cup {"search", "school_id"}, {"group"}, {})
get_school_group == Item("school_group", <<"school_group", "id">>, {"group"})
dropdown_school_groups ==
  List("school_group", <<"dropdown", "school_groups">>,
       <<"school_id", "search">>,
       {"school_id", "search"}, {"group"}, {})

create_school_group ==
  Route("school_group", {"group"}, {},
        << Sweep(<<"school_groups">>), Sweep(<<"dropdown", "school_groups">>) >>)
update_school_group ==
  Route("school_group", {}, {"group"},
        << Set(<<"school_group", "id">>), Sweep(<<"school_groups">>),
           Sweep(<<"dropdown", "school_groups">>) >>)
(* Raises NameError (SchoolStream is not imported) before its commit: it   *)
(* writes nothing and never reaches its invalidations.                     *)
delete_school_group == Route("school_group", {}, {}, << >>)

-----------------------------------------------------------------------------
(* school_stream_class.py *)
list_classes ==
  List("class", <<"school_stream_class", "list">>,
       <<"page", "limit", "search", "school_group_id">>,
       Pages \cup {"search", "school_group_id"}, {"class"}, {"group"})
get_class == Item("class", <<"school_stream_class", "id">>, {"class", "group"})
dropdown_classes ==
  List("class", <<"dropdown", "classes">>,
       <<"school_group_id", "search">>,
       {"school_group_id", "search"}, {"class"}, {})

create_class ==
  Route("class", {"class"}, {},
        << Sweep(<<"school_stream_class", "list">>),
           Sweep(<<"dropdown", "classes">>) >>)
update_class ==
  Route("class", {}, {"class"},
        << Set(<<"school_stream_class", "id">>),
           Sweep(<<"school_stream_class", "list">>),
           Sweep(<<"dropdown", "classes">>) >>)
delete_class ==
  Route("class", {}, {"class", "section", "subject"},
        << Del(<<"school_stream_class", "id">>),
           Sweep(<<"school_stream_class", "list">>),
           Sweep(<<"dropdown", "classes">>),
           Sweep(<<"school_stream_section">>),
           Sweep(<<"dropdown", "sections">>),
           Sweep(<<"school_stream_subject">>),
           Sweep(<<"dropdown", "subjects">>),
           Sweep(<<"dropdown">>) >>)

-----------------------------------------------------------------------------
(* school_stream_class_section.py *)
list_sections ==
  List("section", <<"school_stream_section", "list">>,
       <<"page", "limit", "search", "class_id">>,
       Pages \cup {"search", "class_id"}, {"section"}, {"class"})
get_section == Item("section", <<"school_stream_section", "id">>, {"section", "class"})
dropdown_sections ==
  List("section", <<"dropdown", "sections">>,
       <<"class_id", "search">>,
       {"class_id", "search"}, {"section"}, {})

create_section ==
  Route("section", {"section"}, {},
        << Sweep(<<"school_stream_section", "list">>),
           Sweep(<<"dropdown", "sections">>) >>)
update_section ==
  Route("section", {}, {"section"},
        << Set(<<"school_stream_section", "id">>),
           Sweep(<<"school_stream_section", "list">>),
           Sweep(<<"dropdown", "sections">>) >>)
delete_section ==
  Route("section", {}, {"section"},
        << Del(<<"school_stream_section", "id">>),
           Sweep(<<"school_stream_section", "list">>),
           Sweep(<<"dropdown", "sections">>) >>)

-----------------------------------------------------------------------------
(* school_stream_subject.py *)
list_subjects ==
  List("subject", <<"school_stream_subject", "list">>,
       <<"page", "limit", "search", "class_id">>,
       Pages \cup {"search", "class_id"}, {"subject"}, {"class"})
get_subject == Item("subject", <<"school_stream_subject", "id">>, {"subject", "class"})
dropdown_subjects ==
  List("subject", <<"dropdown", "subjects">>,
       <<"class_id", "search">>,
       {"class_id", "search"}, {"subject"}, {})

create_subject ==
  Route("subject", {"subject"}, {},
        << Sweep(<<"school_stream_subject", "list">>),
           Sweep(<<"dropdown", "subjects">>) >>)
update_subject ==
  Route("subject", {}, {"subject"},
        << Set(<<"school_stream_subject", "id">>),
           Sweep(<<"school_stream_subject", "list">>),
           Sweep(<<"dropdown", "subjects">>) >>)
delete_subject ==
  Route("subject", {}, {"subject"},
        << Del(<<"school_stream_subject", "id">>),
           Sweep(<<"school_stream_subject", "list">>),
           Sweep(<<"dropdown", "subjects">>) >>)

-----------------------------------------------------------------------------
(* timetable.py *)
get_timetable ==
  Item("timetable", <<"timetable", "id">>, {"timetable", "class", "section", "subject"})
list_timetables ==
  List("timetable", <<"timetable", "list">>,
       <<"school_id", "class_id", "section_id", "school_group_id",
         "subject_id", "search", "page", "limit">>,
       Pages \cup {"school_id", "class_id", "section_id", "school_group_id",
                   "subject_id", "search"},
       {"timetable"}, {"class", "section", "subject"})

create_timetable ==
  Route("timetable", {"timetable"}, {}, << Sweep(<<"timetable", "list">>) >>)
update_timetable ==
  Route("timetable", {}, {"timetable"},
        << Del(<<"timetable", "id">>), Sweep(<<"timetable", "list">>) >>)
delete_timetable ==
  Route("timetable", {}, {"timetable"},
        << Del(<<"timetable", "id">>), Sweep(<<"timetable", "list">>) >>)

-----------------------------------------------------------------------------
(* class_teacher.py: the rows of emp_class_mapping, which employee.py      *)
(* writes as well.                                                         *)
list_class_section_teachers ==
  List("class_teacher", <<"class_teacher", "list">>,
       <<"class_id", "section_id", "school_group_id", "search", "page",
         "limit">>,
       Pages \cup {"class_id", "section_id", "school_group_id", "search"},
       {"emp_class_mapping"}, {"employee", "class", "section", "group", "subject"})

create_class_teacher ==
  Route("class_teacher", {"emp_class_mapping"}, {},
        << Sweep(<<"class_teacher", "list">>) >>)
create_subject_teacher ==
  Route("class_teacher", {"emp_class_mapping"}, {},
        << Sweep(<<"class_teacher", "list">>) >>)
update_class_teacher ==
  Route("class_teacher", {}, {"emp_class_mapping"},
        << Sweep(<<"class_teacher", "list">>) >>)
delete_class_teacher ==
  Route("class_teacher", {}, {"emp_class_mapping"},
        << Sweep(<<"class_teacher", "list">>) >>)

-----------------------------------------------------------------------------
SchoolViews ==
  { list_school_groups, get_school_group, dropdown_school_groups,
    list_classes, get_class, dropdown_classes,
    list_sections, get_section, dropdown_sections,
    list_subjects, get_subject, dropdown_subjects,
    get_timetable, list_timetables, list_class_section_teachers }

SchoolWrites ==
  { create_school_group, update_school_group, delete_school_group,
    create_class, update_class, delete_class,
    create_section, update_section, delete_section,
    create_subject, update_subject, delete_subject,
    create_timetable, update_timetable, delete_timetable,
    create_class_teacher, create_subject_teacher,
    update_class_teacher, delete_class_teacher }
=============================================================================
