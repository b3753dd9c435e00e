---------------------------- MODULE PeopleRoutes ----------------------------
(***************************************************************************)
(* The cached answers and the writes of employee.py, student.py,           *)
(* attendance.py and emp_leave_request.py.                                 *)
(***************************************************************************)
EXTENDS CachedRoutes

-----------------------------------------------------------------------------
(* employee.py: roles *)
list_roles ==
  List("role", <<"roles", "list">>,
       <<"page", "limit", "search", "is_active">>,
       Pages \cup {"search", "is_active"}, {"role"}, {})
get_role == Item("role", <<"role", "id">>, {"role"})
dropdown_roles ==
  List("role", <<"roles", "dropdown">>,
       <<"search">>,
       {"search"}, {"role"}, {})

create_role ==
  Route("role", {"role"}, {},
        << Sweep(<<"roles", "list">>), Sweep(<<"roles", "dropdown">>) >>)
(* The entry role:<id> is left as it is. *)
update_role ==
  Route("role", {}, {"role"},
        << Sweep(<<"roles", "list">>), Sweep(<<"roles", "dropdown">>) >>)

-----------------------------------------------------------------------------
(* employee.py: employees *)
get_employee == Item("employee", <<"employee", "id">>, {"employee", "role"})
list_employees ==
  List("employee", <<"employee", "list">>,
       <<"page", "limit", "search", "role_id", "school_group_id">>,
       Pages \cup {"search", "role_id", "school_group_id"},
       {"employee", "emp_class_mapping"}, {"role", "class"})
dropdown_employees ==
  List("employee", <<"employee", "dropdown">>,
       <<"role_id", "search">>,
       {"role_id", "search"}, {"employee"}, {})

create_employee ==
  Route("employee", {"employee"}, {},
        << Sweep(<<"employee", "list">>), Sweep(<<"employee", "dropdown">>) >>)
update_employee ==
  Route("employee", {}, {"employee"},
        << Del(<<"employee", "id">>), Sweep(<<"employee", "list">>),
           Sweep(<<"employee", "dropdown">>) >>)
delete_employee ==
  Route("employee", {}, {"employee"},
        << Del(<<"employee", "id">>), Sweep(<<"employee", "list">>),
           Sweep(<<"employee", "dropdown">>) >>)
(* Updates the employees it finds and leaves their entries employee:<id>.  *)
bulk_upload_employees ==
  Route("employee", {"employee"}, {"employee"},
        << Sweep(<<"employee", "list">>), Sweep(<<"employee", "dropdown">>) >>)

-----------------------------------------------------------------------------
(* employee.py: the rows of emp_class_mapping *)
list_mappings ==
  List("emp_mapping", <<"emp_mapping", "list">>,
       <<"page", "limit", "emp_id", "class_id", "subject_id">>,
       Pages \cup {"emp_id", "class_id", "subject_id"},
       {"emp_class_mapping"}, {"employee", "class", "subject"})

(* section_id is NOT NULL and not in the body: the INSERT always fails. *)
create_mapping == Route("emp_mapping", {}, {}, << >>)
update_mapping ==
  Route("emp_mapping", {}, {"emp_class_mapping"}, << Sweep(<<"emp_mapping", "list">>) >>)
delete_mapping ==
  Route("emp_mapping", {}, {"emp_class_mapping"}, << Sweep(<<"emp_mapping", "list">>) >>)

-----------------------------------------------------------------------------
(* student.py: inquiries *)
list_inquiries ==
  List("inquiry", <<"inquiry", "list">>,
       <<"page", "limit", "search">>,
       Pages \cup {"search"}, {"inquiry"}, {})
get_inquiry == Item("inquiry", <<"inquiry", "id">>, {"inquiry"})

create_inquiry == Route("inquiry", {"inquiry"}, {}, << Sweep(<<"inquiry", "list">>) >>)
update_inquiry ==
  Route("inquiry", {}, {"inquiry"},
        << Del(<<"inquiry", "id">>), Sweep(<<"inquiry", "list">>) >>)
delete_inquiry ==
  Route("inquiry", {}, {"inquiry"},
        << Del(<<"inquiry", "id">>), Sweep(<<"inquiry", "list">>) >>)

-----------------------------------------------------------------------------
(* student.py: students.  An insert into student brings the student's      *)
(* first mapping with it; a write to mapping is one to the stays of a      *)
(* student who is there already.                                           *)
get_student ==
  Item("student", <<"student", "id">>, {"student", "mapping", "class", "section", "group"})
list_students ==
  List("student", <<"student", "list">>,
       <<"school_id", "class_id", "section_id", "page", "limit",
         "search">>,
       Pages \cup {"school_id", "class_id", "section_id", "search"},
       {"student", "mapping"}, {"class", "section", "group"})
(* mutant: the key leaves section_id out *)
dropdown_students_unkeyed ==
  List("student", <<"student", "dropdown">>,
       <<"school_id", "class_id", "search">>,
       {"school_id", "class_id", "section_id", "search"},
       {"student", "mapping"}, {})
dropdown_students ==
  List("student", <<"student", "dropdown">>,
       <<"school_id", "class_id", "section_id", "search">>,
       {"school_id", "class_id", "section_id", "search"},
       {"student", "mapping"}, {})
get_guardian_list_by_class ==
  List("student", <<"guardian", "list">>,
       <<"class_id", "section_id", "page", "limit", "search">>,
       Pages \cup {"class_id", "section_id", "search"},
       {"student", "mapping"}, {})

(* Neither the bulk upload nor create_student sweeps student:dropdown. *)
create_student == Route("student", {"student"}, {}, << Sweep(<<"student", "list">>) >>)
bulk_upload_students == Route("student", {"student"}, {}, << Sweep(<<"student", "list">>) >>)
update_student ==
  Route("student", {}, {"student", "mapping"},
        << Del(<<"student", "id">>), Sweep(<<"student", "list">>),
           Sweep(<<"student", "dropdown">>) >>)
update_student_mapping ==
  Route("student", {}, {"mapping"},
        << Del(<<"student", "id">>), Sweep(<<"student", "list">>),
           Sweep(<<"student", "dropdown">>) >>)
(* A transfer closes one mapping and adds another, and leaves the dropdown. *)
transfer_student ==
  Route("student", {}, {"mapping"},
        << Del(<<"student", "id">>), Sweep(<<"student", "list">>) >>)
(* A promotion does so for many students, and leaves every student:<id>. *)
promote_students ==
  Route("student", {}, {"mapping"},
        << Sweep(<<"student", "list">>), Sweep(<<"student", "dropdown">>) >>)

StudentWrites ==
  { create_student, bulk_upload_students, update_student, update_student_mapping,
    transfer_student, promote_students }

-----------------------------------------------------------------------------
(* attendance.py.  The counters of today expire after 300 seconds; no      *)
(* write removes them.                                                     *)
list_employee_attendance ==
  List("emp_attendance", <<"emp_attendance", "list">>,
       <<"school_group_id", "emp_id", "attendance_dt", "status", "page",
         "limit">>,
       Pages \cup {"school_group_id", "emp_id", "attendance_dt", "status"},
       {"emp_attendance"}, {"employee"})
get_employee_attendance ==
  Item("emp_attendance", <<"emp_attendance", "id">>, {"emp_attendance", "employee"})
employee_attendance_count_today ==
  List("emp_attendance", <<"emp_attendance", "count">>,
       <<"today", "group_id">>,
       {"today", "group_id"}, {"emp_attendance"}, {})
list_student_attendance ==
  List("student_attendance", <<"student_attendance", "list">>,
       <<"school_group_id", "class_id", "section_id", "student_id",
         "attendance_dt", "status", "page", "limit">>,
       Pages \cup {"school_group_id", "class_id", "section_id",
                   "student_id", "attendance_dt", "status"},
       {"student_attendance"}, {"student"})
student_attendance_count_today ==
  List("student_attendance", <<"student_attendance", "count">>,
       <<"today", "group_id", "class_id", "section_id">>,
       {"today", "group_id", "class_id", "section_id"},
       {"student_attendance"}, {})

create_bulk_employee_attendance ==
  Route("emp_attendance", {"emp_attendance"}, {}, << Sweep(<<"emp_attendance", "list">>) >>)
update_employee_attendance ==
  Route("emp_attendance", {}, {"emp_attendance"},
        << Del(<<"emp_attendance", "id">>), Sweep(<<"emp_attendance", "list">>) >>)
delete_employee_attendance ==
  Route("emp_attendance", {}, {"emp_attendance"},
        << Del(<<"emp_attendance", "id">>), Sweep(<<"emp_attendance", "list">>) >>)
create_bulk_student_attendance ==
  Route("student_attendance", {"student_attendance"}, {},
        << Sweep(<<"student_attendance", "list">>) >>)
update_student_attendance ==
  Route("student_attendance", {}, {"student_attendance"},
        << Sweep(<<"student_attendance", "list">>) >>)
delete_student_attendance ==
  Route("student_attendance", {}, {"student_attendance"},
        << Del(<<"student_attendance", "id">>), Sweep(<<"student_attendance", "list">>) >>)

EmployeeAttendanceWrites ==
  { create_bulk_employee_attendance, update_employee_attendance,
    delete_employee_attendance }
StudentAttendanceWrites ==
  { create_bulk_student_attendance, update_student_attendance,
    delete_student_attendance }

-----------------------------------------------------------------------------
(* emp_leave_request.py *)
list_leave_requests ==
  List("emp_leave_request", <<"emp_leave_request", "list">>,
       <<"page", "limit", "search", "emp_id", "leave_status",
         "leave_type", "from_dt", "to_date">>,
       Pages \cup {"search", "emp_id", "leave_status", "leave_type",
                   "from_dt", "to_date"},
       {"leave"}, {"employee"})
get_leave_request ==
  Item("emp_leave_request", <<"emp_leave_request", "id">>, {"leave", "employee"})

(* What every write of leaves that keeps the row does afterwards. *)
LeaveSet ==
  << Set(<<"emp_leave_request", "id">>), Sweep(<<"emp_leave_request", "list">>) >>

create_leave_request == Route("emp_leave_request", {"leave"}, {}, LeaveSet)
update_leave_request == Route("emp_leave_request", {}, {"leave"}, LeaveSet)
approve_leave_request == Route("emp_leave_request", {}, {"leave"}, LeaveSet)
reject_leave_request == Route("emp_leave_request", {}, {"leave"}, LeaveSet)
delete_leave_request ==
  Route("emp_leave_request", {}, {"leave"},
        << Del(<<"emp_leave_request", "id">>), Sweep(<<"emp_leave_request", "list">>) >>)

-----------------------------------------------------------------------------
PeopleViews ==
  { list_roles, get_role, dropdown_roles,
    get_employee, list_employees, dropdown_employees, list_mappings,
    list_inquiries, get_inquiry,
    get_student, list_students, dropdown_students, get_guardian_list_by_class,
    list_employee_attendance, get_employee_attendance,
    employee_attendance_count_today,
    list_student_attendance, student_attendance_count_today,
    list_leave_requests, get_leave_request }

PeopleWrites ==
  { create_role, update_role,
    create_employee, update_employee, delete_employee, bulk_upload_employees,
    create_mapping, update_mapping, delete_mapping,
    create_inquiry, update_inquiry, delete_inquiry,
    create_leave_request, update_leave_request, approve_leave_request,
    reject_leave_request, delete_leave_request }
  \cup StudentWrites \cup EmployeeAttendanceWrites \cup StudentAttendanceWrites

(* What these handlers change and do not invalidate among the answers of   *)
(* their own resource.                                                     *)
PeopleForgotten ==
  { <<update_role, get_role>>, <<bulk_upload_employees, get_employee>>,
    <<create_student, dropdown_students>>, <<bulk_upload_students, dropdown_students>>,
    <<transfer_student, dropdown_students>>, <<promote_students, get_student>> }
  \cup (StudentWrites \X {get_guardian_list_by_class})
  \cup (EmployeeAttendanceWrites \X {employee_attendance_count_today})
  \cup (StudentAttendanceWrites \X {student_attendance_count_today})
=============================================================================
