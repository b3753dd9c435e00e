---------------------------- MODULE NoticeRoutes ----------------------------
(***************************************************************************)
(* The cached answers and the writes of holiday.py, notification.py,       *)
(* announcement.py, student_diary.py and dashboard.py.  Four resources     *)
(* treat their entries alike: a create or an update stores the row under   *)
(* <name>:<id> and sweeps <name>:list, a delete removes both.              *)
(***************************************************************************)
EXTENDS CachedRoutes

AfterSave(name) == << Set(<<name, "id">>), Sweep(<<name, "list">>) >>
AfterDelete(name) == << Del(<<name, "id">>), Sweep(<<name, "list">>) >>

-----------------------------------------------------------------------------
(* holiday.py *)
list_holidays ==
  List("holiday", <<"holiday", "list">>,
       <<"page", "limit", "search", "year", "month">>,
       Pages \cup {"search", "year", "month"}, {"holiday"}, {})
get_holiday == Item("holiday", <<"holiday", "id">>, {"holiday"})

create_holiday == Route("holiday", {"holiday"}, {}, AfterSave("holiday"))
(* mutant: the lists are left as they are *)
update_holiday_unswept == Route("holiday", {}, {"holiday"}, << Set(<<"holiday", "id">>) >>)
update_holiday == Route("holiday", {}, {"holiday"}, AfterSave("holiday"))
delete_holiday == Route("holiday", {}, {"holiday"}, AfterDelete("holiday"))

-----------------------------------------------------------------------------
(* notification.py *)
list_notifications ==
  List("notification", <<"notification", "list">>,
       <<"page", "limit", "search", "role_id">>,
       Pages \cup {"search", "role_id"}, {"notification"}, {"role"})
get_notification == Item("notification", <<"notification", "id">>, {"notification", "role"})

create_notification == Route("notification", {"notification"}, {}, AfterSave("notification"))
update_notification == Route("notification", {}, {"notification"}, AfterSave("notification"))
delete_notification == Route("notification", {}, {"notification"}, AfterDelete("notification"))

-----------------------------------------------------------------------------
(* announcement.py *)
list_announcements ==
  List("announcement", <<"announcement", "list">>,
       <<"page", "limit", "search", "class_id", "section_id",
         "school_group_id">>,
       Pages \cup {"search", "class_id", "section_id", "school_group_id"},
       {"announcement"}, {"class", "section"})
get_announcement ==
  Item("announcement", <<"announcement", "id">>, {"announcement", "class", "section"})

create_announcement == Route("announcement", {"announcement"}, {}, AfterSave("announcement"))
update_announcement == Route("announcement", {}, {"announcement"}, AfterSave("announcement"))
delete_announcement == Route("announcement", {}, {"announcement"}, AfterDelete("announcement"))

-----------------------------------------------------------------------------
(* student_diary.py *)
list_diaries ==
  List("student_diary", <<"student_diary", "list">>,
       <<"page", "limit", "search", "student_id", "class_id",
         "section_id", "subject_id", "dairy_date", "status">>,
       Pages \cup {"search", "student_id", "class_id", "section_id",
                   "subject_id", "dairy_date", "status"},
       {"diary"}, {"student", "class", "section", "subject"})
get_diary ==
  Item("student_diary", <<"student_diary", "id">>,
       {"diary", "student", "class", "section", "subject"})

create_diary == Route("student_diary", {"diary"}, {}, AfterSave("student_diary"))
update_diary == Route("student_diary", {}, {"diary"}, AfterSave("student_diary"))
delete_diary == Route("student_diary", {}, {"diary"}, AfterDelete("student_diary"))

-----------------------------------------------------------------------------
(* dashboard.py: counts over the tables of six other modules, kept for 300 *)
(* seconds and removed by nobody.  The exams and notices it counts are     *)
(* those of the month today is in; the key does not say of which.          *)
get_dashboard ==
  List("dashboard", <<"dashboard", "overview">>,
       <<"session_yr">>,
       {"session_yr", "today"},
       {"student", "employee", "class", "vehicle", "exam", "notification"}, {})
get_today_birthdays ==
  List("dashboard", <<"dashboard", "birthdays">>,
       <<"today">>,
       {"today"}, {"student", "mapping"}, {"class"})

-----------------------------------------------------------------------------
NoticeViews ==
  { list_holidays, get_holiday, list_notifications, get_notification,
    list_announcements, get_announcement, list_diaries, get_diary,
    get_dashboard, get_today_birthdays }

NoticeWrites ==
  { create_holiday, update_holiday, delete_holiday,
    create_notification, update_notification, delete_notification,
    create_announcement, update_announcement, delete_announcement,
    create_diary, update_diary, delete_diary }
=============================================================================
