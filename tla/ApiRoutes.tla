------------------------------ MODULE ApiRoutes ------------------------------
(***************************************************************************)
(* The route tables of the whole API together.                             *)
(***************************************************************************)
EXTENDS Sequences, SchoolRoutes, PeopleRoutes, NoticeRoutes, TransportRoutes,
        ExamRoutes, AppRoutes

AllViews == SchoolViews \cup PeopleViews \cup NoticeViews \cup TransportViews \cup ExamViews
AllRoutes ==
  SchoolWrites \cup PeopleWrites \cup NoticeWrites \cup TransportWrites
  \cup ExamWrites \cup AppWrites
AllForgotten == PeopleForgotten \cup ExamForgotten

(* The keys that leave out a filter of their query: the school of a list   *)
(* of groups, and the day of the dashboard, whose exams and notices are    *)
(* those of the month.                                                     *)
AllCollapsed == {list_school_groups, get_dashboard}

(* Filters of any wording.  (The status of a leave is one of three words:  *)
(* leave_status.)                                                          *)
AllTexts == {"search", "status", "session_yr"}

(* No two views have a key in common: the two lists called timetable:list  *)
(* render five fields and eight.  (With colons in it the search of the one *)
(* could pass for fields of the other.)                                    *)
ASSUME KeysApart ==
  \A v, w \in AllViews : v # w => v.key # w.key \/ Len(v.fields) # Len(w.fields)
=============================================================================
