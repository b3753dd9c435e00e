-------------------------- MODULE TransportRoutes ---------------------------
(***************************************************************************)
(* The cached answers and the writes of transport.py: vehicles, routes,    *)
(* the routes of vehicles, the students on a vehicle, and expenses.  Each  *)
(* has an entry per row, lists, and a dropdown; a create or an update      *)
(* stores the row's entry and sweeps both kinds of list, a delete removes  *)
(* all three.  Deletes are hard: names shown by other answers go with them.*)
(***************************************************************************)
EXTENDS CachedRoutes

AfterSaveOf(name, dropdown) ==
  << Set(<<name, "id">>), Sweep(<<name, "list">>), Sweep(<<"dropdown", dropdown>>) >>
AfterDeleteOf(name, dropdown) ==
  << Del(<<name, "id">>), Sweep(<<name, "list">>), Sweep(<<"dropdown", dropdown>>) >>

-----------------------------------------------------------------------------
(* Vehicles *)
dropdown_vehicles ==
  List("vehicle_details", <<"dropdown", "vehicles">>,
       <<"search">>,
       {"search"}, {"vehicle"}, {})
list_vehicles ==
  List("vehicle_details", <<"vehicle_details", "list">>,
       <<"page", "limit", "search", "status">>,
       Pages \cup {"search", "status"}, {"vehicle"}, {})
get_vehicle == Item("vehicle_details", <<"vehicle_details", "id">>, {"vehicle"})

AfterVehicle == AfterSaveOf("vehicle_details", "vehicles")
create_vehicle == Route("vehicle_details", {"vehicle"}, {}, AfterVehicle)
update_vehicle == Route("vehicle_details", {}, {"vehicle"}, AfterVehicle)
delete_vehicle ==
  Route("vehicle_details", {}, {"vehicle"}, AfterDeleteOf("vehicle_details", "vehicles"))

-----------------------------------------------------------------------------
(* Routes *)
dropdown_routes ==
  List("routes", <<"dropdown", "routes">>,
       <<"search">>,
       {"search"}, {"route"}, {})
list_routes ==
  List("routes", <<"routes", "list">>,
       <<"page", "limit", "search", "status">>,
       Pages \cup {"search", "status"}, {"route"}, {})
get_route == Item("routes", <<"routes", "id">>, {"route"})

AfterRoute == AfterSaveOf("routes", "routes")
create_route == Route("routes", {"route"}, {}, AfterRoute)
update_route == Route("routes", {}, {"route"}, AfterRoute)
delete_route == Route("routes", {}, {"route"}, AfterDeleteOf("routes", "routes"))

-----------------------------------------------------------------------------
(* The routes of vehicles *)
dropdown_vehicle_route_maps ==
  List("vehicle_routes_map", <<"dropdown", "vehicle_route_map">>,
       <<"route_id", "vehicle_id">>,
       {"route_id", "vehicle_id"}, {"vehicle_route"}, {"route", "vehicle"})
list_vehicle_route_maps ==
  List("vehicle_routes_map", <<"vehicle_routes_map", "list">>,
       <<"page", "limit", "route_id", "vehicle_id">>,
       Pages \cup {"route_id", "vehicle_id"},
       {"vehicle_route"}, {"route", "vehicle"})
get_vehicle_route_map ==
  Item("vehicle_routes_map", <<"vehicle_routes_map", "id">>, {"vehicle_route", "route", "vehicle"})

AfterRouteMap == AfterSaveOf("vehicle_routes_map", "vehicle_route_map")
create_vehicle_route_map == Route("vehicle_routes_map", {"vehicle_route"}, {}, AfterRouteMap)
update_vehicle_route_map == Route("vehicle_routes_map", {}, {"vehicle_route"}, AfterRouteMap)
delete_vehicle_route_map ==
  Route("vehicle_routes_map", {}, {"vehicle_route"},
        AfterDeleteOf("vehicle_routes_map", "vehicle_route_map"))

-----------------------------------------------------------------------------
(* The students on a vehicle *)
dropdown_transportation_students ==
  List("transportation_student", <<"dropdown", "transportation_student">>,
       <<"vehicle_id", "class_id", "section_id", "session_yr">>,
       {"vehicle_id", "class_id", "section_id", "session_yr"},
       {"transport_student"}, {"student", "vehicle"})
list_transportation_students ==
  List("transportation_student", <<"transportation_student", "list">>,
       <<"page", "limit", "vehicle_id", "class_id", "section_id",
         "student_id", "group_id", "session_yr">>,
       Pages \cup {"vehicle_id", "class_id", "section_id", "student_id",
                   "group_id", "session_yr"},
       {"transport_student"}, {"vehicle", "class", "section", "student", "group"})
get_transportation_student ==
  Item("transportation_student", <<"transportation_student", "id">>,
       {"transport_student", "vehicle", "class", "section", "student", "group"})

AfterTransport == AfterSaveOf("transportation_student", "transportation_student")
create_transportation_student ==
  Route("transportation_student", {"transport_student"}, {}, AfterTransport)
update_transportation_student ==
  Route("transportation_student", {}, {"transport_student"}, AfterTransport)
delete_transportation_student ==
  Route("transportation_student", {}, {"transport_student"},
        AfterDeleteOf("transportation_student", "transportation_student"))

-----------------------------------------------------------------------------
(* Expenses *)
dropdown_vehicle_expenses ==
  List("vehicle_expenses", <<"dropdown", "vehicle_expenses">>,
       <<"vehicle_id", "session_yr">>,
       {"vehicle_id", "session_yr"}, {"expense"}, {"vehicle"})
list_vehicle_expenses ==
  List("vehicle_expenses", <<"vehicle_expenses", "list">>,
       <<"page", "limit", "vehicle_id", "session_yr">>,
       Pages \cup {"vehicle_id", "session_yr"}, {"expense"}, {"vehicle"})
get_vehicle_expense ==
  Item("vehicle_expenses", <<"vehicle_expenses", "id">>, {"expense", "vehicle"})

AfterExpense == AfterSaveOf("vehicle_expenses", "vehicle_expenses")
create_vehicle_expense == Route("vehicle_expenses", {"expense"}, {}, AfterExpense)
update_vehicle_expense == Route("vehicle_expenses", {}, {"expense"}, AfterExpense)
delete_vehicle_expense ==
  Route("vehicle_expenses", {}, {"expense"},
        AfterDeleteOf("vehicle_expenses", "vehicle_expenses"))

-----------------------------------------------------------------------------
TransportViews ==
  { dropdown_vehicles, list_vehicles, get_vehicle,
    dropdown_routes, list_routes, get_route,
    dropdown_vehicle_route_maps, list_vehicle_route_maps, get_vehicle_route_map,
    dropdown_transportation_students, list_transportation_students,
    get_transportation_student,
    dropdown_vehicle_expenses, list_vehicle_expenses, get_vehicle_expense }

TransportWrites ==
  { create_vehicle, update_vehicle, delete_vehicle,
    create_route, update_route, delete_route,
    create_vehicle_route_map, update_vehicle_route_map, delete_vehicle_route_map,
    create_transportation_student, update_transportation_student,
    delete_transportation_student,
    create_vehicle_expense, update_vehicle_expense, delete_vehicle_expense }
=============================================================================
