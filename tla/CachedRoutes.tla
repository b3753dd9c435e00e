---------------------------- MODULE CachedRoutes ----------------------------
(***************************************************************************)
(* How the route tables describe the endpoints of src/school_app/api.      *)
(*                                                                         *)
(* A GET handler that caches its answer is a view: the Redis key it uses   *)
(* (a sequence of segments, where "id" stands for the id in the path), the *)
(* fields the f-string of a list then renders into the key, in its order,  *)
(* the filters its query uses, which are a matter of their own, and the    *)
(* tables it reads.  rows are the tables whose rows it lists or counts, so *)
(* that a new row changes the answer; labels are the tables it only looks  *)
(* names or statuses up in, where an insert changes nothing already shown. *)
(* Tables are the unit: an update of a table may change every answer that  *)
(* reads it.                                                               *)
(*                                                                         *)
(* A handler that writes is a route: the tables it inserts into, the ones  *)
(* it updates or deletes from, and what it does to Redis once its commit   *)
(* has returned, in the order of the code.                                 *)
(***************************************************************************)

List(resource, key, fields, filters, rows, labels) ==
  [resource |-> resource, key |-> key, fields |-> fields, filters |-> filters,
   rows |-> rows, labels |-> labels]

Item(resource, key, labels) ==
  [resource |-> resource, key |-> key, fields |-> <<"id">>, filters |-> {"id"},
   rows |-> {}, labels |-> labels]

Route(resource, inserts, updates, ops) ==
  [resource |-> resource, inserts |-> inserts, updates |-> updates, ops |-> ops]

(* cache.set with the answer read again after the commit. *)
Set(key) == [op |-> "set", key |-> key]
(* cache.delete *)
Del(key) == [op |-> "del", key |-> key]
(* cache.delete_pattern(prefix + ":*") *)
Sweep(prefix) == [op |-> "sweep", key |-> prefix]

Pages == {"page", "limit"}
=============================================================================
