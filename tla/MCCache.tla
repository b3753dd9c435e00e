------------------------------- MODULE MCCache -------------------------------
(***************************************************************************)
(* CacheAside over the route tables of the whole API.  Two requests: every *)
(* reason for an outdated entry takes one reader or writer that holds data *)
(* and one writer that commits, or a single writer.                        *)
(***************************************************************************)
EXTENDS CacheAside, ApiRoutes
=============================================================================
