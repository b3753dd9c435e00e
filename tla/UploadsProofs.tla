---------------------------- MODULE UploadsProofs ----------------------------
(***************************************************************************)
(* Theorems about Uploads, for any number of files, rows and requests.     *)
(***************************************************************************)
EXTENDS Uploads, TLAPS

-----------------------------------------------------------------------------
(* The inductive invariant.                                                *)

(* What a request carries at each of its steps. *)
Shape(q) ==
  /\ q \in Pending
  /\ q.does \in {"replace", "delete"} => q.row \in Ids
  /\ q.does \in {"create", "submit"} => q.old = None /\ q.pc # "remove"
  /\ q.does = "create" => q.row = None
  /\ q.pc = "remove" => q.new = {}
  /\ q.does = "replace" /\ q.pc = "save" => q.new = {}
  /\ q.does = "replace" /\ q.pc = "commit" => \E f \in Files : q.new = {f}
  /\ q.does = "delete" => q.new = {}
  /\ q.does = "submit" => q.new = {} \/ \E f \in Files : q.new = {f}

(* Its new files are on the disk and nobody links to them; no row but its  *)
(* own links to the old one, unless somebody has typed it in.              *)
Apartness(q, l, t) ==
  /\ \A i \in Ids : l[i] \notin q.new
  /\ q.old \in Files => \A i \in Ids : l[i] = q.old => i = q.row \/ q.old \in t

(* The old file is away once it has removed it.  Until then the row links  *)
(* to it, or whoever changed the row has left it behind.                   *)
Upheld(q, l, d, left) ==
  /\ q.new \subseteq d
  /\ q.old \in Files /\ q.pc # "remove" => q.old \notin d
  /\ q.old \in d => l[q.row] = q.old \/ q.old \in left
  /\ q.does \in {"replace", "delete"} /\ ~q.late => l[q.row] = q.old

Linked(l) ==
  /\ l \in [Ids -> Files \cup {None, Gone}]
  /\ \A i, j \in Ids : l[i] \in Files /\ l[i] = l[j] => i = j \/ l[i] \in typed

Drawn ==
  /\ disk \subseteq drawn
  /\ drawn \subseteq Files
  /\ broken \subseteq drawn \ disk
  /\ excused \subseteq drawn
  /\ typed \subseteq drawn
  /\ \A i \in Ids : link[i] \in Files => link[i] \in drawn

Foreign(reqsNow) ==
  \A r, s \in Reqs : reqsNow[r] # None /\ reqsNow[s] # None =>
    /\ reqsNow[s].old \notin reqsNow[r].new
    /\ r # s => reqsNow[s].new \cap reqsNow[r].new = {}

Core ==
  /\ kind \in Kinds
  /\ DOMAIN reqs = Reqs
  /\ Linked(link)
  /\ Drawn
  /\ Foreign(reqs)
  /\ \A r \in Reqs : reqs[r] # None =>
       /\ Shape(reqs[r])
       /\ Apartness(reqs[r], link, typed)
       /\ Upheld(reqs[r], link, disk, excused)
       /\ reqs[r].old \in Files => reqs[r].old \in drawn

Inv == Core /\ LinksServed /\ NoLitter
-----------------------------------------------------------------------------
(* Requests.                                                               *)

(* Nothing but whether the row has changed since. *)
Same(p, q) ==
  /\ p.does = q.does
  /\ p.pc = q.pc
  /\ p.row = q.row
  /\ p.old = q.old
  /\ p.new = q.new

LEMMA SameShape ==
  ASSUME NEW p \in Pending, NEW q, Shape(q), Same(p, q)
  PROVE  Shape(p)
  BY DEF Shape, Same

LEMMA LateSame ==
  ASSUME NEW q \in Pending, NEW b \in BOOLEAN
  PROVE  LET p == [q EXCEPT !.late = @ \/ b]
         IN  p \in Pending /\ Same(p, q) /\ (p.late <=> q.late \/ b)
  BY DEF Pending, Same

LEMMA RequestShape ==
  ASSUME NEW does \in {"create", "replace", "delete", "submit"},
         NEW pc \in {"save", "remove", "commit"},
         NEW row \in Ids \cup {None}, NEW old \in Files \cup {None}, NEW new \in SUBSET Files
  PROVE  LET q == Request(does, pc, row, old, new)
         IN  /\ q \in Pending
             /\ q.does = does /\ q.pc = pc /\ q.row = row /\ q.old = old /\ q.new = new
             /\ ~q.late
  BY DEF Request, Pending

-----------------------------------------------------------------------------
(* A new name: nobody links to it, holds it or has removed it. *)
LEMMA FreshName ==
  ASSUME Inv, NEW f \in Files, Save(f)
  PROVE  /\ f \notin drawn
         /\ f \notin disk
         /\ \A i \in Ids : link[i] # f
         /\ \A r \in Reqs : reqs[r] # None => reqs[r].old # f /\ f \notin reqs[r].new
  BY DEF Inv, Core, Drawn, Save, NewNames, Upheld, Linked

(* A request that writes a file and does nothing else. *)
LEMMA SaveStep ==
  ASSUME Inv, NEW r \in Reqs, NEW f \in Files, Save(f),
         NEW q \in Pending, Shape(q), reqs' = [reqs EXCEPT ![r] = q],
         UNCHANGED << kind, link, broken, excused, typed >>,
         q.pc # "remove",
         \/ /\ reqs[r] = None
            /\ q.new = {f}
            /\ q.old = None
            /\ q.does \in {"create", "submit"}
         \/ /\ reqs[r] # None
            /\ reqs[r].pc # "remove"
            /\ q.new = reqs[r].new \cup {f}
            /\ q.does = reqs[r].does /\ q.row = reqs[r].row /\ q.old = reqs[r].old
            /\ q.late = reqs[r].late
  PROVE  Inv'
  <1>0. /\ f \notin drawn
        /\ f \notin disk
        /\ \A i \in Ids : link[i] # f
        /\ \A s \in Reqs : reqs[s] # None => reqs[s].old # f /\ f \notin reqs[s].new
    BY FreshName
  <1>1. /\ disk' = disk \cup {f}
        /\ drawn' = drawn \cup {f}
    BY DEF Save
  <1>2. reqs'[r] = q /\ \A s \in Reqs \ {r} : reqs'[s] = reqs[s]
    BY DEF Inv, Core
  <1>3. q # None /\ None \notin Files /\ q.new \subseteq Files
    BY Apart DEF Pending
  <1>4. kind' \in Kinds /\ DOMAIN reqs' = Reqs /\ Linked(link)'
    BY DEF Inv, Core, Linked
  <1>5. Drawn'
    BY <1>0, <1>1 DEF Inv, Core, Drawn
  <1>6. Foreign(reqs')
    <2> SUFFICES ASSUME NEW a \in Reqs, NEW b \in Reqs, reqs'[a] # None, reqs'[b] # None
                 PROVE  /\ reqs'[b].old \notin reqs'[a].new
                        /\ a # b => reqs'[b].new \cap reqs'[a].new = {}
      BY DEF Foreign
    <2>1. Foreign(reqs)
      BY DEF Inv, Core
    <2>2. q.old # f
      BY <1>0, <1>3
    <2>3. CASE a # r /\ b # r
      BY <1>2, <2>1, <2>3 DEF Foreign
    <2>4. CASE a = r /\ b # r
      <3>1. reqs'[a] = q /\ reqs'[b] = reqs[b] /\ reqs[b] # None
        BY <1>2, <2>4
      <3>2. reqs[b].old # f /\ f \notin reqs[b].new
        BY <1>0, <3>1
      <3>3. CASE reqs[r] = None
        BY <2>4, <3>1, <3>2, <3>3
      <3>4. CASE reqs[r] # None
        <4>1. reqs[b].old \notin reqs[r].new /\ reqs[b].new \cap reqs[r].new = {}
          BY <2>1, <2>4, <3>1, <3>4 DEF Foreign
        <4> QED
          BY <2>4, <3>1, <3>2, <3>4, <4>1
      <3> QED
        BY <3>3, <3>4
    <2>5. CASE a # r /\ b = r
      <3>1. reqs'[b] = q /\ reqs'[a] = reqs[a] /\ reqs[a] # None
        BY <1>2, <2>5
      <3>2. reqs[a].new \subseteq Files /\ f \notin reqs[a].new
        BY <1>0, <3>1 DEF Inv, Core, Shape, Pending
      <3>3. CASE reqs[r] = None
        BY <1>3, <2>5, <3>1, <3>2, <3>3
      <3>4. CASE reqs[r] # None
        <4>1. reqs[r].old \notin reqs[a].new /\ reqs[r].new \cap reqs[a].new = {}
          BY <2>1, <2>5, <3>1, <3>4 DEF Foreign
        <4> QED
          BY <2>5, <3>1, <3>2, <3>4, <4>1
      <3> QED
        BY <3>3, <3>4
    <2>6. CASE a = r /\ b = r
      <3>1. reqs'[a] = q /\ reqs'[b] = q
        BY <1>2, <2>6
      <3>2. CASE reqs[r] = None
        BY <1>3, <2>6, <3>1, <3>2
      <3>3. CASE reqs[r] # None
        <4>1. reqs[r].old \notin reqs[r].new
          BY <2>1, <3>3 DEF Foreign
        <4> QED
          BY <2>2, <2>6, <3>1, <3>3, <4>1
      <3> QED
        BY <3>2, <3>3
    <2> QED
      BY <2>3, <2>4, <2>5, <2>6
  <1>7. ASSUME NEW s \in Reqs, reqs'[s] # None
        PROVE  /\ Shape(reqs'[s])
               /\ Apartness(reqs'[s], link', typed')
               /\ Upheld(reqs'[s], link', disk', excused')
               /\ reqs'[s].old \in Files => reqs'[s].old \in drawn'
    <2>1. CASE s = r /\ reqs[r] = None
      BY <1>0, <1>1, <1>2, <1>3, <2>1 DEF Apartness, Upheld, Inv, Core, Drawn
    <2>2. CASE s = r /\ reqs[r] # None
      <3>1. /\ Apartness(reqs[r], link, typed)
            /\ Upheld(reqs[r], link, disk, excused)
            /\ reqs[r].old \in Files => reqs[r].old \in drawn
            /\ disk \subseteq Files
        BY <2>2 DEF Inv, Core, Drawn
      <3> QED
        BY <1>0, <1>1, <1>2, <1>3, <2>2, <3>1 DEF Apartness, Upheld
    <2>3. CASE s # r
      <3>1. /\ reqs'[s] = reqs[s]
            /\ Shape(reqs[s])
            /\ Apartness(reqs[s], link, typed)
            /\ Upheld(reqs[s], link, disk, excused)
            /\ reqs[s].old \in Files => reqs[s].old \in drawn
            /\ reqs[s].old # f
        BY <1>0, <1>2, <1>7, <2>3 DEF Inv, Core
      <3> QED
        BY <1>1, <3>1 DEF Apartness, Upheld
    <2> QED
      BY <2>1, <2>2, <2>3
  <1>8. LinksServed'
    <2> SUFFICES ASSUME NEW i \in Ids, link[i] \in Files, link[i] \notin disk'
                 PROVE  \/ link[i] \in broken \cup typed
                        \/ \E s \in Reqs : /\ reqs'[s] # None
                                           /\ reqs'[s].old = link[i]
                                           /\ reqs'[s].pc # "remove"
      BY DEF LinksServed
    <2>1. \/ link[i] \in broken \cup typed
          \/ \E s \in Reqs : reqs[s] # None /\ reqs[s].old = link[i] /\ reqs[s].pc # "remove"
      BY <1>1 DEF Inv, LinksServed
    <2> QED
      BY <1>2, <1>3, <2>1
  <1>9. NoLitter'
    <2> SUFFICES ASSUME NEW g \in disk'
                 PROVE  \/ \E i \in Ids : link[i] = g
                        \/ \E s \in Reqs : reqs'[s] # None /\ g \in reqs'[s].new
                        \/ g \in excused
      BY DEF NoLitter
    <2>1. CASE g = f
      BY <1>2, <1>3, <2>1
    <2>2. CASE g \in disk
      <3>1. \/ \E i \in Ids : link[i] = g
            \/ \E s \in Reqs : reqs[s] # None /\ g \in reqs[s].new
            \/ g \in excused
        BY <2>2 DEF Inv, NoLitter
      <3> QED
        BY <1>2, <1>3, <3>1
    <2> QED
      BY <1>1, <2>1, <2>2
  <1> QED
    BY <1>4, <1>5, <1>6, <1>7, <1>8, <1>9 DEF Inv, Core

(* A request that reads a row, or has read one, and changes nothing. *)
LEMMA QuietStep ==
  ASSUME Inv, NEW r \in Reqs, NEW q \in Pending, Shape(q), reqs' = [reqs EXCEPT ![r] = q],
         UNCHANGED << kind, link, disk, drawn, broken, excused, typed >>,
         \/ reqs[r] = None /\ q.new = {}
         \/ reqs[r] # None /\ q.new = reqs[r].new /\ reqs[r].old = None,
         \/ q.old = None /\ q.does \in {"create", "submit"}
         \/ q.row \in Ids /\ q.old = link[q.row] /\ q.pc = "remove"
  PROVE  Inv'
  <1>1. reqs'[r] = q /\ \A s \in Reqs \ {r} : reqs'[s] = reqs[s]
    BY DEF Inv, Core
  <1>2. q # None /\ None \notin Files /\ q.new \subseteq Files
    BY Apart DEF Pending
  <1>3. kind' \in Kinds /\ DOMAIN reqs' = Reqs /\ Linked(link)' /\ Drawn'
    BY DEF Inv, Core, Linked, Drawn
  <1>4. \A s \in Reqs : reqs[s] # None => q.old \notin reqs[s].new
    <2> SUFFICES ASSUME NEW s \in Reqs, reqs[s] # None
                 PROVE  q.old \notin reqs[s].new
      OBVIOUS
    <2>1. Apartness(reqs[s], link, typed) /\ reqs[s].new \subseteq Files
      BY DEF Inv, Core, Shape, Pending
    <2> QED
      BY <1>2, <2>1 DEF Apartness
  <1>5. Foreign(reqs')
    <2> SUFFICES ASSUME NEW a \in Reqs, NEW b \in Reqs, reqs'[a] # None, reqs'[b] # None
                 PROVE  /\ reqs'[b].old \notin reqs'[a].new
                        /\ a # b => reqs'[b].new \cap reqs'[a].new = {}
      BY DEF Foreign
    <2>1. Foreign(reqs)
      BY DEF Inv, Core
    <2>2. CASE a # r /\ b # r
      BY <1>1, <2>1, <2>2 DEF Foreign
    <2>3. CASE a = r /\ b # r
      <3>1. reqs'[a] = q /\ reqs'[b] = reqs[b] /\ reqs[b] # None
        BY <1>1, <2>3
      <3>2. CASE reqs[r] = None
        BY <2>3, <3>1, <3>2
      <3>3. CASE reqs[r] # None
        <4>1. reqs[b].old \notin reqs[r].new /\ reqs[b].new \cap reqs[r].new = {}
          BY <2>1, <2>3, <3>1, <3>3 DEF Foreign
        <4> QED
          BY <2>3, <3>1, <3>3, <4>1
      <3> QED
        BY <3>2, <3>3
    <2>4. CASE a # r /\ b = r
      <3>1. reqs'[b] = q /\ reqs'[a] = reqs[a] /\ reqs[a] # None
        BY <1>1, <2>4
      <3>2. q.old \notin reqs[a].new
        BY <1>4, <3>1
      <3>3. CASE reqs[r] = None
        BY <2>4, <3>1, <3>2, <3>3
      <3>4. CASE reqs[r] # None
        <4>1. reqs[r].new \cap reqs[a].new = {}
          BY <2>1, <2>4, <3>1, <3>4 DEF Foreign
        <4> QED
          BY <2>4, <3>1, <3>2, <3>4, <4>1
      <3> QED
        BY <3>3, <3>4
    <2>5. CASE a = r /\ b = r
      <3>1. reqs'[a] = q /\ reqs'[b] = q
        BY <1>1, <2>5
      <3>2. CASE reqs[r] = None
        BY <2>5, <3>1, <3>2
      <3>3. CASE reqs[r] # None
        BY <1>4, <2>5, <3>1, <3>3
      <3> QED
        BY <3>2, <3>3
    <2> QED
      BY <2>2, <2>3, <2>4, <2>5
  <1>6. ASSUME NEW s \in Reqs, reqs'[s] # None
        PROVE  /\ Shape(reqs'[s])
               /\ Apartness(reqs'[s], link', typed')
               /\ Upheld(reqs'[s], link', disk', excused')
               /\ reqs'[s].old \in Files => reqs'[s].old \in drawn'
    <2>1. CASE s # r
      <3>1. /\ reqs'[s] = reqs[s]
            /\ Shape(reqs[s])
            /\ Apartness(reqs[s], link, typed)
            /\ Upheld(reqs[s], link, disk, excused)
            /\ reqs[s].old \in Files => reqs[s].old \in drawn
        BY <1>1, <1>6, <2>1 DEF Inv, Core
      <3> QED
        BY <3>1
    <2>2. CASE s = r
      <3>1. \A i \in Ids : link[i] \notin q.new
        <4>1. CASE reqs[r] = None
          BY <4>1
        <4>2. CASE reqs[r] # None
          BY <4>2 DEF Inv, Core, Apartness
        <4> QED
          BY <4>1, <4>2
      <3>2. q.new \subseteq disk
        <4>1. CASE reqs[r] = None
          BY <4>1
        <4>2. CASE reqs[r] # None
          BY <4>2 DEF Inv, Core, Upheld
        <4> QED
          BY <4>1, <4>2
      <3>3. disk \subseteq Files
        BY DEF Inv, Core, Drawn
      <3>4. CASE q.old = None /\ q.does \in {"create", "submit"}
        BY <1>1, <1>2, <2>2, <3>1, <3>2, <3>3, <3>4 DEF Apartness, Upheld
      <3>5. CASE q.row \in Ids /\ q.old = link[q.row] /\ q.pc = "remove"
        <4>1. /\ \A i \in Ids : link[i] \in Files /\ link[i] = q.old => i = q.row \/ q.old \in typed
              /\ q.old \in Files => q.old \in drawn
          BY <3>5 DEF Inv, Core, Linked, Drawn
        <4> QED
          BY <1>1, <2>2, <3>1, <3>2, <3>5, <4>1 DEF Apartness, Upheld
      <3> QED
        BY <3>4, <3>5
    <2> QED
      BY <2>1, <2>2
  <1>7. LinksServed'
    <2> SUFFICES ASSUME NEW i \in Ids, link[i] \in Files, link[i] \notin disk
                 PROVE  \/ link[i] \in broken \cup typed
                        \/ \E s \in Reqs : /\ reqs'[s] # None
                                           /\ reqs'[s].old = link[i]
                                           /\ reqs'[s].pc # "remove"
      BY DEF LinksServed
    <2>1. \/ link[i] \in broken \cup typed
          \/ \E s \in Reqs : reqs[s] # None /\ reqs[s].old = link[i] /\ reqs[s].pc # "remove"
      BY DEF Inv, LinksServed
    <2> QED
      BY <1>1, <1>2, <2>1
  <1>8. NoLitter'
    <2> SUFFICES ASSUME NEW g \in disk
                 PROVE  \/ \E i \in Ids : link[i] = g
                        \/ \E s \in Reqs : reqs'[s] # None /\ g \in reqs'[s].new
                        \/ g \in excused
      BY DEF NoLitter
    <2>1. \/ \E i \in Ids : link[i] = g
          \/ \E s \in Reqs : reqs[s] # None /\ g \in reqs[s].new
          \/ g \in excused
      BY DEF Inv, NoLitter
    <2> QED
      BY <1>1, <1>2, <2>1
  <1> QED
    BY <1>3, <1>5, <1>6, <1>7, <1>8 DEF Inv, Core

(* The old file goes, and only the row it was read from may link to it. *)
LEMMA RemoveInv ==
  ASSUME Inv, NEW r \in Reqs, Remove(r)
  PROVE  Inv'
  <1> DEFINE pc == IF reqs[r].does = "replace" THEN "save" ELSE "commit"
  <1> DEFINE q == [reqs[r] EXCEPT !.pc = pc]
  <1>1. /\ reqs[r] # None
        /\ reqs[r].pc = "remove"
        /\ disk' = disk \ {reqs[r].old}
        /\ UNCHANGED << kind, link, drawn, broken, excused, typed >>
        /\ reqs' = [reqs EXCEPT ![r] = q]
    BY DEF Remove, Removed, Set
  <1>2. /\ Shape(reqs[r])
        /\ Apartness(reqs[r], link, typed)
        /\ Upheld(reqs[r], link, disk, excused)
        /\ reqs[r].old \in Files => reqs[r].old \in drawn
    BY <1>1 DEF Inv, Core
  <1>3. /\ q \in Pending
        /\ q.does = reqs[r].does /\ q.pc = pc /\ q.row = reqs[r].row
        /\ q.old = reqs[r].old /\ q.new = reqs[r].new /\ q.late = reqs[r].late
    BY <1>2 DEF Shape, Pending
  <1>4. Shape(q) /\ q.new = {} /\ q.does \in {"replace", "delete"} /\ q.pc # "remove"
    BY <1>1, <1>2, <1>3 DEF Shape, Pending
  <1>5. reqs'[r] = q /\ \A s \in Reqs \ {r} : reqs'[s] = reqs[s]
    BY <1>1 DEF Inv, Core
  <1> HIDE DEF q
  <1>6. q # None /\ None \notin Files
    BY <1>3, Apart
  <1>7. kind' \in Kinds /\ DOMAIN reqs' = Reqs /\ Linked(link)' /\ Drawn'
    BY <1>1 DEF Inv, Core, Linked, Drawn
  <1>8. Foreign(reqs')
    <2>1. \A s \in Reqs : reqs'[s] # None =>
             /\ reqs[s] # None
             /\ reqs'[s].old = reqs[s].old
             /\ reqs'[s].new = reqs[s].new
      BY <1>1, <1>3, <1>5
    <2> QED
      BY <2>1 DEF Inv, Core, Foreign
  <1>9. ASSUME NEW s \in Reqs, reqs'[s] # None
        PROVE  /\ Shape(reqs'[s])
               /\ Apartness(reqs'[s], link', typed')
               /\ Upheld(reqs'[s], link', disk', excused')
               /\ reqs'[s].old \in Files => reqs'[s].old \in drawn'
    <2>1. CASE s = r
      BY <1>1, <1>2, <1>3, <1>4, <1>5, <2>1 DEF Apartness, Upheld
    <2>2. CASE s # r
      <3>1. /\ reqs'[s] = reqs[s]
            /\ Shape(reqs[s])
            /\ Apartness(reqs[s], link, typed)
            /\ Upheld(reqs[s], link, disk, excused)
            /\ reqs[s].old \in Files => reqs[s].old \in drawn
            /\ reqs[r].old \notin reqs[s].new
        BY <1>1, <1>5, <1>9, <2>2 DEF Inv, Core, Foreign
      <3> QED
        BY <1>1, <3>1 DEF Apartness, Upheld
    <2> QED
      BY <2>1, <2>2
  <1>10. LinksServed'
    <2> SUFFICES ASSUME NEW i \in Ids, link[i] \in Files, link[i] \notin disk'
                 PROVE  \/ link[i] \in broken \cup typed
                        \/ \E s \in Reqs : /\ reqs'[s] # None
                                           /\ reqs'[s].old = link[i]
                                           /\ reqs'[s].pc # "remove"
      BY <1>1 DEF LinksServed
    <2>1. CASE link[i] = reqs[r].old
      BY <1>3, <1>4, <1>5, <1>6, <2>1
    <2>2. CASE link[i] # reqs[r].old
      <3>1. \/ link[i] \in broken \cup typed
            \/ \E s \in Reqs : reqs[s] # None /\ reqs[s].old = link[i] /\ reqs[s].pc # "remove"
        BY <1>1, <2>2 DEF Inv, LinksServed
      <3> QED
        BY <1>5, <2>2, <3>1
    <2> QED
      BY <2>1, <2>2
  <1>11. NoLitter'
    <2> SUFFICES ASSUME NEW g \in disk
                 PROVE  \/ \E i \in Ids : link[i] = g
                        \/ \E s \in Reqs : reqs'[s] # None /\ g \in reqs'[s].new
                        \/ g \in excused
      BY <1>1 DEF NoLitter
    <2>1. \/ \E i \in Ids : link[i] = g
          \/ \E s \in Reqs : reqs[s] # None /\ g \in reqs[s].new
          \/ g \in excused
      BY DEF Inv, NoLitter
    <2> QED
      BY <1>3, <1>5, <1>6, <2>1
  <1> QED
    BY <1>7, <1>8, <1>9, <1>10, <1>11 DEF Inv, Core

(* What a failed request has removed is broken, what it has written is     *)
(* excused.                                                                *)
LEMMA AbortInv ==
  ASSUME Inv, NEW r \in Reqs, Abort(r)
  PROVE  Inv'
  <1>1. /\ reqs[r] # None
        /\ excused' = excused \cup reqs[r].new
        /\ broken' = IF reqs[r].pc = "remove" THEN broken
                                              ELSE broken \cup ({reqs[r].old} \cap Files)
        /\ reqs' = [reqs EXCEPT ![r] = None]
        /\ UNCHANGED << kind, link, disk, drawn, typed >>
    BY DEF Abort, Set
  <1>2. /\ Shape(reqs[r])
        /\ Upheld(reqs[r], link, disk, excused)
        /\ reqs[r].old \in Files => reqs[r].old \in drawn
    BY <1>1 DEF Inv, Core
  <1>3. \A s \in Reqs : reqs'[s] # None => s # r /\ reqs'[s] = reqs[s]
    BY <1>1 DEF Inv, Core
  <1>4. \A s \in Reqs \ {r} : reqs'[s] = reqs[s]
    BY <1>1 DEF Inv, Core
  <1>5. kind' \in Kinds /\ DOMAIN reqs' = Reqs /\ Linked(link)'
    BY <1>1 DEF Inv, Core, Linked
  <1>6. Drawn'
    BY <1>1, <1>2 DEF Inv, Core, Drawn, Upheld
  <1>7. Foreign(reqs')
    BY <1>3 DEF Inv, Core, Foreign
  <1>8. ASSUME NEW s \in Reqs, reqs'[s] # None
        PROVE  /\ Shape(reqs'[s])
               /\ Apartness(reqs'[s], link', typed')
               /\ Upheld(reqs'[s], link', disk', excused')
               /\ reqs'[s].old \in Files => reqs'[s].old \in drawn'
    <2>1. /\ reqs'[s] = reqs[s]
          /\ Shape(reqs[s])
          /\ Apartness(reqs[s], link, typed)
          /\ Upheld(reqs[s], link, disk, excused)
          /\ reqs[s].old \in Files => reqs[s].old \in drawn
      BY <1>3, <1>8 DEF Inv, Core
    <2> QED
      BY <1>1, <2>1 DEF Apartness, Upheld
  <1>9. LinksServed'
    <2> SUFFICES ASSUME NEW i \in Ids, link[i] \in Files, link[i] \notin disk
                 PROVE  \/ link[i] \in broken' \cup typed
                        \/ \E s \in Reqs : /\ reqs'[s] # None
                                           /\ reqs'[s].old = link[i]
                                           /\ reqs'[s].pc # "remove"
      BY <1>1 DEF LinksServed
    <2>1. \/ link[i] \in broken \cup typed
          \/ \E s \in Reqs : reqs[s] # None /\ reqs[s].old = link[i] /\ reqs[s].pc # "remove"
      BY DEF Inv, LinksServed
    <2> QED
      BY <1>1, <1>4, <2>1
  <1>10. NoLitter'
    <2> SUFFICES ASSUME NEW g \in disk
                 PROVE  \/ \E i \in Ids : link[i] = g
                        \/ \E s \in Reqs : reqs'[s] # None /\ g \in reqs'[s].new
                        \/ g \in excused'
      BY <1>1 DEF NoLitter
    <2>1. \/ \E i \in Ids : link[i] = g
          \/ \E s \in Reqs : reqs[s] # None /\ g \in reqs[s].new
          \/ g \in excused
      BY DEF Inv, NoLitter
    <2> QED
      BY <1>1, <1>4, <2>1
  <1> QED
    BY <1>5, <1>6, <1>7, <1>8, <1>9, <1>10 DEF Inv, Core

-----------------------------------------------------------------------------
(* One row is written: i now links to l.                                   *)
Writes(i, l) ==
  /\ link' = [link EXCEPT ![i] = l]
  /\ UNCHANGED << kind, disk, drawn, broken >>
  /\ typed \subseteq typed'
  /\ typed' \subseteq drawn
  /\ excused \subseteq excused'
  /\ excused' \subseteq drawn
  /\ link[i] \in disk => link[i] \in excused' \/ link[i] = l
  /\ l \in Files /\ l # link[i] => l \in typed' \/ (l \in disk /\ \A j \in Ids : link[j] # l)

(* Every request that goes on is as it was, and late if it has read row i. *)
GoOn(i) ==
  /\ DOMAIN reqs' = Reqs
  /\ \A s \in Reqs : reqs'[s] # None =>
       /\ reqs[s] # None
       /\ reqs'[s] \in Pending
       /\ Same(reqs'[s], reqs[s])
       /\ reqs[s].row # i => reqs'[s].late = reqs[s].late
       /\ reqs[s].row = i => reqs'[s].late

(* The new file is none of theirs. *)
Keep(i, l) ==
  \A s \in Reqs : reqs'[s] # None =>
    l = link[i] \/ (l \notin reqs[s].new /\ (l \in Files => l # reqs[s].old \/ l \in typed'))

(* The others leave nothing but what the row links to now, or what is      *)
(* excused.                                                                *)
Leave(i, l) ==
  \A s \in Reqs : reqs[s] # None /\ reqs'[s] = None =>
    /\ reqs[s].new \subseteq {l} \cup excused'
    /\ reqs[s].old \in Files => reqs[s].row = i /\ l # reqs[s].old

LEMMA TypedDrawn == Inv => typed \subseteq drawn
  BY DEF Inv, Core, Drawn

LEMMA WriteStep ==
  ASSUME Inv, NEW i \in Ids, NEW l \in Files \cup {None, Gone},
         Writes(i, l), GoOn(i), Keep(i, l), Leave(i, l)
  PROVE  Inv'
  <1> USE DEF Writes, GoOn, Keep, Leave
  <1>1. \A j \in Ids : link'[j] = IF j = i THEN l ELSE link[j]
    BY DEF Inv, Core, Linked
  <1>2. None \notin Files
    BY Apart
  <1>3. kind' \in Kinds /\ Linked(link)'
    <2>1. link' \in [Ids -> Files \cup {None, Gone}]
      BY DEF Inv, Core, Linked
    <2>2. \A a, b \in Ids : link'[a] \in Files /\ link'[a] = link'[b] => a = b \/ link'[a] \in typed'
      BY <1>1 DEF Inv, Core, Linked
    <2> QED
      BY <2>1, <2>2 DEF Inv, Core, Linked
  <1>4. Drawn'
    <2>1. \A j \in Ids : link'[j] \in Files => link'[j] \in drawn
      BY <1>1 DEF Inv, Core, Drawn
    <2> QED
      BY <2>1 DEF Inv, Core, Drawn
  <1>5. Foreign(reqs')
    BY DEF Inv, Core, Foreign, Same
  <1>6. ASSUME NEW s \in Reqs, reqs'[s] # None
        PROVE  /\ Shape(reqs'[s])
               /\ Apartness(reqs'[s], link', typed')
               /\ Upheld(reqs'[s], link', disk', excused')
               /\ reqs'[s].old \in Files => reqs'[s].old \in drawn'
    <2>1. /\ reqs[s] # None
          /\ reqs'[s] \in Pending
          /\ Same(reqs'[s], reqs[s])
          /\ reqs[s].row # i => reqs'[s].late = reqs[s].late
          /\ reqs[s].row = i => reqs'[s].late
          /\ l = link[i] \/ (l \notin reqs[s].new /\ (l \in Files => l # reqs[s].old \/ l \in typed'))
      BY <1>6
    <2>2. /\ Shape(reqs[s])
          /\ Apartness(reqs[s], link, typed)
          /\ Upheld(reqs[s], link, disk, excused)
          /\ reqs[s].old \in Files => reqs[s].old \in drawn
      BY <2>1 DEF Inv, Core
    <2>3. Shape(reqs'[s])
      BY <2>1, <2>2, SameShape
    <2>4. Apartness(reqs'[s], link', typed')
      BY <1>1, <2>1, <2>2 DEF Apartness, Same
    <2>5. Upheld(reqs'[s], link', disk', excused')
      <3>1. reqs'[s].new \subseteq disk'
        BY <2>1, <2>2 DEF Upheld, Same
      <3>2. reqs'[s].old \in Files /\ reqs'[s].pc # "remove" => reqs'[s].old \notin disk'
        BY <2>1, <2>2 DEF Upheld, Same
      <3>3. disk \subseteq Files
        BY DEF Inv, Core, Drawn
      <3>4. reqs[s].old \in Files => reqs[s].row \in Ids
        BY <1>2, <2>2 DEF Shape, Pending
      <3>5. reqs'[s].old \in disk' =>
              link'[reqs'[s].row] = reqs'[s].old \/ reqs'[s].old \in excused'
        <4> SUFFICES ASSUME reqs[s].old \in disk
                     PROVE  link'[reqs[s].row] = reqs[s].old \/ reqs[s].old \in excused'
          BY <2>1 DEF Same
        <4>1. reqs[s].row \in Ids
          BY <3>3, <3>4
        <4>2. link[reqs[s].row] = reqs[s].old \/ reqs[s].old \in excused
          BY <2>2 DEF Upheld
        <4> QED
          BY <1>1, <4>1, <4>2
      <3>6. reqs'[s].does \in {"replace", "delete"} /\ ~reqs'[s].late =>
              link'[reqs'[s].row] = reqs'[s].old
        <4> SUFFICES ASSUME reqs[s].does \in {"replace", "delete"}, ~reqs'[s].late
                     PROVE  link'[reqs[s].row] = reqs[s].old
          BY <2>1 DEF Same
        <4>1. reqs[s].row \in Ids /\ reqs[s].row # i /\ ~reqs[s].late
          BY <2>1, <2>2 DEF Shape
        <4> QED
          BY <1>1, <2>2, <4>1 DEF Upheld
      <3> QED
        BY <3>1, <3>2, <3>5, <3>6 DEF Upheld
    <2>6. reqs'[s].old \in Files => reqs'[s].old \in drawn'
      BY <2>1, <2>2 DEF Same
    <2> QED
      BY <2>3, <2>4, <2>5, <2>6
  <1>7. LinksServed'
    <2> SUFFICES ASSUME NEW j \in Ids, link'[j] \in Files, link'[j] \notin disk
                 PROVE  \/ link'[j] \in broken \cup typed'
                        \/ \E s \in Reqs : /\ reqs'[s] # None
                                           /\ reqs'[s].old = link'[j]
                                           /\ reqs'[s].pc # "remove"
      BY DEF LinksServed
    <2>0. CASE link'[j] \in typed'
      BY <2>0
    <2>1. CASE link'[j] \notin typed'
      <3>1. link'[j] = link[j]
        BY <1>1, <2>1
      <3>2. \/ link[j] \in broken
            \/ \E s \in Reqs : reqs[s] # None /\ reqs[s].old = link[j] /\ reqs[s].pc # "remove"
        BY <2>1, <3>1 DEF Inv, LinksServed
      <3>3. CASE link[j] \in broken
        BY <3>1, <3>3
      <3>4. ASSUME NEW s \in Reqs, reqs[s] # None, reqs[s].old = link[j], reqs[s].pc # "remove"
            PROVE  reqs'[s] # None /\ reqs'[s].old = link[j] /\ reqs'[s].pc # "remove"
        <4>1. j = reqs[s].row
          BY <2>1, <3>1, <3>4 DEF Inv, Core, Apartness
        <4>2. reqs'[s] # None
          BY <1>1, <3>1, <3>4, <4>1
        <4> QED
          BY <3>4, <4>2 DEF Same
      <3> QED
        BY <3>1, <3>2, <3>3, <3>4
    <2> QED
      BY <2>0, <2>1
  <1>8. NoLitter'
    <2> SUFFICES ASSUME NEW g \in disk
                 PROVE  \/ \E j \in Ids : link'[j] = g
                        \/ \E s \in Reqs : reqs'[s] # None /\ g \in reqs'[s].new
                        \/ g \in excused'
      BY DEF NoLitter
    <2>1. CASE \E j \in Ids : link[j] = g
      BY <1>1, <2>1
    <2>2. CASE \E s \in Reqs : reqs[s] # None /\ g \in reqs[s].new
      BY <1>1, <2>2 DEF Same
    <2>3. CASE g \in excused
      BY <2>3
    <2> QED
      BY <2>1, <2>2, <2>3 DEF Inv, NoLitter
  <1> QED
    BY <1>3, <1>4, <1>5, <1>6, <1>7, <1>8 DEF Inv, Core

(* The requests that go on after one that has written row i.               *)
LEMMA DoneStep ==
  ASSUME Inv, NEW r \in Reqs, NEW i \in Ids, Done(r, i)
  PROVE  /\ GoOn(i)
         /\ \A s \in Reqs : reqs[s] # None => (reqs'[s] = None <=> s = r)
  <1>1. reqs' = [s \in Reqs |->
                   IF [reqs EXCEPT ![r] = None][s] = None THEN None
                   ELSE [[reqs EXCEPT ![r] = None][s] EXCEPT
                           !.late = @ \/ [reqs EXCEPT ![r] = None][s].row = i]]
    BY DEF Done, Late
  <1>2. DOMAIN reqs = Reqs
    BY DEF Inv, Core
  <1>3. DOMAIN reqs' = Reqs /\ reqs'[r] = None
    BY <1>1, <1>2
  <1>4. ASSUME NEW s \in Reqs, s # r, reqs[s] # None
        PROVE  /\ reqs'[s] # None
               /\ reqs'[s] \in Pending
               /\ Same(reqs'[s], reqs[s])
               /\ reqs[s].row # i => reqs'[s].late = reqs[s].late
               /\ reqs[s].row = i => reqs'[s].late
    <2> DEFINE b == reqs[s].row = i
    <2>1. reqs[s] \in Pending /\ b \in BOOLEAN
      BY <1>4 DEF Inv, Core, Shape
    <2>2. reqs'[s] = [reqs[s] EXCEPT !.late = @ \/ b]
      BY <1>1, <1>2, <1>4
    <2> HIDE DEF b
    <2>3. reqs'[s] \in Pending /\ Same(reqs'[s], reqs[s]) /\ (reqs'[s].late <=> reqs[s].late \/ b)
      BY <2>1, <2>2, LateSame
    <2>4. reqs'[s].late \in BOOLEAN /\ reqs[s].late \in BOOLEAN
      BY <2>1, <2>3 DEF Pending
    <2> QED
      BY <2>3, <2>4, Apart DEF b
  <1>5. ASSUME NEW s \in Reqs, s # r, reqs[s] = None
        PROVE  reqs'[s] = None
    BY <1>1, <1>2, <1>5
  <1> QED
    BY <1>3, <1>4, <1>5 DEF GoOn

-----------------------------------------------------------------------------
(* The invariant holds at first and is kept by each action.                *)

LEMMA InitInv == Init => Inv
  <1> SUFFICES ASSUME Init PROVE Inv
    OBVIOUS
  <1>1. Linked(link)
    BY Apart DEF Init, Linked
  <1>2. Drawn
    BY Apart DEF Init, Drawn
  <1>3. \A r \in Reqs : reqs[r] = None
    BY DEF Init
  <1>4. kind \in Kinds /\ DOMAIN reqs = Reqs
    BY DEF Init
  <1>5. LinksServed
    BY Apart DEF Init, LinksServed
  <1>6. NoLitter
    BY DEF Init, NoLitter
  <1> QED
    BY <1>1, <1>2, <1>3, <1>4, <1>5, <1>6 DEF Inv, Core, Foreign

LEMMA BeginCreateInv ==
  ASSUME Inv, NEW r \in Reqs, BeginCreate(r)
  PROVE  Inv'
  <1>1. PICK f \in Files : Save(f) /\ Set(r, Request("create", "commit", None, None, {f}))
    BY DEF BeginCreate
  <1> DEFINE q == Request("create", "commit", None, None, {f})
  <1>2. /\ q \in Pending
        /\ q.does = "create" /\ q.pc = "commit" /\ q.row = None /\ q.old = None /\ q.new = {f}
    BY RequestShape
  <1>3. /\ reqs[r] = None
        /\ reqs' = [reqs EXCEPT ![r] = q]
        /\ UNCHANGED << kind, link, broken, excused, typed >>
    BY <1>1 DEF BeginCreate, Set
  <1> HIDE DEF q
  <1>4. Shape(q)
    BY <1>2 DEF Shape
  <1> QED
    BY <1>1, <1>2, <1>3, <1>4, SaveStep

LEMMA SaveAnotherInv ==
  ASSUME Inv, NEW r \in Reqs, SaveAnother(r)
  PROVE  Inv'
  <1>1. PICK f \in Files : Save(f) /\ Set(r, [reqs[r] EXCEPT !.new = @ \cup {f}])
    BY DEF SaveAnother
  <1> DEFINE q == [reqs[r] EXCEPT !.new = @ \cup {f}]
  <1>2. /\ reqs[r] # None
        /\ reqs[r].does = "create"
        /\ reqs' = [reqs EXCEPT ![r] = q]
        /\ UNCHANGED << kind, link, broken, excused, typed >>
    BY <1>1 DEF SaveAnother, Set
  <1>3. Shape(reqs[r])
    BY <1>2 DEF Inv, Core
  <1>4. /\ q \in Pending
        /\ q.does = reqs[r].does /\ q.pc = reqs[r].pc /\ q.row = reqs[r].row
        /\ q.old = reqs[r].old /\ q.new = reqs[r].new \cup {f} /\ q.late = reqs[r].late
    BY <1>3 DEF Shape, Pending
  <1> HIDE DEF q
  <1>5. Shape(q) /\ q.pc # "remove" /\ reqs[r].pc # "remove"
    BY <1>2, <1>3, <1>4 DEF Shape
  <1> QED
    BY <1>1, <1>2, <1>4, <1>5, SaveStep

LEMMA SaveNewInv ==
  ASSUME Inv, NEW r \in Reqs, SaveNew(r)
  PROVE  Inv'
  <1>1. PICK f \in Files :
           Save(f) /\ Set(r, [reqs[r] EXCEPT !.pc = "commit", !.new = {f}])
    BY DEF SaveNew
  <1> DEFINE q == [reqs[r] EXCEPT !.pc = "commit", !.new = {f}]
  <1>2. /\ reqs[r] # None
        /\ reqs[r].does = "replace"
        /\ reqs[r].pc = "save"
        /\ reqs' = [reqs EXCEPT ![r] = q]
        /\ UNCHANGED << kind, link, broken, excused, typed >>
    BY <1>1 DEF SaveNew, Set
  <1>3. Shape(reqs[r])
    BY <1>2 DEF Inv, Core
  <1>4. /\ q \in Pending
        /\ q.does = reqs[r].does /\ q.pc = "commit" /\ q.row = reqs[r].row
        /\ q.old = reqs[r].old /\ q.new = {f} /\ q.late = reqs[r].late
    BY <1>3 DEF Shape, Pending
  <1> HIDE DEF q
  <1>5. Shape(q) /\ q.new = reqs[r].new \cup {f}
    BY <1>2, <1>3, <1>4 DEF Shape
  <1> QED
    BY <1>1, <1>2, <1>4, <1>5, SaveStep

LEMMA BeginReplaceInv ==
  ASSUME Inv, NEW r \in Reqs, NEW i \in Ids, BeginReplace(r, i)
  PROVE  Inv'
  <1>1. PICK does \in {"replace", "delete"} : Set(r, Request(does, "remove", i, link[i], {}))
    BY DEF BeginReplace
  <1> DEFINE q == Request(does, "remove", i, link[i], {})
  <1>2. link[i] \in Files \cup {None}
    BY DEF BeginReplace, Inv, Core, Linked
  <1>3. /\ q \in Pending
        /\ q.does = does /\ q.pc = "remove" /\ q.row = i /\ q.old = link[i] /\ q.new = {}
    BY <1>2, RequestShape
  <1>4. /\ reqs[r] = None
        /\ reqs' = [reqs EXCEPT ![r] = q]
        /\ UNCHANGED << kind, link, disk, drawn, broken, excused, typed >>
    BY <1>1 DEF BeginReplace, Set
  <1> HIDE DEF q
  <1>5. Shape(q)
    BY <1>3 DEF Shape
  <1> QED
    BY <1>3, <1>4, <1>5, QuietStep

LEMMA BeginSubmitInv ==
  ASSUME Inv, NEW r \in Reqs, BeginSubmit(r)
  PROVE  Inv'
  <1>1. reqs[r] = None /\ UNCHANGED << kind, link, broken, excused, typed >>
    BY DEF BeginSubmit
  <1>2. ASSUME NEW f \in Files, Save(f), Set(r, Request("submit", "save", None, None, {f}))
        PROVE  Inv'
    <2> DEFINE q == Request("submit", "save", None, None, {f})
    <2>1. /\ q \in Pending
          /\ q.does = "submit" /\ q.pc = "save" /\ q.row = None /\ q.old = None /\ q.new = {f}
      BY RequestShape
    <2>2. reqs' = [reqs EXCEPT ![r] = q]
      BY <1>2 DEF Set
    <2> HIDE DEF q
    <2>3. Shape(q)
      BY <2>1 DEF Shape
    <2> QED
      BY <1>1, <1>2, <2>1, <2>2, <2>3, SaveStep
  <1>3. ASSUME Set(r, Request("submit", "save", None, None, {})), UNCHANGED << disk, drawn >>
        PROVE  Inv'
    <2> DEFINE q == Request("submit", "save", None, None, {})
    <2>1. /\ q \in Pending
          /\ q.does = "submit" /\ q.pc = "save" /\ q.row = None /\ q.old = None /\ q.new = {}
      BY RequestShape
    <2>2. reqs' = [reqs EXCEPT ![r] = q]
      BY <1>3 DEF Set
    <2> HIDE DEF q
    <2>3. Shape(q)
      BY <2>1 DEF Shape
    <2> QED
      BY <1>1, <1>3, <2>1, <2>2, <2>3, QuietStep
  <1> QED
    BY <1>2, <1>3 DEF BeginSubmit

LEMMA FindSubmissionInv ==
  ASSUME Inv, NEW r \in Reqs, FindSubmission(r)
  PROVE  Inv'
  <1>1. /\ reqs[r] # None
        /\ reqs[r].does = "submit"
        /\ UNCHANGED << kind, link, disk, drawn, broken, excused, typed >>
    BY DEF FindSubmission
  <1>2. Shape(reqs[r])
    BY <1>1 DEF Inv, Core
  <1>3. ASSUME NEW i \in Ids, Set(r, [reqs[r] EXCEPT !.pc = "commit", !.row = i])
        PROVE  Inv'
    <2> DEFINE q == [reqs[r] EXCEPT !.pc = "commit", !.row = i]
    <2>1. /\ q \in Pending
          /\ q.does = reqs[r].does /\ q.pc = "commit" /\ q.row = i
          /\ q.old = reqs[r].old /\ q.new = reqs[r].new
      BY <1>2 DEF Shape, Pending
    <2>2. reqs' = [reqs EXCEPT ![r] = q]
      BY <1>3 DEF Set
    <2> HIDE DEF q
    <2>3. Shape(q) /\ q.old = None
      BY <1>1, <1>2, <2>1 DEF Shape
    <2> QED
      BY <1>1, <2>1, <2>2, <2>3, QuietStep
  <1>4. ASSUME Set(r, [reqs[r] EXCEPT !.pc = "commit"])
        PROVE  Inv'
    <2> DEFINE q == [reqs[r] EXCEPT !.pc = "commit"]
    <2>1. /\ q \in Pending
          /\ q.does = reqs[r].does /\ q.pc = "commit" /\ q.row = reqs[r].row
          /\ q.old = reqs[r].old /\ q.new = reqs[r].new
      BY <1>2 DEF Shape, Pending
    <2>2. reqs' = [reqs EXCEPT ![r] = q]
      BY <1>4 DEF Set
    <2> HIDE DEF q
    <2>3. Shape(q) /\ q.old = None
      BY <1>1, <1>2, <2>1 DEF Shape
    <2> QED
      BY <1>1, <2>1, <2>2, <2>3, QuietStep
  <1> QED
    BY <1>3, <1>4 DEF FindSubmission

LEMMA CommitReplaceInv ==
  ASSUME Inv, NEW r \in Reqs, CommitReplace(r)
  PROVE  Inv'
  <1> DEFINE q == reqs[r]
  <1>1. /\ q # None
        /\ q.does = "replace"
        /\ q.pc = "commit"
        /\ excused' = excused \cup Overlapped(q)
        /\ Done(r, q.row)
        /\ UNCHANGED << kind, disk, drawn, broken, typed >>
    BY DEF CommitReplace
  <1>2. PICK f \in q.new : link' = [link EXCEPT ![q.row] = f]
    BY DEF CommitReplace
  <1>3. /\ Shape(q)
        /\ Apartness(q, link, typed)
        /\ Upheld(q, link, disk, excused)
        /\ q.old \notin q.new
    BY <1>1 DEF Inv, Core, Foreign
  <1>4. q.row \in Ids /\ f \in Files /\ q.new = {f} /\ f \in disk
    BY <1>1, <1>2, <1>3 DEF Shape, Pending, Upheld
  <1>5. /\ excused \subseteq excused'
        /\ excused' \subseteq drawn
        /\ link[q.row] \in disk => link[q.row] \in excused'
    <2>1. /\ disk \subseteq Files
          /\ excused \subseteq drawn
          /\ link[q.row] \in Files => link[q.row] \in drawn
      BY <1>4 DEF Inv, Core, Drawn
    <2>2. CASE q.late
      BY <1>1, <2>1, <2>2 DEF Overlapped
    <2>3. CASE ~q.late
      BY <1>1, <1>3, <2>1, <2>3 DEF Overlapped, Upheld
    <2> QED
      BY <2>2, <2>3
  <1>6. \A j \in Ids : link[j] # f
    BY <1>3, <1>4 DEF Apartness
  <1>7. \A s \in Reqs \ {r} : reqs[s] # None => f \notin reqs[s].new /\ f # reqs[s].old
    BY <1>1, <1>4 DEF Inv, Core, Foreign
  <1>8. /\ GoOn(q.row)
        /\ \A s \in Reqs : reqs[s] # None => (reqs'[s] = None <=> s = r)
    BY <1>1, <1>4, DoneStep
  <1>9. Writes(q.row, f)
    BY <1>1, <1>2, <1>4, <1>5, <1>6, TypedDrawn DEF Writes
  <1>10. Keep(q.row, f)
    BY <1>1, <1>7, <1>8 DEF Keep, GoOn
  <1>11. Leave(q.row, f)
    BY <1>3, <1>4, <1>8 DEF Leave
  <1> HIDE DEF q
  <1> QED
    BY <1>4, <1>8, <1>9, <1>10, <1>11, WriteStep

LEMMA CommitDeleteInv ==
  ASSUME Inv, NEW r \in Reqs, CommitDelete(r)
  PROVE  Inv'
  <1> DEFINE q == reqs[r]
  <1>1. /\ q # None
        /\ q.does = "delete"
        /\ q.pc = "commit"
        /\ link' = [link EXCEPT ![q.row] = Gone]
        /\ excused' = excused \cup Overlapped(q)
        /\ Done(r, q.row)
        /\ UNCHANGED << kind, disk, drawn, broken, typed >>
    BY DEF CommitDelete
  <1>2. Shape(q) /\ Upheld(q, link, disk, excused)
    BY <1>1 DEF Inv, Core
  <1>3. q.row \in Ids /\ q.new = {} /\ Gone \notin Files
    BY <1>1, <1>2, Apart DEF Shape
  <1>4. /\ excused \subseteq excused'
        /\ excused' \subseteq drawn
        /\ link[q.row] \in disk => link[q.row] \in excused'
    <2>1. /\ disk \subseteq Files
          /\ excused \subseteq drawn
          /\ link[q.row] \in Files => link[q.row] \in drawn
      BY <1>3 DEF Inv, Core, Drawn
    <2>2. CASE q.late
      BY <1>1, <2>1, <2>2 DEF Overlapped
    <2>3. CASE ~q.late
      BY <1>1, <1>2, <2>1, <2>3 DEF Overlapped, Upheld
    <2> QED
      BY <2>2, <2>3
  <1>5. \A s \in Reqs : reqs[s] # None => Gone \notin reqs[s].new
    BY <1>3 DEF Inv, Core, Shape, Pending
  <1>6. q.old \in Files => Gone # q.old
    BY <1>3
  <1>7. /\ GoOn(q.row)
        /\ \A s \in Reqs : reqs[s] # None => (reqs'[s] = None <=> s = r)
    BY <1>1, <1>3, DoneStep
  <1>8. Writes(q.row, Gone)
    BY <1>1, <1>3, <1>4, TypedDrawn DEF Writes
  <1>9. Keep(q.row, Gone)
    BY <1>3, <1>5, <1>7 DEF Keep, GoOn
  <1>10. Leave(q.row, Gone)
    BY <1>3, <1>6, <1>7 DEF Leave
  <1> HIDE DEF q
  <1> QED
    BY <1>3, <1>7, <1>8, <1>9, <1>10, WriteStep

LEMMA CommitSubmitInv ==
  ASSUME Inv, NEW r \in Reqs, CommitSubmit(r)
  PROVE  Inv'
  <1> DEFINE q == reqs[r]
  <1>1. /\ q # None
        /\ q.does = "submit"
        /\ UNCHANGED << kind, disk, drawn, broken, typed >>
    BY DEF CommitSubmit
  <1>2. PICK i \in Ids :
          /\ \/ \E f \in q.new : link' = [link EXCEPT ![i] = f]
             \/ q.new = {} /\ link' = [link EXCEPT ![i] = IF @ = Gone THEN None ELSE @]
          /\ excused' = IF q.new = {} THEN excused ELSE excused \cup ({link[i]} \cap Files)
          /\ Done(r, i)
    BY DEF CommitSubmit
  <1>3. /\ Shape(q)
        /\ Apartness(q, link, typed)
        /\ q.new \subseteq disk
        /\ q.old = None
    BY <1>1 DEF Inv, Core, Upheld, Shape
  <1>4. /\ disk \subseteq Files
        /\ excused \subseteq drawn
        /\ link[i] \in Files => link[i] \in drawn
        /\ link[i] \in Files \cup {None, Gone}
        /\ None \notin Files
        /\ Gone \notin Files
    BY Apart DEF Inv, Core, Drawn, Linked
  <1>5. \A s \in Reqs : reqs[s] # None => reqs[s].new \subseteq Files
    BY DEF Inv, Core, Shape, Pending
  <1>6. \A s \in Reqs \ {r} : reqs[s] # None =>
           reqs[s].new \cap q.new = {} /\ reqs[s].old \notin q.new
    BY <1>1 DEF Inv, Core, Foreign
  <1>7. /\ GoOn(i)
        /\ \A s \in Reqs : reqs[s] # None => (reqs'[s] = None <=> s = r)
    BY <1>2, DoneStep
  <1>9. ASSUME NEW f \in q.new, link' = [link EXCEPT ![i] = f]
        PROVE  Inv'
    <2>1. f \in Files /\ f \in disk /\ q.new = {f}
      BY <1>1, <1>3, <1>4, <1>9 DEF Shape
    <2>2. \A j \in Ids : link[j] # f
      BY <1>3, <2>1 DEF Apartness
    <2>3. /\ excused \subseteq excused'
          /\ excused' \subseteq drawn
          /\ link[i] \in disk => link[i] \in excused'
      BY <1>2, <1>4, <2>1
    <2>4. \A s \in Reqs \ {r} : reqs[s] # None => f \notin reqs[s].new /\ f # reqs[s].old
      BY <1>6, <2>1
    <2>5. Writes(i, f)
      BY <1>1, <1>9, <2>1, <2>2, <2>3, TypedDrawn DEF Writes
    <2>6. Keep(i, f)
      BY <1>1, <1>7, <2>4 DEF Keep, GoOn
    <2>7. Leave(i, f)
      BY <1>3, <1>4, <1>7, <2>1 DEF Leave
    <2> QED
      BY <1>7, <2>1, <2>5, <2>6, <2>7, WriteStep
  <1>10. ASSUME q.new = {}, link' = [link EXCEPT ![i] = IF @ = Gone THEN None ELSE @]
         PROVE  Inv'
    <2> DEFINE l == IF link[i] = Gone THEN None ELSE link[i]
    <2>1. link' = [link EXCEPT ![i] = l] /\ excused' = excused
      BY <1>2, <1>10
    <2>2. l \in Files \cup {None, Gone} /\ (l = link[i] \/ l = None)
      BY <1>4
    <2>3. link[i] \in disk => l = link[i]
      BY <1>4
    <2> HIDE DEF l
    <2>4. l \in Files => l = link[i]
      BY <1>4, <2>2
    <2>5. Writes(i, l)
      BY <1>1, <1>4, <2>1, <2>3, <2>4, TypedDrawn DEF Writes
    <2>6. Keep(i, l)
      BY <1>4, <1>5, <1>7, <2>2, <2>4 DEF Keep, GoOn
    <2>7. Leave(i, l)
      BY <1>3, <1>4, <1>7, <1>10 DEF Leave
    <2> QED
      BY <1>7, <2>2, <2>5, <2>6, <2>7, WriteStep
  <1> QED
    BY <1>2, <1>9, <1>10

(* Any number of rows are inserted, each linked to one of the new files.   *)
LEMMA CommitCreateInv ==
  ASSUME Inv, NEW r \in Reqs, CommitCreate(r)
  PROVE  Inv'
  <1> DEFINE q == reqs[r]
  <1>1. /\ q # None
        /\ q.does = "create"
        /\ link' \in [Ids -> Files \cup {None, Gone}]
        /\ \A i \in Ids : link'[i] # link[i] => i \in FreeIds /\ link'[i] \in q.new
        /\ \A f \in q.new : \E i \in Ids : \A j \in Ids : link'[j] = f <=> j = i
        /\ reqs' = [reqs EXCEPT ![r] = None]
        /\ UNCHANGED << kind, disk, drawn, broken, excused, typed >>
    BY DEF CommitCreate, Set
  <1>2. /\ q.new \subseteq disk
        /\ q.old = None
        /\ disk \subseteq Files
        /\ disk \subseteq drawn
        /\ None \notin Files
        /\ Gone \notin Files
    BY <1>1, Apart DEF Inv, Core, Upheld, Shape, Drawn
  <1>3. \A s \in Reqs : reqs'[s] # None => s # r /\ reqs'[s] = reqs[s]
    BY <1>1 DEF Inv, Core
  <1>4. \A s \in Reqs \ {r} : reqs'[s] = reqs[s]
    BY <1>1 DEF Inv, Core
  <1>5. \A i \in Ids : link'[i] # link[i] =>
           /\ link[i] = Gone
           /\ link'[i] \in q.new
           /\ \A s \in Reqs : reqs[s] # None => reqs[s].row # i
    BY <1>1 DEF FreeIds
  <1>6. \A i \in Ids : link[i] \notin q.new
    BY <1>1 DEF Inv, Core, Apartness
  <1>7. Linked(link)'
    <2> SUFFICES ASSUME NEW i \in Ids, NEW j \in Ids, link'[i] \in Files, link'[i] = link'[j]
                 PROVE  i = j \/ link'[i] \in typed
      BY <1>1 DEF Linked
    <2>1. CASE link'[i] \in q.new
      BY <1>1, <2>1
    <2>2. CASE link'[i] \notin q.new
      BY <1>5, <2>2 DEF Inv, Core, Linked
    <2> QED
      BY <2>1, <2>2
  <1>8. kind' \in Kinds /\ DOMAIN reqs' = Reqs
    BY <1>1 DEF Inv, Core
  <1>9. Drawn'
    <2>1. \A i \in Ids : link'[i] \in Files => link'[i] \in drawn
      BY <1>2, <1>5 DEF Inv, Core, Drawn
    <2> QED
      BY <1>1, <2>1 DEF Inv, Core, Drawn
  <1>10. Foreign(reqs')
    BY <1>3 DEF Inv, Core, Foreign
  <1>11. ASSUME NEW s \in Reqs, reqs'[s] # None
         PROVE  /\ Shape(reqs'[s])
                /\ Apartness(reqs'[s], link', typed')
                /\ Upheld(reqs'[s], link', disk', excused')
                /\ reqs'[s].old \in Files => reqs'[s].old \in drawn'
    <2>1. /\ reqs'[s] = reqs[s]
          /\ s # r
          /\ reqs[s] # None
      BY <1>3, <1>11
    <2>2. /\ Shape(reqs[s])
          /\ Apartness(reqs[s], link, typed)
          /\ Upheld(reqs[s], link, disk, excused)
          /\ reqs[s].old \in Files => reqs[s].old \in drawn
          /\ reqs[s].old \notin q.new
          /\ reqs[s].new \cap q.new = {}
      BY <1>1, <2>1 DEF Inv, Core, Foreign
    <2>3. Apartness(reqs[s], link', typed')
      BY <1>1, <1>5, <2>2 DEF Apartness
    <2>4. reqs[s].old \in Files => reqs[s].row \in Ids
      BY <1>2, <2>2 DEF Shape, Pending
    <2>5. reqs[s].row \in Ids => link'[reqs[s].row] = link[reqs[s].row]
      BY <1>5, <2>1
    <2>6. reqs[s].does \in {"replace", "delete"} => reqs[s].row \in Ids
      BY <2>2 DEF Shape
    <2>7. Upheld(reqs[s], link', disk, excused)
      <3>1. reqs[s].old \in disk =>
              link'[reqs[s].row] = reqs[s].old \/ reqs[s].old \in excused
        BY <1>2, <2>2, <2>4, <2>5 DEF Upheld
      <3>2. reqs[s].does \in {"replace", "delete"} /\ ~reqs[s].late =>
              link'[reqs[s].row] = reqs[s].old
        BY <2>2, <2>5, <2>6 DEF Upheld
      <3> QED
        BY <2>2, <3>1, <3>2 DEF Upheld
    <2> QED
      BY <1>1, <2>1, <2>2, <2>3, <2>7
  <1>12. LinksServed'
    <2> SUFFICES ASSUME NEW i \in Ids, link'[i] \in Files, link'[i] \notin disk
                 PROVE  \/ link'[i] \in broken \cup typed
                        \/ \E s \in Reqs : /\ reqs'[s] # None
                                           /\ reqs'[s].old = link'[i]
                                           /\ reqs'[s].pc # "remove"
      BY <1>1 DEF LinksServed
    <2>1. link'[i] = link[i]
      BY <1>2, <1>5
    <2>2. \/ link[i] \in broken \cup typed
          \/ \E s \in Reqs : reqs[s] # None /\ reqs[s].old = link[i] /\ reqs[s].pc # "remove"
      BY <2>1 DEF Inv, LinksServed
    <2>3. q.old # link[i]
      BY <1>2, <2>1
    <2> QED
      BY <1>4, <2>1, <2>2, <2>3
  <1>13. NoLitter'
    <2> SUFFICES ASSUME NEW g \in disk
                 PROVE  \/ \E i \in Ids : link'[i] = g
                        \/ \E s \in Reqs : reqs'[s] # None /\ g \in reqs'[s].new
                        \/ g \in excused
      BY <1>1 DEF NoLitter
    <2>1. CASE \E i \in Ids : link[i] = g
      BY <1>2, <1>5, <2>1
    <2>2. CASE \E s \in Reqs : reqs[s] # None /\ g \in reqs[s].new
      <3>1. CASE g \in q.new
        BY <1>1, <3>1
      <3>2. CASE g \notin q.new
        BY <1>4, <2>2, <3>2
      <3> QED
        BY <3>1, <3>2
    <2>3. CASE g \in excused
      BY <2>3
    <2> QED
      BY <2>1, <2>2, <2>3 DEF Inv, NoLitter
  <1> QED
    BY <1>7, <1>8, <1>9, <1>10, <1>11, <1>12, <1>13 DEF Inv, Core

LEMMA CreateBareInv ==
  ASSUME Inv, CreateBare
  PROVE  Inv'
  <1>1. PICK i \in FreeIds : link' = [link EXCEPT ![i] = None]
    BY DEF CreateBare
  <1>2. UNCHANGED << kind, disk, drawn, reqs, broken, excused, typed >>
    BY DEF CreateBare
  <1>3. /\ i \in Ids
        /\ link[i] = Gone
        /\ \A s \in Reqs : reqs[s] # None => reqs[s].row # i
        /\ None \notin Files
        /\ Gone \notin Files
    BY Apart DEF FreeIds
  <1>4. /\ disk \subseteq Files
        /\ excused \subseteq drawn
        /\ DOMAIN reqs = Reqs
        /\ \A s \in Reqs : reqs[s] # None => reqs[s] \in Pending /\ reqs[s].new \subseteq Files
    BY DEF Inv, Core, Drawn, Shape, Pending
  <1>5. Writes(i, None)
    BY <1>1, <1>2, <1>3, <1>4, TypedDrawn DEF Writes
  <1>6. GoOn(i)
    BY <1>2, <1>3, <1>4 DEF GoOn, Same
  <1>7. Keep(i, None)
    BY <1>2, <1>3, <1>4 DEF Keep
  <1>8. Leave(i, None)
    BY <1>2 DEF Leave
  <1> QED
    BY <1>3, <1>5, <1>6, <1>7, <1>8, WriteStep

(* A file without a row, excused from the start. *)
LEMMA UploadInv ==
  ASSUME Inv, Upload
  PROVE  Inv'
  <1>1. PICK f \in Files : Save(f) /\ excused' = excused \cup {f}
    BY DEF Upload
  <1>2. UNCHANGED << kind, link, reqs, broken, typed >>
    BY DEF Upload
  <1>3. disk' = disk \cup {f} /\ drawn' = drawn \cup {f}
    BY <1>1 DEF Save
  <1>4. /\ f \notin drawn
        /\ \A s \in Reqs : reqs[s] # None => reqs[s].old # f
    BY <1>1, FreshName
  <1>5. kind' \in Kinds /\ DOMAIN reqs' = Reqs /\ Linked(link)' /\ Foreign(reqs')
    BY <1>2 DEF Inv, Core, Linked, Foreign
  <1>6. Drawn'
    BY <1>1, <1>2, <1>3, <1>4 DEF Inv, Core, Drawn
  <1>7. ASSUME NEW s \in Reqs, reqs'[s] # None
        PROVE  /\ Shape(reqs'[s])
               /\ Apartness(reqs'[s], link', typed')
               /\ Upheld(reqs'[s], link', disk', excused')
               /\ reqs'[s].old \in Files => reqs'[s].old \in drawn'
    <2>1. /\ reqs'[s] = reqs[s]
          /\ Shape(reqs[s])
          /\ Apartness(reqs[s], link, typed)
          /\ Upheld(reqs[s], link, disk, excused)
          /\ reqs[s].old \in Files => reqs[s].old \in drawn
          /\ reqs[s].old # f
      BY <1>2, <1>4, <1>7 DEF Inv, Core
    <2> QED
      BY <1>1, <1>2, <1>3, <2>1 DEF Apartness, Upheld
  <1>8. LinksServed'
    BY <1>2, <1>3 DEF Inv, LinksServed
  <1>9. NoLitter'
    BY <1>1, <1>2, <1>3 DEF Inv, NoLitter
  <1> QED
    BY <1>5, <1>6, <1>7, <1>8, <1>9 DEF Inv, Core

LEMMA SetLinkInv ==
  ASSUME Inv, NEW i \in Ids, SetLink(i)
  PROVE  Inv'
  <1>1. PICK l \in {None, Gone} \cup Shown :
          /\ link' = [link EXCEPT ![i] = l]
          /\ typed' = typed \cup ({l} \cap Files)
    BY DEF SetLink
  <1>2. /\ excused' = excused \cup ({link[i]} \cap Files)
        /\ reqs' = Late(reqs, i)
        /\ UNCHANGED << kind, disk, drawn, broken >>
    BY DEF SetLink
  <1>3. /\ disk \subseteq Files
        /\ excused \subseteq drawn
        /\ typed \subseteq drawn
        /\ drawn \subseteq Files
        /\ link[i] \in Files => link[i] \in drawn
        /\ \A s \in Reqs : reqs[s] # None => reqs[s] \in Pending /\ reqs[s].new \subseteq Files
    BY DEF Inv, Core, Drawn, Shape, Pending
  <1>l. /\ l \in Files \cup {None, Gone}
        /\ l \in Files => l \in drawn
        /\ l \in Files => l \in typed'
        /\ \A s \in Reqs : reqs[s] # None => l \notin reqs[s].new
    <2>1. None \notin Files /\ Gone \notin Files
      BY Apart
    <2>2. CASE l \in {None, Gone}
      BY <1>3, <2>1, <2>2
    <2>3. CASE l \in Shown
      BY <1>1, <1>3, <2>3 DEF Shown
    <2> QED
      BY <2>2, <2>3
  <1>4. DOMAIN reqs' = Reqs /\ \A s \in Reqs : reqs[s] = None => reqs'[s] = None
    BY <1>2 DEF Late
  <1>5. ASSUME NEW s \in Reqs, reqs[s] # None
        PROVE  /\ reqs'[s] # None
               /\ reqs'[s] \in Pending
               /\ Same(reqs'[s], reqs[s])
               /\ reqs[s].row # i => reqs'[s].late = reqs[s].late
               /\ reqs[s].row = i => reqs'[s].late
    <2> DEFINE b == reqs[s].row = i
    <2>1. reqs[s] \in Pending /\ b \in BOOLEAN
      BY <1>3, <1>5
    <2>2. reqs'[s] = [reqs[s] EXCEPT !.late = @ \/ b]
      BY <1>2, <1>5 DEF Late
    <2> HIDE DEF b
    <2>3. reqs'[s] \in Pending /\ Same(reqs'[s], reqs[s]) /\ (reqs'[s].late <=> reqs[s].late \/ b)
      BY <2>1, <2>2, LateSame
    <2>4. reqs'[s].late \in BOOLEAN /\ reqs[s].late \in BOOLEAN
      BY <2>1, <2>3 DEF Pending
    <2> QED
      BY <2>3, <2>4, Apart DEF b
  <1>6. GoOn(i)
    BY <1>4, <1>5 DEF GoOn
  <1>7. Writes(i, l)
    <2>1. typed \subseteq typed' /\ typed' \subseteq drawn
      BY <1>1, <1>3, <1>l
    <2>2. /\ excused \subseteq excused'
          /\ excused' \subseteq drawn
          /\ link[i] \in disk => link[i] \in excused'
      BY <1>2, <1>3
    <2> QED
      BY <1>1, <1>2, <1>l, <2>1, <2>2 DEF Writes
  <1>8. Keep(i, l)
    BY <1>4, <1>l DEF Keep
  <1>9. Leave(i, l)
    BY <1>5 DEF Leave
  <1> QED
    BY <1>6, <1>7, <1>8, <1>9, <1>l, WriteStep

LEMMA NextInv ==
  ASSUME Inv, [Next]_vars
  PROVE  Inv'
  <1>1. ASSUME NEW r \in Reqs, BeginCreate(r) PROVE Inv'
    BY <1>1, BeginCreateInv
  <1>2. ASSUME NEW r \in Reqs, SaveAnother(r) PROVE Inv'
    BY <1>2, SaveAnotherInv
  <1>3. ASSUME NEW r \in Reqs, CommitCreate(r) PROVE Inv'
    BY <1>3, CommitCreateInv
  <1>4. ASSUME NEW r \in Reqs, NEW i \in Ids, BeginReplace(r, i) PROVE Inv'
    BY <1>4, BeginReplaceInv
  <1>5. ASSUME NEW r \in Reqs, Remove(r) PROVE Inv'
    BY <1>5, RemoveInv
  <1>6. ASSUME NEW r \in Reqs, SaveNew(r) PROVE Inv'
    BY <1>6, SaveNewInv
  <1>7. ASSUME NEW r \in Reqs, CommitReplace(r) PROVE Inv'
    BY <1>7, CommitReplaceInv
  <1>8. ASSUME NEW r \in Reqs, CommitDelete(r) PROVE Inv'
    BY <1>8, CommitDeleteInv
  <1>9. ASSUME NEW r \in Reqs, BeginSubmit(r) PROVE Inv'
    BY <1>9, BeginSubmitInv
  <1>10. ASSUME NEW r \in Reqs, FindSubmission(r) PROVE Inv'
    BY <1>10, FindSubmissionInv
  <1>11. ASSUME NEW r \in Reqs, CommitSubmit(r) PROVE Inv'
    BY <1>11, CommitSubmitInv
  <1>12. ASSUME NEW r \in Reqs, Abort(r) PROVE Inv'
    BY <1>12, AbortInv
  <1>13. CASE CreateBare
    BY <1>13, CreateBareInv
  <1>14. CASE Upload
    BY <1>14, UploadInv
  <1>15. ASSUME NEW i \in Ids, SetLink(i) PROVE Inv'
    BY <1>15, SetLinkInv
  <1>16. CASE UNCHANGED vars
    BY <1>16 DEF vars, Inv, Core, Linked, Drawn, Foreign, Shape, Apartness, Upheld,
                 LinksServed, NoLitter
  <1> QED
    BY <1>1, <1>2, <1>3, <1>4, <1>5, <1>6, <1>7, <1>8, <1>9, <1>10, <1>11, <1>12,
       <1>13, <1>14, <1>15, <1>16 DEF Next

LEMMA InvTyped == Inv => TypeOK
  BY DEF Inv, Core, Linked, Drawn, Shape, Upheld, TypeOK

-----------------------------------------------------------------------------
(* The theorems.                                                           *)

(* The invariant, for every number of files, rows and requests. *)
THEOREM InvHolds == Spec => []Inv
  <1>1. Init => Inv
    BY InitInv
  <1>2. Inv /\ [Next]_vars => Inv'
    BY NextInv
  <1> QED
    BY <1>1, <1>2, PTL DEF Spec

(* Every file a request has written is in the directory until the request  *)
(* commits or fails, and what a failed request has removed stays away.     *)
THEOREM UploadsTyped == Spec => []TypeOK
  BY InvHolds, InvTyped, PTL

(* A row links to a file that is there, but for requests that have failed  *)
(* or are under way and for links typed in: two updates of one row at once *)
(* do not break its link.                                                  *)
THEOREM LinksServedHolds == Spec => []LinksServed
  <1>1. Inv => LinksServed
    BY DEF Inv
  <1> QED
    BY InvHolds, <1>1, PTL

(* No file is left behind but for a reason the model names: a failure, an  *)
(* overlap, a second submission, the panel, update_subject, /upload/.      *)
THEOREM NoLitterHolds == Spec => []NoLitter
  <1>1. Inv => NoLitter
    BY DEF Inv
  <1> QED
    BY InvHolds, <1>1, PTL
=============================================================================
