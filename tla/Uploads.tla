------------------------------- MODULE Uploads -------------------------------
(***************************************************************************)
(* Images: files in one directory, and rows that link to them.  A file and *)
(* its row are written one after the other and never together: the file of *)
(* a new image before the commit, and the file of an old one is removed    *)
(* before the commit as well (gallery, banners, notifications), or never   *)
(* (assignments).  The names of files are drawn at random and do not come  *)
(* back (uuid4).                                                           *)
(***************************************************************************)
CONSTANTS
  Files,  \* names that may be drawn: the bound of the runs
  Ids,    \* ids of the rows of the one table followed
  Reqs,   \* requests in flight
  None,   \* no image of this directory
  Gone    \* no row

VARIABLES
  kind,     \* the table: "gallery" (banners alike), "notification", "submission", "subject"
  link,     \* of each row: the file it links to, None, or Gone
  disk,     \* the files in the directory
  drawn,    \* the names drawn so far
  reqs,     \* what each request in flight has done, None when there is none
  broken,   \* removed by a request that failed then
  excused,  \* left without a row, for a reason named below
  typed     \* typed in as the link of a row

vars == << kind, link, disk, drawn, reqs, broken, excused, typed >>

-----------------------------------------------------------------------------
Kinds == {"gallery", "notification", "submission", "subject"}

(* row and old are what the SELECT found, new the files written so far,    *)
(* late says whether another request has written the row since.            *)
Pending ==
  [does : {"create", "replace", "delete", "submit"},
   pc : {"save", "remove", "commit"},
   row : Ids \cup {None}, old : Files \cup {None}, new : SUBSET Files, late : BOOLEAN]

ASSUME Apart ==
  /\ None \notin Files \cup Ids
  /\ None \notin Pending
  /\ Gone \notin Files \cup {None}

Request(does, pc, row, old, new) ==
  [does |-> does, pc |-> pc, row |-> row, old |-> old, new |-> new, late |-> FALSE]

TypeOK ==
  /\ kind \in Kinds
  /\ link \in [Ids -> Files \cup {None, Gone}]
  /\ disk \subseteq drawn
  /\ drawn \subseteq Files
  /\ \A r \in Reqs : reqs[r] # None =>
       /\ reqs[r] \in Pending
       /\ reqs[r].new \subseteq disk
       /\ reqs[r].pc = "remove" => reqs[r].new = {}
  /\ broken \subseteq drawn \ disk
  /\ excused \cup typed \subseteq drawn

Init ==
  /\ kind \in Kinds
  /\ link = [i \in Ids |-> Gone]
  /\ disk = {}
  /\ drawn = {}
  /\ reqs = [r \in Reqs |-> None]
  /\ broken = {}
  /\ excused = {}
  /\ typed = {}

Set(r, q) == reqs' = [reqs EXCEPT ![r] = q]

(* Row i has been written: the requests that have read it are late. *)
Late(pending, i) ==
  [s \in Reqs |-> IF pending[s] = None THEN None
                   ELSE [pending[s] EXCEPT !.late = @ \/ pending[s].row = i]]

Done(r, i) == reqs' = Late([reqs EXCEPT ![r] = None], i)

(* AUTO_INCREMENT: an id that a request may still refer to is not drawn. *)
FreeIds == {i \in Ids : link[i] = Gone /\ \A r \in Reqs : reqs[r] # None => reqs[r].row # i}

-----------------------------------------------------------------------------
(* mutant: the file is named after the upload, and a name may come back *)
NameOfUpload == Files \ disk
NewNames == Files \ drawn

(* _save_image writes the file before anything is in the transaction. *)
Save(f) ==
  /\ f \in NewNames
  /\ disk' = disk \cup {f}
  /\ drawn' = drawn \cup {f}

(* A create (or submission) starts by writing its file. *)
BeginCreate(r) ==
  /\ reqs[r] = None
  /\ kind # "submission"
  /\ \E f \in Files : Save(f) /\ Set(r, Request("create", "commit", None, None, {f}))
  /\ UNCHANGED << kind, link, broken, excused, typed >>

(* The gallery takes several files, and commits after the last. *)
SaveAnother(r) ==
  /\ reqs[r] # None
  /\ reqs[r].does = "create"
  /\ kind = "gallery"
  /\ \E f \in Files : Save(f) /\ Set(r, [reqs[r] EXCEPT !.new = @ \cup {f}])
  /\ UNCHANGED << kind, link, broken, excused, typed >>

CommitCreate(r) ==
  /\ reqs[r] # None
  /\ reqs[r].does = "create"
  /\ link' \in [Ids -> Files \cup {None, Gone}]
  /\ \A i \in Ids : link'[i] # link[i] => i \in FreeIds /\ link'[i] \in reqs[r].new
  /\ \A f \in reqs[r].new : \E i \in Ids : \A j \in Ids : link'[j] = f <=> j = i
  /\ Set(r, None)
  /\ UNCHANGED << kind, disk, drawn, broken, excused, typed >>

(* A notification without an image. *)
CreateBare ==
  /\ kind \in {"notification", "subject"}
  /\ \E i \in FreeIds : link' = [link EXCEPT ![i] = None]
  /\ UNCHANGED << kind, disk, drawn, reqs, broken, excused, typed >>

-----------------------------------------------------------------------------
(* Update and delete read the row, remove its file, write the new one, and *)
(* commit.                                                                 *)
BeginReplace(r, i) ==
  /\ reqs[r] = None
  /\ kind \in {"gallery", "notification"}
  /\ link[i] # Gone
  /\ \E does \in {"replace", "delete"} : Set(r, Request(does, "remove", i, link[i], {}))
  /\ UNCHANGED << kind, link, disk, drawn, broken, excused, typed >>

(* mutant: the file of a deleted row is left where it is *)
Kept(q) == IF q.does = "delete" THEN disk ELSE disk \ {q.old}
Removed(q) == disk \ {q.old}

Remove(r) ==
  /\ reqs[r] # None
  /\ reqs[r].pc = "remove"
  /\ disk' = Removed(reqs[r])
  /\ Set(r, [reqs[r] EXCEPT !.pc = IF reqs[r].does = "replace" THEN "save" ELSE "commit"])
  /\ UNCHANGED << kind, link, drawn, broken, excused, typed >>

SaveNew(r) ==
  /\ reqs[r] # None
  /\ reqs[r].pc = "save"
  /\ reqs[r].does = "replace"
  /\ \E f \in Files : Save(f) /\ Set(r, [reqs[r] EXCEPT !.pc = "commit", !.new = {f}])
  /\ UNCHANGED << kind, link, broken, excused, typed >>

(* The file that another request has linked the row to in the meantime. *)
Overlapped(q) == IF q.late THEN {link[q.row]} \cap Files ELSE {}

(* The UPDATE of a row that is gone fails (StaleDataError): see Abort. *)
CommitReplace(r) ==
  LET q == reqs[r]
  IN  /\ q # None
      /\ q.does = "replace"
      /\ q.pc = "commit"
      /\ link[q.row] # Gone
      /\ \E f \in q.new : link' = [link EXCEPT ![q.row] = f]
      /\ excused' = excused \cup Overlapped(q)
      /\ Done(r, q.row)
      /\ UNCHANGED << kind, disk, drawn, broken, typed >>

CommitDelete(r) ==
  LET q == reqs[r]
  IN  /\ q # None
      /\ q.does = "delete"
      /\ q.pc = "commit"
      /\ link' = [link EXCEPT ![q.row] = Gone]
      /\ excused' = excused \cup Overlapped(q)
      /\ Done(r, q.row)
      /\ UNCHANGED << kind, disk, drawn, broken, typed >>

-----------------------------------------------------------------------------
(* A submission writes its file, if any, then looks for the row to update: *)
(* whether there is one depends on the student and the assignment.  The    *)
(* file of an earlier submission stays.                                    *)
BeginSubmit(r) ==
  /\ reqs[r] = None
  /\ kind = "submission"
  /\ \/ \E f \in Files : Save(f) /\ Set(r, Request("submit", "save", None, None, {f}))
     \/ Set(r, Request("submit", "save", None, None, {})) /\ UNCHANGED << disk, drawn >>
  /\ UNCHANGED << kind, link, broken, excused, typed >>

FindSubmission(r) ==
  /\ reqs[r] # None
  /\ reqs[r].does = "submit"
  /\ reqs[r].pc = "save"
  /\ \/ \E i \in Ids : link[i] # Gone /\ Set(r, [reqs[r] EXCEPT !.pc = "commit", !.row = i])
     \/ Set(r, [reqs[r] EXCEPT !.pc = "commit"])
  /\ UNCHANGED << kind, link, disk, drawn, broken, excused, typed >>

CommitSubmit(r) ==
  LET q == reqs[r]
  IN  /\ q # None
      /\ q.does = "submit"
      /\ q.pc = "commit"
      /\ \E i \in Ids :
           /\ IF q.row = None THEN i \in FreeIds ELSE i = q.row /\ link[i] # Gone
           /\ \/ \E f \in q.new : link' = [link EXCEPT ![i] = f]
              \/ /\ q.new = {}
                 /\ link' = [link EXCEPT ![i] = IF @ = Gone THEN None ELSE @]
           /\ excused' = IF q.new = {} THEN excused ELSE excused \cup ({link[i]} \cap Files)
           /\ Done(r, i)
      /\ UNCHANGED << kind, disk, drawn, broken, typed >>

-----------------------------------------------------------------------------
(* /upload/ writes a file and leaves the link to the client. *)
Upload ==
  /\ \E f \in Files : Save(f) /\ excused' = excused \cup {f}
  /\ UNCHANGED << kind, link, reqs, broken, typed >>

(* A name in an answer or on a page; the others are not known yet. *)
Shown == {f \in drawn : \A r \in Reqs : reqs[r] # None => f \notin reqs[r].new}

(* The admin panel and update_subject set a link to what is typed in: to   *)
(* no file of this directory, to a file of another row, to one that is     *)
(* gone.  The panel and a foreign key that cascades delete rows.  Nobody   *)
(* looks after the files.                                                  *)
SetLink(i) ==
  /\ link[i] # Gone
  /\ \E l \in ({None, Gone} \cup Shown) \ {link[i]} :
       /\ link' = [link EXCEPT ![i] = l]
       /\ typed' = typed \cup ({l} \cap Files)
  /\ excused' = excused \cup ({link[i]} \cap Files)
  /\ reqs' = Late(reqs, i)
  /\ UNCHANGED << kind, disk, drawn, broken >>

(* A request fails at any await: the row stays as it is, the file it has   *)
(* removed stays away, and the ones it has written stay.                   *)
Abort(r) ==
  LET q == reqs[r]
  IN  /\ q # None
      /\ excused' = excused \cup q.new
      /\ broken' = IF q.pc = "remove" THEN broken ELSE broken \cup ({q.old} \cap Files)
      /\ Set(r, None)
      /\ UNCHANGED << kind, link, disk, drawn, typed >>

Next ==
  \/ \E r \in Reqs :
       \/ BeginCreate(r) \/ SaveAnother(r) \/ CommitCreate(r)
       \/ \E i \in Ids : BeginReplace(r, i)
       \/ Remove(r) \/ SaveNew(r) \/ CommitReplace(r) \/ CommitDelete(r)
       \/ BeginSubmit(r) \/ FindSubmission(r) \/ CommitSubmit(r)
       \/ Abort(r)
  \/ CreateBare
  \/ Upload
  \/ \E i \in Ids : SetLink(i)

Spec == Init /\ [][Next]_vars

-----------------------------------------------------------------------------
(* Properties.                                                             *)

(* A row links to a file that is there, unless a request that removed it   *)
(* has failed before its commit or is still under way, or the link has     *)
(* been typed in, by the panel or in update_subject.  That two requests    *)
(* change one row at once does not by itself break a link.                 *)
LinksServed ==
  \A i \in Ids : link[i] \in Files \ disk =>
    \/ link[i] \in broken \cup typed
    \/ \E r \in Reqs : reqs[r] # None /\ reqs[r].old = link[i] /\ reqs[r].pc # "remove"

(* A file that no row links to and no request has just written is one that *)
(* a failed request, an overlapping one, a second submission, the panel,   *)
(* update_subject or /upload/ has left behind; the others are removed with *)
(* their rows.                                                             *)
NoLitter ==
  \A f \in disk :
    \/ \E i \in Ids : link[i] = f
    \/ \E r \in Reqs : reqs[r] # None /\ f \in reqs[r].new
    \/ f \in excused
=============================================================================
