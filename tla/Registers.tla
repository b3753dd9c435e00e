------------------------------ MODULE Registers ------------------------------
(***************************************************************************)
(* Tables that are meant to hold one row per key, where the handlers are   *)
(* what keeps it so: a look-up, an await, an insert.                       *)
(*                                                                         *)
(* A register is such a table, followed around one key: places are the     *)
(* contents a row can have there, and keeps[p] the places no row may have  *)
(* next to one at p.  A handler writes at the places in DOMAIN looks.      *)
(* Before it writes at p it looks for the rows at looks[p], and expects    *)
(* one at most (asks = "one": scalar_one_or_none, which raises when there  *)
(* are several) or takes any number ("any"), or it does not look at all    *)
(* ("nothing").  Then it inserts a row, or one for each entry of a list    *)
(* that may name the key twice ("insert_each"), moves one to p, inserts    *)
(* only if there is none to update ("upsert"), changes another column      *)
(* ("touch"), replaces the rows it looked for by those of such a list, or  *)
(* deletes one.                                                            *)
(*                                                                         *)
(* Init picks the register: the rows of different keys do not meet.        *)
(***************************************************************************)
EXTENDS Naturals, FiniteSets

CONSTANTS
  Tables,     \* the registers, as RegisterTables describes them
  Unchecked,  \* the pairs <<register, handler>> that may write without
              \* having looked for all the rows the register rules out
  Wide,       \* the pairs <<register, handler>> that expect one row where
              \* several may be none of which is wrong
  Ids,        \* ids of rows; an id is drawn again once its row is deleted
  Reqs,       \* requests between their look-up and their commit
  None

VARIABLES
  register,  \* the one the behaviour follows
  rows,      \* place of each row, None where there is none
  reqs,      \* what each request is about to write, None when there is none
  excuse     \* how two rows came to clash: "race", "unchecked", "repeated"

vars == << register, rows, reqs, excuse >>

-----------------------------------------------------------------------------
(* What is done after a look-up, and what else there is. *)
Lookers == {"insert", "insert_each", "move", "upsert"}
Does == Lookers \cup {"touch", "replace", "delete"}
Excuses == {"race", "unchecked", "repeated"}

TableType(t) ==
  /\ t.keeps \in [t.places -> SUBSET t.places]
  /\ \A p, q \in t.places : q \in t.keeps[p] => p \in t.keeps[q]
  /\ t.unique \in BOOLEAN
  /\ \A h \in t.handlers :
       /\ h.does \in Does
       /\ h.asks \in {"nothing", "one", "any"}
       /\ DOMAIN h.looks \subseteq t.places
       /\ \A p \in DOMAIN h.looks : h.looks[p] \subseteq t.places

ASSUME TablesType == \A t \in Tables : TableType(t) /\ None \notin t.places

ASSUME IdsType == None \notin Ids

(* What a request that has looked and will write remembers: own is the id  *)
(* of the row to move, late whether another one has written since.         *)
Pending == [h : register.handlers, at : register.places, own : Ids \cup {None},
            late : BOOLEAN]

(* The handlers that come back to write after their look-up. *)
(* mutant: a handler that changes a row it found writes another *)
WaitsToTouch(h) == h.asks # "nothing"
Waits(h) == h.asks # "nothing" /\ h.does \in Lookers

TypeOK ==
  /\ register \in Tables
  /\ rows \in [Ids -> register.places \cup {None}]
  /\ \A r \in Reqs : reqs[r] # None =>
       reqs[r] \in Pending /\ reqs[r].h.does \in Lookers
  /\ excuse \subseteq Excuses

Init ==
  /\ register \in Tables
  /\ rows = [i \in Ids |-> None]
  /\ reqs = [r \in Reqs |-> None]
  /\ excuse = {}

-----------------------------------------------------------------------------
Clash(table) ==
  \E i, j \in Ids :
    /\ i # j
    /\ table[i] # None
    /\ table[j] # None
    /\ table[i] \in register.keeps[table[j]]

(* The rows a handler finds; an update looks past the row it changes. *)
Found(h, p, own) == {i \in Ids \ {own} : rows[i] \in h.looks[p]}

Several(S) == \E i, j \in S : i # j

(* Where two rows have the same key under a UNIQUE index, MySQL refuses. *)
Refused(table) == register.unique /\ Clash(table)

(* Every write ends this way: an excuse is kept as long as rows clash, and *)
(* the requests that have looked and not yet written are late.             *)
Write(table, others, why) ==
  /\ ~Refused(table)
  /\ rows' = table
  /\ reqs' = [q \in Reqs |-> IF others[q] = None THEN None
                                                 ELSE [others[q] EXCEPT !.late = TRUE]]
  /\ excuse' = IF Clash(table) THEN excuse \cup why ELSE {}
  /\ UNCHANGED register

Flaw(h) == IF << register, h >> \in Unchecked THEN {"unchecked"} ELSE {}

(* The entries of one list do not look for each other. *)
Repeats(I) == IF Several(I) THEN {"repeated"} ELSE {}

-----------------------------------------------------------------------------
(* The look-up of a handler that goes on to write.  It ends without a      *)
(* write, and is left out, where it finds a row (409, skipped, or updated  *)
(* in place) or finds several (500).                                       *)
Look(r) ==
  /\ reqs[r] = None
  /\ \E h \in register.handlers, own \in Ids \cup {None} : \E p \in DOMAIN h.looks :
       /\ Waits(h)
       /\ IF h.does = "move" THEN own # None /\ rows[own] # None ELSE own = None
       /\ Found(h, p, own) = {}
       /\ reqs' = [reqs EXCEPT ![r] = [h |-> h, at |-> p, own |-> own, late |-> FALSE]]
  /\ UNCHANGED << register, rows, excuse >>

Race(q) == IF q.late THEN {"race"} ELSE {}

(* The rows a request writes: the one to move, which may be gone by now    *)
(* (then it fails), a new one, or those of a list that names the key once  *)
(* or twice.                                                               *)
Writable(q, I) ==
  /\ I # {}
  /\ IF q.h.does = "move" THEN I = {q.own} /\ rows[q.own] # None
                          ELSE \A i \in I : rows[i] = None
  /\ Cardinality(I) <= IF q.h.does = "insert_each" THEN 2 ELSE 1

(* Its commit. *)
Commit(r) ==
  /\ reqs[r] # None
  /\ LET q == reqs[r]
     IN  \E I \in SUBSET Ids :
           /\ Writable(q, I)
           /\ Write([i \in Ids |-> IF i \in I THEN q.at ELSE rows[i]],
                    [reqs EXCEPT ![r] = None],
                    Race(q) \cup Flaw(q.h) \cup Repeats(I))

(* The request is cancelled or its commit fails. *)
Abort(r) ==
  /\ reqs[r] # None
  /\ reqs' = [reqs EXCEPT ![r] = None]
  /\ UNCHANGED << register, rows, excuse >>

(* A handler that does not look inserts a row, or moves one. *)
Append ==
  \E h \in register.handlers, i \in Ids : \E p \in DOMAIN h.looks :
    /\ h.asks = "nothing"
    /\ h.does \in {"insert", "move"}
    /\ h.does = "insert" <=> rows[i] = None
    /\ Write([rows EXCEPT ![i] = p], reqs, Flaw(h))

(* DELETE reads the rows of the moment and locks them until the commit, so *)
(* that it and the inserts after it are one step to every other handler.   *)
(* The list a client sends may name the same key twice.                    *)
Replace ==
  \E h \in register.handlers, I \in SUBSET Ids : \E p \in DOMAIN h.looks :
    LET gone == [i \in Ids |-> IF rows[i] \in h.looks[p] THEN None ELSE rows[i]]
    IN  /\ h.does = "replace"
        /\ Cardinality(I) <= 2
        /\ \A i \in I : gone[i] = None
        /\ Write([i \in Ids |-> IF i \in I THEN p ELSE gone[i]], reqs,
                 Flaw(h) \cup Repeats(I))

Delete ==
  \E h \in register.handlers, i \in Ids :
    /\ h.does = "delete"
    /\ rows[i] # None
    /\ Write([rows EXCEPT ![i] = None], reqs, {})

Next ==
  \/ \E r \in Reqs : Look(r) \/ Commit(r) \/ Abort(r)
  \/ Append
  \/ Replace
  \/ Delete

Spec == Init /\ [][Next]_vars

-----------------------------------------------------------------------------
(* Properties.                                                             *)

(* Two rows clash only where one of three things has happened and they     *)
(* have clashed ever since: a handler wrote after another request had      *)
(* written behind its look-up (race), or one that does not look, or not    *)
(* for all the rows in question, wrote (unchecked), or the list of one     *)
(* request named the key twice (repeated: marks of one subject twice in    *)
(* one body, exam.py:351-359).  Under a UNIQUE index they never do.  Every *)
(* other handler keeps the one row it checks for.                          *)
OneRowUnlessExcused ==
  Clash(rows) => excuse # {} /\ ~register.unique

(* A handler that expects one row at most fails (scalar_one_or_none        *)
(* raises, 500) only where two rows that may not stand next to each other  *)
(* are there already, except the handlers of Wide.                         *)
AnswersUnlessClash ==
  \A h \in register.handlers : \A p \in DOMAIN h.looks :
    h.asks = "one" /\ << register, h >> \notin Wide /\ Several(Found(h, p, None))
      => Clash(rows)
=============================================================================
