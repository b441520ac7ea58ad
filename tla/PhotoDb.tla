------------------------------- MODULE PhotoDb -------------------------------
(***************************************************************************)
(* The smart-photo database: the functions of smart-photo/db.cpp as        *)
(* statements on two tables, and the one SQLite connection they run on.    *)
(*                                                                         *)
(* ChangedPhoto is the set of names waiting to be scanned.  A row of Photo *)
(* is abstracted to the tags stored with it: the content of the file from  *)
(* which the PhotoObject and PhotoPerson rows were computed, Untagged when *)
(* there are none (yet).  Those rows reference Photo ON DELETE CASCADE, so *)
(* they come and go with it.                                               *)
(***************************************************************************)
EXTENDS Naturals, Sequences

CONSTANTS Name,      \* file names (the TEXT of a path column)
          Version,   \* contents of a file that OpenCV can decode
          NoRow,     \* no row with this path
          Untagged   \* a Photo row without object and person rows

ASSUME PhotoDbAssumption ==
    /\ NoRow # Untagged
    /\ NoRow \notin Version
    /\ Untagged \notin Version

Tag == Version \union {Untagged}

Tables == [changed : SUBSET Name, photo : [Name -> Tag \union {NoRow}]]

\* CREATE TABLE IF NOT EXISTS on a new database file.
EmptyTables == [changed |-> {}, photo |-> [n \in Name |-> NoRow]]

Indexed(db) == {n \in Name : db.photo[n] # NoRow}

-----------------------------------------------------------------------------
(* Statements.  A statement is a record; its effect on the tables follows. *)

Begin              == [op |-> "BEGIN"]
End                == [op |-> "END"]
ChangedAdd(S)      == [op |-> "changed_add", names |-> S]
ChangedRemove(n)   == [op |-> "changed_remove", name |-> n]
ChangedRemoveAll   == [op |-> "changed_remove_all"]
PhotoDelete(n)     == [op |-> "photo_delete", name |-> n]
PhotoInsert(n)     == [op |-> "photo_insert", name |-> n]
PhotoTag(n, v)     == [op |-> "photo_tag", name |-> n, tag |-> v]
PhotoMove(n, m)    == [op |-> "photo_move", name |-> n, to |-> m]
PhotoRemoveAll     == [op |-> "photo_remove_all"]

Statement ==
    {Begin, End, ChangedRemoveAll, PhotoRemoveAll}
    \union {ChangedAdd(S) : S \in SUBSET Name}
    \union {ChangedRemove(n) : n \in Name}
    \union {PhotoDelete(n) : n \in Name}
    \union {PhotoInsert(n) : n \in Name}
    \union {PhotoTag(n, v) : n \in Name, v \in Tag}
    \union {PhotoMove(n, m) : n \in Name, m \in Name}

SetPhoto(db, n, v) == [db EXCEPT !.photo = [@ EXCEPT ![n] = v]]

\* INSERT INTO ChangedPhoto; a second row for a path violates the unique index
\* and is ignored.
db_changed_table_add(db, S) == [db EXCEPT !.changed = @ \union S]

db_changed_table_remove(db, n) == [db EXCEPT !.changed = @ \ {n}]

\* UPDATE Photo SET path: no row, no effect; an existing row for the new path
\* violates the unique index and the statement fails.
db_photo_table_move(db, n, m) ==
    IF db.photo[n] = NoRow \/ (m # n /\ db.photo[m] # NoRow)
    THEN db
    ELSE SetPhoto(SetPhoto(db, n, NoRow), m, db.photo[n])

Effect(s, db) ==
    CASE s.op = "changed_add"        -> db_changed_table_add(db, s.names)
      [] s.op = "changed_remove"     -> db_changed_table_remove(db, s.name)
      [] s.op = "changed_remove_all" -> [db EXCEPT !.changed = {}]
      [] s.op = "photo_delete"       -> SetPhoto(db, s.name, NoRow)
      [] s.op = "photo_insert"       -> SetPhoto(db, s.name, Untagged)
      [] s.op = "photo_tag"          -> SetPhoto(db, s.name, s.tag)
      [] s.op = "photo_move"         -> db_photo_table_move(db, s.name, s.to)
      [] s.op = "photo_remove_all"   -> [db EXCEPT !.photo = EmptyTables.photo]
      [] OTHER                       -> db

-----------------------------------------------------------------------------
\* DELETE FROM ChangedPhoto, Photo, and the tables that follow Photo.
db_photo_table_remove_all == <<ChangedRemoveAll, PhotoRemoveAll>>

-----------------------------------------------------------------------------
(* The SQLite connection.  Outside a transaction every statement commits.  *)

VARIABLES work,      \* the tables as the connection sees them
          durable,   \* the tables as last committed to the database file
          inTxn      \* between a BEGIN and the END that commits it

dbVars == <<work, durable, inTxn>>

DbTypeOK ==
    /\ work \in Tables
    /\ durable \in Tables
    /\ inTxn \in BOOLEAN

DbInit ==
    /\ work = EmptyTables
    /\ durable = EmptyTables
    /\ inTxn = FALSE

\* BEGIN inside a transaction fails and changes nothing; nobody looks.
db_transaction_begin ==
    /\ inTxn' = TRUE
    /\ UNCHANGED <<work, durable>>

\* END commits whatever transaction is open, whoever began it; with none open
\* it fails and changes nothing (work = durable then).
db_transaction_end ==
    /\ inTxn' = FALSE
    /\ durable' = work
    /\ UNCHANGED work

sqlite3_exec(s) ==
    \/ s.op = "BEGIN" /\ db_transaction_begin
    \/ s.op = "END" /\ db_transaction_end
    \/ /\ s.op \notin {"BEGIN", "END"}
       /\ work' = Effect(s, work)
       /\ durable' = IF inTxn THEN durable ELSE work'
       /\ UNCHANGED inTxn

\* The connection goes away (process killed, or sqlite3_close): an open
\* transaction is rolled back.
Rollback ==
    /\ work' = durable
    /\ inTxn' = FALSE
    /\ UNCHANGED durable
=============================================================================
