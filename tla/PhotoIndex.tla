------------------------------ MODULE PhotoIndex ------------------------------
(***************************************************************************)
(* What the smart-photo library promises of its tables, whoever calls and   *)
(* whatever the scan is doing: a call, and the storing of a scanned photo,   *)
(* is one step for everybody else. A kill takes the tables back to what is   *)
(* in the file; that is what it was, with some of the calls made since, and   *)
(* of one photo, that was being stored, perhaps less than its row.            *)
(***************************************************************************)
CONSTANTS Name, Version, NoRow, Untagged

VARIABLES view,    \* the tables as the next call finds them: waiting names, rows of photos
          saved    \* the tables in the file

Nothing == [changed |-> {}, photo |-> [n \in Name |-> NoRow]]

Init == view = Nothing /\ saved = Nothing

Wait(S) == view' = [view EXCEPT !.changed = @ \union S]

Forget(n) == view' = [view EXCEPT !.photo[n] = NoRow]

ForgetAll == view' = Nothing

\* A photo keeps its tags under its new name, which must be free.
Rename(n, m) ==
    /\ view.photo[n] # NoRow
    /\ m # n => view.photo[m] = NoRow
    /\ view' = [view EXCEPT !.photo = [x \in Name |-> IF x = m THEN @[n] ELSE IF x = n THEN NoRow ELSE @[x]]]

\* A photo leaves the waiting list as it enters the index, with its tags.
Store(n, v) == view' = [changed |-> view.changed \ {n}, photo |-> [view.photo EXCEPT ![n] = v]]

\* One that is no picture only leaves the waiting list.
Skip(n) == view' = [view EXCEPT !.changed = @ \ {n}]

Call ==
    /\ UNCHANGED saved
    /\ \/ \E S \in SUBSET Name : Wait(S)
       \/ ForgetAll
       \/ \E n \in Name : Forget(n) \/ Skip(n)
       \/ \E n, m \in Name : Rename(n, m)
       \/ \E n \in Name, v \in Version \union {Untagged} : Store(n, v)

\* The row of n is the one of before or the one of after.
Whole(n) == saved'.photo[n] \in {saved.photo[n], view.photo[n]}

\* n is being stored: its row is gone, or has no tags yet.
HalfStored(n) == view.photo[n] # NoRow /\ saved'.photo[n] \in {NoRow, Untagged}

\* Some of what was called reaches the file.
Save ==
    /\ UNCHANGED view
    /\ saved.changed \intersect view.changed \subseteq saved'.changed
    /\ saved'.changed \subseteq saved.changed \union view.changed
    /\ \A n \in Name : Whole(n) \/ (HalfStored(n) /\ \A m \in Name \ {n} : Whole(m))

\* The process ends.
Lose == UNCHANGED saved /\ view' = saved

Next == Save \/ Lose \/ Call

Spec == Init /\ [][Next]_<<view, saved>>
=============================================================================
