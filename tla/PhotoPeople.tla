------------------------------ MODULE PhotoPeople ------------------------------
(***************************************************************************)
(* What the smart-photo library stores about the contents of a photo: the   *)
(* rows of Person, Object and their links to Photo, and what the listing    *)
(* calls return of them. SmartPhoto has the concurrency of these calls;      *)
(* here they follow each other, each under the library's mutex.              *)
(*                                                                         *)
(* A table is a function from row ids to rows. An embedding is the angle of *)
(* a vector in a plane, in degrees: the cosine distance that is halved is    *)
(* below 0.25 when the angle between two vectors is below 60. A picture is   *)
(* what the networks answer for it.                                          *)
(***************************************************************************)
EXTENDS Integers, FiniteSets, SequencesExt

Linked == {"PhotoPerson", "PhotoObject"}
Table == {"Photo", "Person", "Object"} \cup Linked

NoRows == [t \in Table |-> <<>>]
EmptyPeople == [rows |-> NoRows, last |-> [t \in Table |-> 0]]

\* AUTOINCREMENT: the id of a row is never given again.
NextId(db, t) == db.last[t] + 1
InsertRow(db, t, row) ==
    [db EXCEPT !.rows[t] = @ @@ (NextId(db, t) :> row), !.last[t] = @ + 1]

\* Deletes rows of Photo; ON DELETE CASCADE deletes the links of the photo.
DeletePhotos(db, path) ==
    LET photos == {i \in DOMAIN db.rows["Photo"] : db.rows["Photo"][i] # path}
        left(t) == {r \in DOMAIN db.rows[t] : db.rows[t][r][1] \in photos}
    IN  [db EXCEPT !.rows = [t \in Table |->
            CASE t = "Photo" -> Restrict(@[t], photos) [] t \in Linked -> Restrict(@[t], left(t)) [] OTHER -> @[t]]]

db_photo_table_add(db, path) == InsertRow(DeletePhotos(db, path), "Photo", path)

-----------------------------------------------------------------------------
(* The inferences. Confidences and parts of the picture are in tenths. *)

Magnitude(n) == IF n < 0 THEN -n ELSE n

\* ignore_face: the pose of the head is unknown, or turned by more than 30 degrees.
ignore_face(d) == ~d.posed \/ Magnitude(d.yaw) > 30 \/ Magnitude(d.pitch) > 30

\* face_detection: the rows up to the first without an image, those that are sure, large
\* and from the front; one whose embedding cannot be inferred is left out.
face_detection(picture) ==
    LET rows == picture.detections
        ends == {i \in DOMAIN rows : rows[i].image < 0}
        used == IF ends = {} THEN rows ELSE SubSeq(rows, 1, Min(ends) - 1)
        kept == SelectSeq(used, LAMBDA d : d.conf >= 8 /\ d.size >= 1 /\ ~ignore_face(d) /\ d.embedded)
    IN  IF picture.detected THEN [i \in DOMAIN kept |-> kept[i].face] ELSE <<>>

\* The class of a pixel: the first of the largest positive values, -1 without one.
PixelClass(pixel) ==
    LET best == {c \in DOMAIN pixel : pixel[c] > 0 /\ \A b \in DOMAIN pixel : pixel[b] <= pixel[c]}
    IN  IF best = {} THEN -1 ELSE Min(best)

\* segmentation: the classes of six percent of the pixels, in the order of the label file.
segmentation(picture) ==
    LET pixels == picture.pixels
        of(c) == {p \in DOMAIN pixels : PixelClass(pixels[p]) = c /\ pixels[p][c] > 9}
        large == {c \in UNION {DOMAIN pixels[p] : p \in DOMAIN pixels} :
                     of(c) # {} /\ 100 * Cardinality(of(c)) >= 6 * Len(pixels)}
    IN  IF picture.segmented THEN SetToSortSeq(large, <) ELSE <<>>

-----------------------------------------------------------------------------
(* Storing a picture. *)

Angle(a, b) == LET d == Magnitude(a - b) % 360 IN IF d > 180 THEN 360 - d ELSE d

\* cos_distance below 0.25, as person_for_each_callback asks.
Near(a, b) == Angle(a, b) < 60

\* The ids of the rows of Person for a face, in the order of the table.
MatchedIds(db, face) ==
    SetToSortSeq({i \in DOMAIN db.rows["Person"] : Near(face, db.rows["Person"][i])}, <)

\* INSERT OR IGNORE finds no unique index here: a second link of the same two is added.
db_photo_person_table_add(db, photo, person) == InsertRow(db, "PhotoPerson", <<photo, person>>)
db_photo_object_table_add(db, photo, object) == InsertRow(db, "PhotoObject", <<photo, object>>)

ObjectIds(db, name) == {i \in DOMAIN db.rows["Object"] : db.rows["Object"][i] = name}

db_object_table_add(db, name) ==
    IF ObjectIds(db, name) # {} THEN db ELSE InsertRow(db, "Object", name)

object_to_db(db, photo, labels) ==
    FoldLeft(LAMBDA d, l :
                 LET added == db_object_table_add(d, l)
                 IN  db_photo_object_table_add(added, photo, CHOOSE i \in ObjectIds(added, l) : TRUE),
             db, labels)

\* A face that nobody matches is kept back until all faces of the picture are looked up.
LookUp(photo, st, face) ==
    LET ids == MatchedIds(st.db, face)
    IN  IF ids = <<>> THEN [st EXCEPT !.strangers = Append(@, face)]
        ELSE [st EXCEPT !.db = FoldLeft(LAMBDA d, i : db_photo_person_table_add(d, photo, i), @, ids)]

\* Mutant of face_id_to_db: only the first face that nobody matches becomes a person.
face_id_to_db_first(db, photo, faces) ==
    LET st == FoldLeft(LAMBDA s, f : LookUp(photo, s, f), [db |-> db, strangers |-> <<>>], faces)
        added == InsertRow(st.db, "Person", st.strangers[1])
    IN  IF st.strangers = <<>> THEN st.db
        ELSE db_photo_person_table_add(added, photo, added.last["Person"])

face_id_to_db(db, photo, faces) ==
    LET st == FoldLeft(LAMBDA s, f : LookUp(photo, s, f), [db |-> db, strangers |-> <<>>], faces)
        add(d, f) == LET added == InsertRow(d, "Person", f)
                     IN  db_photo_person_table_add(added, photo, added.last["Person"])
    IN  FoldLeft(add, st.db, st.strangers)

-----------------------------------------------------------------------------
(* The calls, as the index of photos sees them. *)

\* The body of scan_thread for one photo, and ccai_sp_scan_file_buffer.
StorePhoto(db, path, picture) ==
    LET added == db_photo_table_add(db, path)
        photo == added.last["Photo"]
    IN  face_id_to_db(object_to_db(added, photo, segmentation(picture)), photo, face_detection(picture))

\* The unique index refuses a name that another photo has.
MovePhoto(db, from, to) ==
    LET photo == db.rows["Photo"]
    IN  IF from # to /\ from \in Range(photo) /\ to \in Range(photo) THEN db
        ELSE [db EXCEPT !.rows["Photo"] = [i \in DOMAIN @ |-> IF @[i] = from THEN to ELSE @[i]]]

RemoveAllRows(db) == [db EXCEPT !.rows = NoRows]

Called(db, c) ==
    CASE c.call = "scan" -> StorePhoto(db, c.path, c.picture)
      [] c.call = "remove_file" -> DeletePhotos(db, c.path)
      [] c.call = "move_file" -> MovePhoto(db, c.path, c.to)
      [] c.call = "remove_all_file" -> RemoveAllRows(db)

PeopleAfter(calls) == FoldLeft(Called, EmptyPeople, calls)

\* The joins: the links they find, each a call of the caller's function, in the database's order.
Joined(db, links, with) ==
    {r \in DOMAIN db.rows[links] :
        db.rows[links][r][1] \in DOMAIN db.rows["Photo"] /\ db.rows[links][r][2] \in DOMAIN db.rows[with]}

PhotoOf(db, links, r) == db.rows["Photo"][db.rows[links][r][1]]
ObjectOf(db, r) == db.rows["Object"][db.rows["PhotoObject"][r][2]]

db_list_photo_by_person(db, person) == {r \in Joined(db, "PhotoPerson", "Person") : db.rows["PhotoPerson"][r][2] = person}
db_list_photo_by_class(db, name) == {r \in Joined(db, "PhotoObject", "Object") : ObjectOf(db, r) = name}
db_list_person_by_photo(db, path) == {r \in Joined(db, "PhotoPerson", "Person") : PhotoOf(db, "PhotoPerson", r) = path}
db_list_class_by_photo(db, path) == {r \in Joined(db, "PhotoObject", "Object") : PhotoOf(db, "PhotoObject", r) = path}

\* What the caller's function gets: of a photo the path, of a person the id, of a class the name.
table_list(db, t) == db.rows[t]

ccai_sp_list_photo_by_person(db, person) ==
    [r \in db_list_photo_by_person(db, person) |-> PhotoOf(db, "PhotoPerson", r)]

ccai_sp_count_photo_by_person(db, person) == Cardinality(db_list_photo_by_person(db, person))

ccai_sp_list_photo_by_class(db, name) ==
    [r \in db_list_photo_by_class(db, name) |-> PhotoOf(db, "PhotoObject", r)]

ccai_sp_list_person_by_photo(db, path) ==
    [r \in db_list_person_by_photo(db, path) |-> db.rows["PhotoPerson"][r][2]]

ccai_sp_list_class_by_photo(db, path) ==
    [r \in db_list_class_by_photo(db, path) |-> ObjectOf(db, r)]
=============================================================================
