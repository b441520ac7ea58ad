-------------------------------- MODULE Limbs --------------------------------
(***************************************************************************)
(* The debounced status of a limb (limbs_status.cpp) and the choice of the  *)
(* persons a frame reports (pose_callback of pose.cpp).                     *)
(***************************************************************************)
EXTENDS Integers, Sequences, FiniteSets, SequencesExt

INVALID == -1          \* _LIMBS_INVALID_
Threshold == 3         \* samples before a status is believed

\* Limbs_status::reset_status and its constructor.
LimbReset == [current |-> INVALID, next |-> INVALID, count |-> 0]

\* Limbs_status::update_status.
LimbUpdate(l, s) ==
    LET n == IF l.next = s THEN l.count + 1 ELSE 1
    IN  IF n >= Threshold THEN [current |-> s, next |-> s, count |-> 0]
                          ELSE [current |-> l.current, next |-> s, count |-> n]

-----------------------------------------------------------------------------
\* pose_callback gives the faces of a frame, in order, to the persons whose
\* nose they contain: hit[f] is the set of persons whose nose is in face f.
\* The state is <<select_id, keep_id>>; the loop ends when select_id is empty.
MatchFace(st, hit) ==
    LET here == SelectSeq(st[1], LAMBDA i : i \in hit)
    IN  IF here = <<>> THEN st
        ELSE <<SelectSeq(st[1], LAMBDA i : i # Head(here)), Append(st[2], Head(here))>>

\* keep_id when the pose model has found `poses' persons (0-based): the matched
\* ones, else the first one, else, with faces and no person, the first face.
KeepIds(poses, hits) ==
    LET all == [i \in 1 .. poses |-> i - 1]
        kept == FoldLeft(MatchFace, <<all, <<>>>>, hits)[2]
    IN  IF poses # 0 /\ kept # <<>> THEN kept
        ELSE IF poses # 0 \/ hits # <<>> THEN <<0>> ELSE <<>>
=============================================================================
