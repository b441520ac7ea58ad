------------------------- MODULE MCSmartPhotoService -------------------------
(* Instances of SmartPhotoService for TLC. *)
EXTENDS SmartPhotoService

CONSTANTS n1, n2

RealpathId == [n \in Name |-> n]

RealpathLink == [n \in Name |-> n1]

AllCalls == CallName

AllMethods == Method
=============================================================================
