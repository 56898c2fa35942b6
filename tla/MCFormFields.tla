---------------------------- MODULE MCFormFields ----------------------------
(***************************************************************************)
(* Values for TLC: each content type is edited where it differs from the   *)
(* others, since the lists, boxes and zones work alike in all three.       *)
(***************************************************************************)
EXTENDS FormFields

EditedParts == [error_guide |-> {{"causes", "texts", "flags"},
                                 {"causes", "screenshots", "vision"}},
                procedure   |-> {{"steps"}, {"fields"}},
                config      |-> {{"rows"}, {"groups", "fields"}}]
=============================================================================
