------------------------------- MODULE Filters -------------------------------
(***************************************************************************)
(* Array.prototype.filter, as the forms and the command palette use it.    *)
(* SelectSeq takes an operator, about which the provers can know nothing;  *)
(* a set says as well what a filter lets pass.                             *)
(***************************************************************************)
EXTENDS Naturals, Sequences

Keep(s, S) ==
    LET kept[i \in 0..Len(s)] ==
            IF i = 0 THEN <<>>
            ELSE IF s[i] \in S THEN Append(kept[i - 1], s[i]) ELSE kept[i - 1]
    IN  kept[Len(s)]

=============================================================================
