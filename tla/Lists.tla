-------------------------------- MODULE Lists --------------------------------
(***************************************************************************)
(* Lists and a part of them, for the components that filter one: what      *)
(* their loops skip is said where Only is used.                            *)
(***************************************************************************)
EXTENDS Integers, Sequences

\* The elements of list that are in part, in their order.
Only(list, part) ==
    LET some[n \in 0..Len(list)] ==
            IF n = 0 THEN << >>
            ELSE IF list[n] \in part THEN Append(some[n - 1], list[n]) ELSE some[n - 1]
    IN  some[Len(list)]
=============================================================================
