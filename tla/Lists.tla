--------------------------------- MODULE Lists ---------------------------------
(***************************************************************************)
(* The list comprehension [x for x in s if x in T].                        *)
(***************************************************************************)
EXTENDS Naturals, Sequences

Select(s, T) ==
    LET sel[i \in 0..Len(s)] ==
            IF i = 0 THEN <<>>
            ELSE IF s[i] \in T THEN Append(sel[i - 1], s[i]) ELSE sel[i - 1]
    IN  sel[Len(s)]
================================================================================
