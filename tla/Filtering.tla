------------------------------ MODULE Filtering ------------------------------
(***************************************************************************)
(* The part of a sequence that a list comprehension or a WHERE clause      *)
(* keeps: SelectSeq, with the elements that pass as a set.                 *)
(***************************************************************************)
EXTENDS Integers, Sequences

Where(s, S) ==
    LET kept[n \in 0 .. Len(s)] ==
            IF n = 0 THEN <<>>
            ELSE IF s[n] \in S THEN Append(kept[n - 1], s[n]) ELSE kept[n - 1]
    IN  kept[Len(s)]
=============================================================================
