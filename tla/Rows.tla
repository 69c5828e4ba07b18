--------------------------------- MODULE Rows ---------------------------------
(***************************************************************************)
(* What a query returns: its rows in the order of ORDER BY, up to LIMIT.   *)
(***************************************************************************)
EXTENDS Naturals, Sequences, FiniteSets

(* "earlier" holds the pairs of which the first comes before the second:   *)
(* at place i stands the row that i - 1 others come before.                *)
OrderBy(rows, earlier) ==
    [i \in 1..Cardinality(rows) |->
        CHOOSE row \in rows : Cardinality({r \in rows : <<r, row>> \in earlier}) = i - 1]

FirstOf(seq, n) == SubSeq(seq, 1, IF n < Len(seq) THEN n ELSE Len(seq))
===============================================================================
