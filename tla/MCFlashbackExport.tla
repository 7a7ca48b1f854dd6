------------------------- MODULE MCFlashbackExport -------------------------
EXTENDS FlashbackExport

\* Whole and inner selections split and join ranges, the third overlaps.
Nested == {[from |-> 0, to |-> 3], [from |-> 1, to |-> 2], [from |-> 0, to |-> 2]}

\* Up to three ranges in a text of four offsets, empty, overlapping, touching
\* and in any order.
Spans == [from : 0 .. 4, to : 0 .. 4]
ShortRanges ==
    UNION {{[i \in 1 .. n |-> [id |-> i, from |-> f[i].from, to |-> f[i].to]] :
               f \in [1 .. n -> Spans]} : n \in 0 .. 3}

ASSUME TogglesAreRight == TogglesJustTheSelection(ShortRanges)
=============================================================================
