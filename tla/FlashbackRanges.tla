--------------------------- MODULE FlashbackRanges ---------------------------
(***************************************************************************)
(* The ranges of the Flashbacks of a variant, as the toggle computes them:  *)
(* a sequence of records with an id and the offsets where a Flashback       *)
(* starts and ends, and the coverage that defines what they mean.           *)
(***************************************************************************)
EXTENDS Integers, Sequences, FiniteSetsExt, SequencesExt

\* The offsets a list of ranges covers.
Coverage(ranges) == UNION {r.from .. r.to - 1 : r \in ToSet(ranges)}

\* An id that none of the ranges has; randomUUID.
Ids(ranges) == {r.id : r \in ToSet(ranges)}
GenerateId(ranges) == CHOOSE id \in 1 .. Len(ranges) + 1 : id \notin Ids(ranges)

\* Those without any text are left out.  Ranges that start together stay in
\* the order they had.
SortRanges(ranges) ==
    LET Starting(k) == SelectSeq(ranges, LAMBDA r : r.from = k /\ r.to > k)
        starts == {r.from : r \in ToSet(ranges)}
        upTo[n \in Nat] == IF n = 0 THEN <<>> ELSE upTo[n - 1] \o Starting(n - 1)
    IN  IF ranges = <<>> THEN <<>> ELSE upTo[Max(starts) + 1]

\* A cursor moves over the ranges; the selection is covered when no gap stops
\* it before the end.
IsRangeFullyFlashbacked(ranges, selection) ==
    LET sorted == SortRanges(ranges)
        cursor[i \in 0 .. Len(sorted)] ==
          IF i = 0 THEN selection.from
          ELSE LET at == cursor[i - 1]
               IN  IF sorted[i].from > at THEN at ELSE Max({at, sorted[i].to})
    IN  cursor[Len(sorted)] >= selection.to

\* The selection joins the ranges; those that overlap or touch become one, and
\* one that contains the selection gets its id.
AddFlashbackCoverage(ranges, selection) ==
    LET new == [id |-> GenerateId(ranges), from |-> selection.from, to |-> selection.to]
        all == SortRanges(ranges \o <<new>>)
        Joined(previous, r) ==
          [previous EXCEPT !.to = Max({previous.to, r.to}),
                           !.id = IF r.id = new.id THEN new.id ELSE previous.id]
        merged[i \in 0 .. Len(all)] ==
          IF i = 0 THEN <<>>
          ELSE LET before == merged[i - 1]
               IN  IF before = <<>> \/ all[i].from > Last(before).to THEN Append(before, all[i])
                   ELSE Append(Front(before), Joined(Last(before), all[i]))
    IN  merged[Len(all)]

\* What the selection overlaps is cut away.  A range it splits keeps its id on
\* the left; of ranges apart, it splits one at most.
RemoveFlashbackCoverage(ranges, selection) ==
    LET sorted == SortRanges(ranges)
        Rest(r) ==
          IF r.to <= selection.from \/ r.from >= selection.to THEN <<r>>
          ELSE LET left == [r EXCEPT !.to = Min({r.to, selection.from})]
                   hasLeft == left.from < left.to
                   right == [r EXCEPT !.from = Max({r.from, selection.to}),
                                      !.id = IF hasLeft THEN GenerateId(ranges) ELSE r.id]
               IN  SelectSeq(<<left, right>>, LAMBDA part : part.from < part.to)
    IN  FlattenSeq([i \in 1 .. Len(sorted) |-> Rest(sorted[i])])
=============================================================================
