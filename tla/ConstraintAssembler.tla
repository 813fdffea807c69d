------------------------- MODULE ConstraintAssembler -------------------------
(***************************************************************************)
(* The in-place rebuilding of a ConstraintSet's vector                     *)
(* (ConstraintSetAssembler).  A binary operation leaves a list of blocks:  *)
(* a "move" block is a slice of the old vector, an "insert" block brings   *)
(* new objects (the code's CloneConstraintBlock and InsertConstraintBlock).*)
(* The assembler lays the blocks out one after the other in the same       *)
(* vector.  It works from the front while there is room (Shrink) and, when *)
(* an inserted block would run over a slice not yet moved, pushes two new  *)
(* placements and works that part from its end (Expand), and conversely.   *)
(*                                                                         *)
(* Locations and indices start from 1.  A memmove leaves the old slots as  *)
(* they were; an object overwritten before it is moved is lost for good.   *)
(***************************************************************************)
EXTENDS Constraint

NoFailure == "none"

MoveBlock(start, end) == [kind |-> "move", start |-> start, end |-> end, items |-> <<>>]
InsertBlock(items) == [kind |-> "insert", start |-> 0, end |-> 0, items |-> items]

BlockSize(b) == IF b.kind = "move" THEN b.end - b.start ELSE Len(b.items)

RECURSIVE TotalBlockSize(_)
TotalBlockSize(blocks) ==
    IF blocks = <<>> THEN 0 ELSE BlockSize(Head(blocks)) + TotalBlockSize(Tail(blocks))

BlockItems(b, vec) == IF b.kind = "move" THEN SubSeq(vec, b.start, b.end - 1) ELSE b.items

Put(vec, loc, items) ==
    SubSeq(vec, 1, loc - 1) \o items \o SubSeq(vec, loc + Len(items), Len(vec))

Placement(lo, hi, lower, upper, direction) ==
    [lo |-> lo, hi |-> hi, lower |-> lower, upper |-> upper, direction |-> direction]

Failed(st, reason) == [st EXCEPT !.fail = reason, !.stack = <<>>]

(* Whether an insert block fits before the next block, or after the        *)
(* previous one.                                                           *)
ShrinkInsertionOkay_OffByOne(blocks, pl, i, loc) ==
    loc + BlockSize(blocks[i]) - 1 <= (IF i = pl.hi THEN pl.upper + 1 ELSE blocks[i + 1].start)
ShrinkInsertionOkay(blocks, pl, i, loc) ==
    loc + BlockSize(blocks[i]) - 1 < (IF i = pl.hi THEN pl.upper + 1 ELSE blocks[i + 1].start)

ExpandInsertionOkay(blocks, pl, i, loc) ==
    loc - (BlockSize(blocks[i]) - 1) >= (IF i = pl.lo THEN pl.lower ELSE blocks[i - 1].end)

(* How far the free space for a block that does not fit reaches, and the   *)
(* last block that moves into it.                                          *)
RECURSIVE SeekShrinkingSpace(_, _, _, _, _)
SeekShrinkingSpace(blocks, pl, i, last, remaining) ==
    IF i > pl.hi
    THEN [found |-> pl.upper - last + 1 = remaining, index |-> pl.hi, loc |-> pl.upper]
    ELSE LET b == blocks[i]
         IN  IF b.kind = "insert"
             THEN SeekShrinkingSpace(blocks, pl, i + 1, last, remaining + Len(b.items))
             ELSE IF b.start < last
             THEN [found |-> FALSE, index |-> i, loc |-> last]
             ELSE IF b.start - last >= remaining
             THEN [found |-> TRUE, index |-> i - 1, loc |-> last + remaining - 1]
             ELSE SeekShrinkingSpace(blocks, pl, i + 1, b.end, remaining - (b.start - last))

RECURSIVE SeekExpandingSpace(_, _, _, _, _)
SeekExpandingSpace(blocks, pl, i, last, remaining) ==
    IF i < pl.lo
    THEN [found |-> last - pl.lower + 1 = remaining, index |-> pl.lo, loc |-> pl.lower]
    ELSE LET b == blocks[i]
         IN  IF b.kind = "insert"
             THEN SeekExpandingSpace(blocks, pl, i - 1, last, remaining + Len(b.items))
             ELSE IF b.end - 1 > last
             THEN [found |-> FALSE, index |-> i, loc |-> last]
             ELSE IF last - (b.end - 1) >= remaining
             THEN [found |-> TRUE, index |-> i + 1, loc |-> last - (remaining - 1)]
             ELSE SeekExpandingSpace(blocks, pl, i - 1, b.start - 1, remaining - (last - (b.end - 1)))

(* Blocks i .. pl.hi from location loc upwards.                            *)
RECURSIVE ShrinkPlaceConstraints(_, _, _, _, _)
ShrinkPlaceConstraints(st, blocks, pl, i, loc) ==
    IF i > pl.hi THEN st
    ELSE
    LET b    == blocks[i]
        size == BlockSize(b)
    IN
    IF b.kind = "insert" /\ i < pl.hi /\ blocks[i + 1].kind = "insert"
    THEN Failed(st, "in-place-start-not-implemented")
    ELSE IF b.kind = "move" \/ ShrinkInsertionOkay(blocks, pl, i, loc)
    THEN ShrinkPlaceConstraints([st EXCEPT !.vec = Put(@, loc, BlockItems(b, @))], blocks, pl, i + 1, loc + size)
    ELSE LET s == SeekShrinkingSpace(blocks, pl, i + 1, loc, size)
             expand == Placement(i, s.index, loc, s.loc, "Expand")
         IN  IF ~s.found THEN Failed(st, "no-space-to-insert-while-shrinking")
             ELSE IF s.loc >= pl.upper THEN [st EXCEPT !.stack = <<expand>> \o @]
             ELSE IF s.index >= pl.hi
             THEN Failed(st, "upper-index-should-be-less-than-original-placement")
             ELSE [st EXCEPT !.stack =
                      <<expand, Placement(s.index + 1, pl.hi, s.loc + 1, pl.upper, "Shrink")>> \o @]

(* Blocks i, i - 1, .., pl.lo from location loc downwards.                 *)
RECURSIVE ExpandPlaceConstraints(_, _, _, _, _)
ExpandPlaceConstraints(st, blocks, pl, i, loc) ==
    IF i < pl.lo THEN st
    ELSE
    LET b    == blocks[i]
        size == BlockSize(b)
    IN
    IF b.kind = "insert" /\ i > pl.lo /\ blocks[i - 1].kind = "insert"
    THEN Failed(st, "in-place-end-not-implemented")
    ELSE IF b.kind = "move" \/ ExpandInsertionOkay(blocks, pl, i, loc)
    THEN ExpandPlaceConstraints([st EXCEPT !.vec = Put(@, loc - (size - 1), BlockItems(b, @))],
                                blocks, pl, i - 1, loc - size)
    ELSE LET s == SeekExpandingSpace(blocks, pl, i - 1, loc, size)
             shrink == Placement(s.index, i, s.loc, loc, "Shrink")
         IN  IF ~s.found THEN Failed(st, "no-space-to-insert-while-expanding")
             ELSE IF s.loc <= pl.lower THEN [st EXCEPT !.stack = <<shrink>> \o @]
             ELSE IF s.index <= pl.lo
             THEN Failed(st, "lower-index-should-be-larger-than-original-placement")
             ELSE [st EXCEPT !.stack =
                      <<shrink, Placement(pl.lo, s.index - 1, pl.lower, s.loc - 1, "Expand")>> \o @]

RECURSIVE PlaceConstraints(_, _)
PlaceConstraints(st, blocks) ==
    IF st.stack = <<>> THEN st
    ELSE LET pl   == Head(st.stack)
             rest == [st EXCEPT !.stack = Tail(@)]
         IN  PlaceConstraints(IF pl.direction = "Shrink"
                              THEN ShrinkPlaceConstraints(rest, blocks, pl, pl.lo, pl.lower)
                              ELSE ExpandPlaceConstraints(rest, blocks, pl, pl.hi, pl.upper),
                              blocks)

RECURSIVE AppendBlocks(_, _)
AppendBlocks(vec, blocks) ==
    IF blocks = <<>> THEN <<>>
    ELSE BlockItems(Head(blocks), vec) \o AppendBlocks(vec, Tail(blocks))

(* enough: whether the vector's capacity suffices when it has to grow.     *)
Assemble(vec, blocks, enough) ==
    LET newSize == TotalBlockSize(blocks)
        whole(direction) == <<Placement(1, Len(blocks), 1, newSize, direction)>>
        grown == [k \in 1 .. newSize |-> IF k <= Len(vec) THEN vec[k] ELSE ValueConstraint(0)]
    IN  IF newSize = 0 THEN [vec |-> <<>>, stack |-> <<>>, fail |-> NoFailure]
        ELSE IF newSize <= Len(vec)
        THEN LET st == PlaceConstraints([vec |-> vec, stack |-> whole("Shrink"), fail |-> NoFailure], blocks)
             IN  [st EXCEPT !.vec = SubSeq(@, 1, newSize)]
        ELSE IF enough
        THEN PlaceConstraints([vec |-> grown, stack |-> whole("Expand"), fail |-> NoFailure], blocks)
        ELSE [vec |-> AppendBlocks(vec, blocks), stack |-> <<>>, fail |-> NoFailure]
=============================================================================
