----------------------------- MODULE Constraint -----------------------------
(***************************************************************************)
(* One Constraint object of the generator: a single value (ValueConstraint)*)
(* or a contiguous range of values (RangeConstraint) of an unsigned        *)
(* machine word.  A ConstraintSet is a vector of such objects; its         *)
(* operations are in ConstraintSet.tla.                                    *)
(*                                                                         *)
(* The word has WordWidth bits (64 in the program) and its arithmetic      *)
(* wraps.  An align mask of the code, ~(a - 1), is given here by the power *)
(* of two a.                                                               *)
(***************************************************************************)
EXTENDS Integers, Sequences, FiniteSets

CONSTANT WordWidth

ASSUME WordWidthAssumption == WordWidth \in Nat \ {0}

WordCount == 2 ^ WordWidth
MaxWord == WordCount - 1
Word == 0 .. MaxWord

Wrap(n) == n % WordCount

ValueConstraint(v) == [type |-> "Value", lower |-> v, upper |-> v]
RangeConstraint(l, u) == [type |-> "Range", lower |-> l, upper |-> u]

(* What the code builds from two bounds when it tells the two classes      *)
(* apart.                                                                  *)
ConstraintOf(l, u) == IF l = u THEN ValueConstraint(l) ELSE RangeConstraint(l, u)

Least(a, b) == IF a <= b THEN a ELSE b
Greatest(a, b) == IF a >= b THEN a ELSE b

Size(c) == IF c.type = "Value" THEN 1 ELSE Wrap(c.upper - c.lower + 1)

(* The values a constraint stands for.                                     *)
ValuesOf(c) == c.lower .. c.upper

CanonicalConstraint(c) == c.lower <= c.upper /\ (c.type = "Value" <=> c.lower = c.upper)

AlignDown(x, a) == (x \div a) * a

-----------------------------------------------------------------------------
(* Merging: the two objects overlap or are neighbours.                     *)
MergeInto(t, o) ==
    LET l == Least(t.lower, o.lower)
        u == Greatest(t.upper, o.upper)
    IN  IF t.type = "Value" /\ o.type = "Value" /\ l = u THEN t ELSE RangeConstraint(l, u)

(* o starts at or above the upper bound of t: merged when they touch.      *)
Touches(t, o) == Wrap(o.lower - t.upper) <= 1
MergeNext(t, o) ==
    IF t.type = "Value" /\ o.type = "Value" /\ o.lower = t.lower
    THEN t
    ELSE RangeConstraint(t.lower, o.upper)

(* Subtraction of an overlapping object: what is left below and above the  *)
(* subtrahend, and by how much the size shrinks.  A range that comes out   *)
(* with equal bounds is replaced by a value, even one that was to be       *)
(* removed.                                                                *)
SubOne(c, o) ==
    LET Left(l, u, tail, change) ==
            [head |-> <<ConstraintOf(l, u)>>, tail |-> tail, change |-> change]
        Tail_(l) == <<ConstraintOf(l, c.upper)>>
        gone == [head |-> IF c.type = "Range" /\ c.lower = c.upper
                          THEN <<ValueConstraint(c.lower)>> ELSE <<>>,
                 tail |-> <<>>, change |-> Size(c)]
    IN  IF c.type = "Value" THEN gone
        ELSE IF o.type = "Value" THEN
            IF o.lower = c.lower THEN Left(Wrap(c.lower + 1), c.upper, <<>>, 1)
            ELSE IF o.lower = c.upper THEN Left(c.lower, Wrap(c.upper - 1), <<>>, 1)
            ELSE Left(c.lower, o.lower - 1, Tail_(o.lower + 1), 1)
        ELSE IF o.lower <= c.lower THEN
            IF o.upper < c.upper
            THEN Left(o.upper + 1, c.upper, <<>>, Wrap(o.upper + 1 - c.lower))
            ELSE gone
        ELSE IF o.upper < c.upper
            THEN Left(c.lower, o.lower - 1, Tail_(o.upper + 1), Wrap(o.upper - o.lower + 1))
            ELSE Left(c.lower, o.lower - 1, <<>>, Wrap(c.upper - o.lower + 1))

(* Intersection: ApplyConstraint in place, or GetIntersection into a new   *)
(* object; <<>> when nothing is left.                                      *)
ApplyOne(c, o) ==
    LET l == Greatest(c.lower, o.lower)
        u == Least(c.upper, o.upper)
    IN  IF l <= u THEN <<ConstraintOf(l, u)>> ELSE <<>>

ContainsOne(c, o) ==
    IF c.type = "Value" THEN o.type = "Value" /\ o.lower = c.lower
    ELSE c.lower <= o.lower /\ o.upper <= c.upper

IntersectsOne(c, o) == c.lower <= o.upper /\ o.lower <= c.upper

-----------------------------------------------------------------------------
(* Alignment.  The results are sequences: empty when the object is removed.*)
AlignWithSizeOne_IgnoresSize(c, a, size) ==
    LET low == AlignDown(c.lower + a - 1, a)
    IN  IF low > c.upper THEN <<>> ELSE <<ConstraintOf(low, AlignDown(c.upper, a))>>
AlignWithSizeOne(c, a, size) ==
    IF c.type = "Value"
    THEN IF size > 1 \/ AlignDown(c.lower, a) # c.lower THEN <<>> ELSE <<c>>
    ELSE LET down == AlignDown(c.lower, a)
             low  == IF down < c.lower THEN Wrap(down + a) ELSE down
         IN  IF low > c.upper \/ low < c.lower \/ Wrap(c.upper - low + 1) < size
             THEN <<>>
             ELSE <<ConstraintOf(low, AlignDown(Wrap(c.upper - (size - 1)), a))>>

(* AlignOffsetWithSize and AlignMulDataWithSize are the same computation,  *)
(* with a power of two and with any step.                                  *)
AlignStepWithSizeOne(c, step, offset, size) ==
    IF c.type = "Value"
    THEN IF size > 1 \/ c.lower % step # offset THEN <<>> ELSE <<c>>
    ELSE LET l0  == Wrap(AlignDown(c.lower, step) + offset)
             low == IF l0 < c.lower THEN Wrap(l0 + step) ELSE l0
             u0  == Wrap(AlignDown(c.upper, step) + offset)
             excess  == Wrap(u0 - c.upper + (size - 1))
             down    == AlignDown(excess, step)
             aligned == IF down # excess THEN Wrap(down + step) ELSE down
             high == u0 - aligned
         IN  IF low < c.lower \/ aligned > u0 \/ low > high
             THEN <<>>
             ELSE <<ConstraintOf(low, high)>>

ShiftRightOne(c, shift) ==
    [c EXCEPT !.lower = @ \div 2 ^ shift, !.upper = @ \div 2 ^ shift]

(* The page numbers the object touches: inflated to whole pages, shifted.  *)
AlignWithPageOne(c, shift) ==
    LET a == 2 ^ shift
        offset == IF c.type = "Value" THEN 0 ELSE a - 1
    IN  ShiftRightOne([c EXCEPT !.lower = AlignDown(@, a), !.upper = AlignDown(@, a) + offset], shift)

(* The offset within the page is kept, the frame replaced.                 *)
TranslateOne(c, pageSize, frame) ==
    [c EXCEPT !.lower = (@ % pageSize) + frame, !.upper = (@ % pageSize) + frame]

(* First fit from the bottom and from the top; <<>> without a match.       *)
FromBottomOne(c, a, size) ==
    IF c.type = "Value"
    THEN IF size = 1 /\ AlignDown(c.lower, a) = c.lower THEN <<c.lower>> ELSE <<>>
    ELSE LET down == AlignDown(c.lower, a)
             low  == IF down < c.lower THEN Wrap(down + a) ELSE down
         IN  IF Size(c) < size \/ low > c.upper \/ Wrap(c.upper - low + 1) < size
             THEN <<>>
             ELSE <<low>>

FromTopOne(c, a, size) ==
    IF c.type = "Value"
    THEN IF size = 1 /\ AlignDown(c.lower, a) = c.lower THEN <<c.lower>> ELSE <<>>
    ELSE LET low == AlignDown(Wrap(c.upper - (size - 1)), a)
         IN  IF Size(c) < size \/ low < c.lower THEN <<>> ELSE <<low>>
=============================================================================
