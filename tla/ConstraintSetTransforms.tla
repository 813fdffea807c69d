----------------------- MODULE ConstraintSetTransforms -----------------------
(***************************************************************************)
(* The remaining operations of ConstraintSet: intersection with a set (the *)
(* in-place ConstraintApplier and its copying variant), the transforms of  *)
(* all elements, alignment, range replacement and the queries.             *)
(***************************************************************************)
EXTENDS ConstraintSet, TLC

LOCAL INSTANCE SequencesExt

Null == [type |-> "Null", lower |-> 0, upper |-> 0]
SizeOrZero(c) == IF c = Null THEN 0 ELSE Size(c)

Interval(from, to) == [i \in 1 .. (to - from + 1) |-> from + i - 1]
Nulls(n) == [k \in 1 .. n |-> Null]

RECURSIVE SlotsSize(_)
SlotsSize(slots) == IF slots = <<>> THEN 0 ELSE Wrap(SizeOrZero(Head(slots)) + SlotsSize(Tail(slots)))

(* ConstraintApplier.  Kept objects are compacted towards the front of the *)
(* vector (ins is the next free slot); an object that may also meet the    *)
(* next applied Constraint stays where it is, and its intersection so far  *)
(* waits in last until a slot is free, or in delayed when there is none.   *)
Applier(s) ==
    [vec |-> s.vec, search |-> 1, ins |-> 1, last |-> Null, delayed |-> <<>>,
     overlap |-> FALSE, change |-> 0, fail |-> NoFailure]

InsertItem(a, c) == [a EXCEPT !.vec = Splice(@, a.ins, a.ins, <<c>>), !.ins = @ + 1]

TryInsertLastTailItem(a, gap) ==
    IF a.last = Null THEN a
    ELSE IF gap > 0
    THEN [InsertItem(a, a.last) EXCEPT
             !.change = Wrap(@ + SizeOrZero(a.vec[a.ins]) - Size(a.last)), !.last = Null]
    ELSE [a EXCEPT !.delayed = Append(@, [loc |-> a.ins, item |-> a.last]), !.last = Null]

CleanUpLeadingRange(a, first) ==
    LET gap == first - a.search
        b == TryInsertLastTailItem(a, gap)
        inserted == a.last # Null /\ gap > 0
        search == IF inserted /\ first - b.ins < gap THEN a.search + 1 ELSE a.search
    IN  [b EXCEPT !.vec = Splice(@, search, first - 1, Nulls(first - search)),
                  !.change = Wrap(@ + SizeOf(SubSeq(b.vec, search, first - 1)))]

(* ProcessTailItem, ProcessHeadItem and MoveMatchRange on the matching     *)
(* objects first .. end.                                                   *)
ProcessMatch(a, c, first, end) ==
    LET tailItem == a.vec[end]
        keep == tailItem.upper > c.upper /\ tailItem.upper - c.upper > 1
        tail == ApplyOne(tailItem, c)[1]
        InPlace(b, i) == LET r == ApplyOne(b.vec[i], c)[1]
                         IN  [b EXCEPT !.vec = Splice(@, i, i, <<r>>), !.change = Wrap(@ + Size(b.vec[i]) - Size(r))]
        a1 == IF keep THEN [a EXCEPT !.search = end]
              ELSE [InPlace(a, end) EXCEPT !.search = end + 1]
        a2 == IF end > first THEN InPlace(a1, first) ELSE a1
        placed == keep /\ end = first /\ a.ins < first
        a3 == IF placed THEN [InsertItem(a2, tail) EXCEPT !.change = Wrap(@ - Size(tail))] ELSE a2
        copied == IF keep THEN end - 1 ELSE end
        Move(b, k) == InsertItem([b EXCEPT !.vec = Splice(@, k, k, <<Null>>)], b.vec[k])
        a4 == IF a3.ins = first THEN [a3 EXCEPT !.ins = IF keep THEN end ELSE end + 1]
              ELSE FoldLeft(Move, a3, Interval(first, copied))
    IN  IF keep /\ ~placed THEN [a4 EXCEPT !.last = tail] ELSE a4

ApplyNext(a, c) ==
    LET first == LowerIndex(a.vec, a.search, c)
        end   == UpperIndex(a.vec, a.search, c) - 1
    IN  IF end < first THEN a
        ELSE ProcessMatch(CleanUpLeadingRange([a EXCEPT !.overlap = TRUE], first), c, first, end)

(* The delayed items go before the objects at their locations (the reverse *)
(* move of Finalize).                                                      *)
RECURSIVE WithDelayed(_, _, _)
WithDelayed(vec, delayed, k) ==
    IF k > Len(vec) THEN <<>>
    ELSE LET here == SelectSeq(delayed, LAMBDA d : d.loc = k)
         IN  [i \in DOMAIN here |-> here[i].item] \o <<vec[k]>> \o WithDelayed(vec, delayed, k + 1)

Finalize(a0) ==
    LET a == TryInsertLastTailItem(a0, Len(a0.vec) + 1 - a0.ins)
        rest == SubSeq(a.vec, a.ins, Len(a.vec))
        kept == SubSeq(a.vec, 1, a.ins - 1)
        items == [i \in DOMAIN a.delayed |-> a.delayed[i].item]
    IN  IF \E i, j \in DOMAIN rest : i < j /\ rest[i] # Null /\ rest[j] = Null
        THEN [a EXCEPT !.fail = "inconsistent-constraint-vector-tail"]
        ELSE IF \E i \in DOMAIN a.delayed : a.delayed[i].loc >= a.ins
        THEN [a EXCEPT !.fail = "final-insertion-error"]
        ELSE [a EXCEPT !.vec = WithDelayed(kept, a.delayed, 1),
                       !.change = Wrap(@ + SlotsSize(rest) - SizeOf(items))]

RECURSIVE ApplyAll(_, _, _, _)
ApplyAll(a, other, i, last) ==
    LET b == ApplyNext(a, other[i])
    IN  IF i > last THEN a
        ELSE IF b.search = Len(b.vec) + 1 THEN b
        ELSE ApplyAll(b, other, i + 1, last)

ApplyConstraintSet(s, other) ==
    LET bounds == RangeConstraint(LowerBound(s), UpperBound(s))
        a == ApplyAll(Applier(s), other.vec, LowerIndex(other.vec, 1, bounds), UpperIndex(other.vec, 1, bounds) - 1)
        f == Finalize(a)
    IN  IF IsEmpty(s) THEN s
        ELSE IF IsEmpty(other) THEN Fail(s, "applying-empty-constraint-set")
        ELSE IF Len(other.vec) = 1 THEN ApplyConstraint(s, other.vec[1])
        ELSE IF ~a.overlap THEN Empty
        ELSE [vec |-> f.vec, size |-> Wrap(s.size - f.change), fail |-> f.fail]

(* The copying variant: a merge walk over both vectors.                    *)
RECURSIVE Intersections(_, _, _, _)
Intersections(mine, other, i, j) ==
    IF i > Len(mine) \/ j > Len(other) THEN <<>>
    ELSE ApplyOne(mine[i], other[j]) \o
         (IF mine[i].upper < other[j].upper THEN Intersections(mine, other, i + 1, j)
          ELSE Intersections(mine, other, i, j + 1))

ApplyLargeConstraintSet(s, other) ==
    LET vec == Intersections(s.vec, other.vec, 1, LowerIndex(other.vec, 1, s.vec[1]))
    IN  IF IsEmpty(s) THEN s
        ELSE IF IsEmpty(other) THEN Fail(s, "applying-empty-constraint-set")
        ELSE Object(vec, SizeOf(vec))

CopyInRange(s, l, u) ==
    LET r == RangeConstraint(l, u)
        copy == SubSeq(s.vec, LowerIndex(s.vec, 1, r), UpperIndex(s.vec, 1, r) - 1)
        f == Finalize(ApplyNext(Applier(Object(copy, SizeOf(copy))), r))
    IN  IF copy = <<>> THEN Empty
        ELSE [vec |-> f.vec, size |-> Wrap(SizeOf(copy) - f.change), fail |-> f.fail]

-----------------------------------------------------------------------------
(* Transforms of all the elements.                                         *)
SubtractOne(c, k) ==
    LET l == Wrap(c.lower - k)
        u == Wrap(c.upper - k)
    IN  IF u < l THEN <<[c EXCEPT !.lower = 0, !.upper = u], RangeConstraint(l, MaxWord)>>
        ELSE <<[c EXCEPT !.lower = l, !.upper = u]>>

SubtractFromElements(s, k) ==
    [s EXCEPT !.vec = SortSeq(FlattenSeq([i \in DOMAIN s.vec |-> SubtractOne(s.vec[i], k)]),
                              LAMBDA a, b : a.upper < b.lower)]

NotElements(s) ==
    [s EXCEPT !.vec = Reverse([i \in DOMAIN s.vec |->
        [s.vec[i] EXCEPT !.lower = MaxWord - s.vec[i].upper, !.upper = MaxWord - s.vec[i].lower]])]

(* The elements of [l, u], shifted by the remainder of the factor-th       *)
(* overflow of the word, divided and shifted back.                         *)
AddDividedElementConstraint_RoundsDown(s, l, u, d, factor) ==
    LET shift == (WordCount \div d) * factor
    IN  AddRange(s, Wrap((l \div d) + shift), Wrap((u \div d) + shift))
AddDividedElementConstraint(s, l, u, d, factor) ==
    LET shift == (WordCount \div d) * factor
        low  == Wrap((l \div d) + shift + (IF l % d # 0 THEN 1 ELSE 0))
        high == Wrap((u \div d) + shift)
    IN  IF low <= high THEN AddRange(s, low, high) ELSE s

DivideOne(s, c, d, factor) ==
    LET l == Wrap(c.lower + (WordCount % d) * factor)
        u == Wrap(c.upper + (WordCount % d) * factor)
    IN  IF c.type = "Value"
        THEN IF l % d = 0 THEN AddRange(s, Wrap(l \div d + (WordCount \div d) * factor),
                                           Wrap(l \div d + (WordCount \div d) * factor))
             ELSE s
        ELSE IF u < l
        THEN AddDividedElementConstraint(AddDividedElementConstraint(s, 0, u, d, factor), l, MaxWord, d, factor)
        ELSE AddDividedElementConstraint(s, l, u, d, factor)

DivideElements(s, d, factors) ==
    LET DivideAll(acc, factor) == FoldLeft(LAMBDA t, c : DivideOne(t, c, d, factor), acc, s.vec)
        r == FoldLeft(DivideAll, Empty, factors)
    IN  IF IsEmpty(s) THEN s
        ELSE IF d = 0 THEN Fail(s, "divide-by-zero")
        ELSE Object(r.vec, SizeOf(r.vec))

DivideElementsWithFactorRange(s, d, from, to) == DivideElements(s, d, Interval(from, to))
DivideElementsWithFactorRangeUnionedWithZero(s, d, from, to) ==
    DivideElements(s, d, <<0>> \o Interval(from, to))

(* A range whose last aligned step passes the end of the word never leaves *)
(* the loop.                                                               *)
Endless(c, a) == c.type = "Range" /\ AlignDown(c.upper, a) >= c.lower /\ AlignDown(c.upper, a) + a > MaxWord
AlignedIn(c, a) ==
    LET low == IF AlignDown(c.lower, a) < c.lower THEN AlignDown(c.lower, a) + a ELSE c.lower
    IN  IF c.type = "Value"
        THEN IF AlignDown(c.lower, a) = c.lower THEN <<c>> ELSE <<>>
        ELSE IF AlignDown(c.upper, a) < c.lower THEN <<>>
        ELSE [i \in 1 .. ((c.upper - low) \div a) + 1 |-> ValueConstraint(low + (i - 1) * a)]

FilterAlignedElements(s, a) ==
    LET vec == FlattenSeq([i \in DOMAIN s.vec |-> AlignedIn(s.vec[i], a)])
    IN  IF IsEmpty(s) \/ a = 1 THEN s
        ELSE IF \E i \in DOMAIN s.vec : Endless(s.vec[i], a) THEN Fail(s, "never-returns")
        ELSE Object(vec, SizeOf(vec))

(* ConstraintTrimmer: every object on its own.                             *)
Trim(s, vec) == [s EXCEPT !.vec = vec, !.size = Wrap(@ - SizeOf(s.vec) + SizeOf(vec))]

AlignWithSize(s, a, size) ==
    Trim(s, FlattenSeq([i \in DOMAIN s.vec |-> AlignWithSizeOne(s.vec[i], a, size)]))
AlignStepWithSize(s, step, offset, size) ==
    Trim(s, FlattenSeq([i \in DOMAIN s.vec |-> AlignStepWithSizeOne(s.vec[i], step, offset, size)]))
ShiftRight(s, shift) == Trim(s, [i \in DOMAIN s.vec |-> ShiftRightOne(s.vec[i], shift)])
Translate(s, pageSize, frame) ==
    [s EXCEPT !.vec = [i \in DOMAIN s.vec |-> TranslateOne(s.vec[i], pageSize, frame)]]

(* The page numbers the set touches; neighbours are merged.                *)
AlignWithPage(s, shift) ==
    LET Add(vec, c) == LET n == Len(vec)
                       IN  IF n > 0 /\ Touches(vec[n], c) THEN [vec EXCEPT ![n] = MergeNext(@, c)]
                           ELSE Append(vec, c)
    IN  Trim(s, FoldLeft(Add, <<>>, [i \in DOMAIN s.vec |-> AlignWithPageOne(s.vec[i], shift)]))

(* The objects that meet [l, u] give way to what rep holds; what they have *)
(* outside the range is merged into rep first.  CopyBlocksToTarget does    *)
(* not shrink the vector when no object follows the range: the slots that  *)
(* rep does not fill keep the nullptr of DeleteEqualRange.                 *)
ReplaceInRange(s, l, u, rep) ==
    LET r == RangeConstraint(l, u)
        first == LowerIndex(s.vec, 1, r)
        last  == UpperIndex(s.vec, 1, r) - 1
        a == SubOne(s.vec[first], r)
        b == SubOne(s.vec[last], r)
        outside == IF first = last THEN a.head \o a.tail ELSE a.head \o b.head
        with == FoldLeft(MergeConstraint, rep, outside)
        unfilled == IF last = Len(s.vec) THEN Nulls(last - first + 1 - Len(with.vec)) ELSE <<>>
    IN  IF IsEmpty(s) THEN Fail(s, "unexpected-empty-constraint-set")
        ELSE IF IsEmpty(rep) THEN Fail(s, "unexpected-empty-replace-constraint-set")
        ELSE IF LowerBound(rep) < l \/ UpperBound(rep) > u
        THEN Fail(s, "replacement-constraint-set-out-of-bound")
        ELSE IF last < first THEN Fail(s, "expecting-constraints-in-range")
        ELSE [s EXCEPT !.vec = Splice(@, first, last, with.vec \o unfilled),
                       !.size = Wrap(@ + with.size - SizeOf(SubSeq(s.vec, first, last)))]

-----------------------------------------------------------------------------
(* Queries.                                                                *)
ContainsConstraint(s, c) ==
    LET first == LowerIndex(s.vec, 1, c)
    IN  first < UpperIndex(s.vec, 1, c) /\ ContainsOne(s.vec[first], c)

ContainsRange(s, l, u) ==
    IF l = u THEN LowerIndex(s.vec, 1, ValueConstraint(l)) < UpperIndex(s.vec, 1, ValueConstraint(l))
    ELSE ContainsConstraint(s, RangeConstraint(Least(l, u), Greatest(l, u)))

RECURSIVE ContainsFrom(_, _, _, _)
ContainsFrom(mine, start, other, j) ==
    LET i == LowerIndex(mine, start, other[j])
    IN  \/ j > Len(other)
        \/ i <= Len(mine) /\ ContainsOne(mine[i], other[j]) /\ ContainsFrom(mine, i, other, j + 1)

ContainsConstraintSet(s, other) == ContainsFrom(s.vec, 1, other.vec, 1)

(* Each vector in turn seeks the first object of the other not below its   *)
(* current one.                                                            *)
RECURSIVE Seek(_, _, _, _)
Seek(v, i, w, j) ==
    LET k == LowerIndex(w, j, v[i])
    IN  k <= Len(w) /\ (IntersectsOne(v[i], w[k]) \/ (i < Len(v) /\ Seek(w, k, v, i + 1)))

Intersects(s, other) == ~IsEmpty(s) /\ ~IsEmpty(other) /\ Seek(s.vec, 1, other.vec, 1)

LeadingIntersectingRange(s, l, u) ==
    LET i == LowerIndex(s.vec, 1, RangeConstraint(l, u))
    IN  IF i <= Len(s.vec) /\ s.vec[i].lower <= u THEN ApplyOne(s.vec[i], RangeConstraint(l, u)) ELSE <<>>

GetAlignedSizeFromBottom(s, a, size) ==
    LET fits == FlattenSeq([i \in DOMAIN s.vec |-> FromBottomOne(s.vec[i], a, size)])
    IN  IF fits = <<>> THEN <<>> ELSE <<Head(fits)>>
GetAlignedSizeFromTop(s, a, size) ==
    LET fits == FlattenSeq([i \in DOMAIN s.vec |-> FromTopOne(s.vec[i], a, size)])
    IN  IF fits = <<>> THEN <<>> ELSE <<fits[Len(fits)]>>

(* ChooseValue for the random offset it drew, counted from the nearer end; *)
(* <<>> where it FAILs.                                                    *)
ChosenValueOf(c, offset) ==
    LET v == Wrap(c.lower + offset)
    IN  IF c.type = "Value" THEN (IF offset = 0 THEN <<c.lower>> ELSE <<>>)
        ELSE IF v > c.upper \/ v < c.lower THEN <<>> ELSE <<v>>

RECURSIVE ChosenValueFromFront(_, _)
ChosenValueFromFront(vec, offset) ==
    IF vec = <<>> THEN <<>>
    ELSE IF offset < Size(Head(vec)) THEN ChosenValueOf(Head(vec), offset)
    ELSE ChosenValueFromFront(Tail(vec), offset - Size(Head(vec)))

RECURSIVE ChosenValueFromBack(_, _, _)
ChosenValueFromBack(vec, offset, lookup) ==
    IF vec = <<>> THEN <<>>
    ELSE LET c == vec[Len(vec)]
             below == Wrap(lookup - Size(c))
         IN  IF offset >= below THEN ChosenValueOf(c, offset - below)
             ELSE ChosenValueFromBack(SubSeq(vec, 1, Len(vec) - 1), offset, below)

ChooseValue_FromBackByTotal(s, offset) ==
    LET total == CalculateSize(s)
    IN  IF offset > total \div 2 THEN ChosenValueFromBack(s.vec, offset, total + 1)
        ELSE ChosenValueFromFront(s.vec, offset)
ChooseValue(s, offset) ==
    LET total == CalculateSize(s)
    IN  IF offset > total \div 2 THEN ChosenValueFromBack(s.vec, offset, total)
        ELSE ChosenValueFromFront(s.vec, offset)
Offsets(s) == 0 .. Wrap(CalculateSize(s) - 1)
=============================================================================
