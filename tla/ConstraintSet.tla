---------------------------- MODULE ConstraintSet ----------------------------
(***************************************************************************)
(* ConstraintSet: a set of machine words kept as a sorted vector of        *)
(* Constraint objects together with a running count mSize of its values    *)
(* (modulo the word, so that the full set has size 0).  The sets of free   *)
(* memory, of usable addresses, of operand choices and of page numbers of  *)
(* the generator are all ConstraintSets.                                   *)
(*                                                                         *)
(* An object is a record [vec, size, fail]; an operation is an operator    *)
(* from the object to the object the call leaves.  fail is the reason of   *)
(* the FAIL that ends the process, or NoFailure.                           *)
(***************************************************************************)
EXTENDS ConstraintAssembler

Object(vec, size) == [vec |-> vec, size |-> Wrap(size), fail |-> NoFailure]
Empty == Object(<<>>, 0)
Fail(s, reason) == [s EXCEPT !.fail = reason]

IsEmpty(s) == s.vec = <<>>
LowerBound(s) == s.vec[1].lower
UpperBound(s) == s.vec[Len(s.vec)].upper

(* The set of words the object stands for.                                 *)
Values(s) == UNION {ValuesOf(s.vec[i]) : i \in DOMAIN s.vec}

RECURSIVE SizeOf(_)
SizeOf(vec) == IF vec = <<>> THEN 0 ELSE Wrap(Size(Head(vec)) + SizeOf(Tail(vec)))

CalculateSize(s) == SizeOf(s.vec)

(* std::lower_bound and std::upper_bound with compare_constraints, from    *)
(* index from on; Len(vec) + 1 stands for end().                           *)
LowerIndex(vec, from, c) == from + Cardinality({i \in from .. Len(vec) : vec[i].upper < c.lower})
UpperIndex(vec, from, c) == from + Cardinality({i \in from .. Len(vec) : vec[i].lower <= c.upper})

(* vec with its items first .. last replaced by items.                     *)
Splice(vec, first, last, items) ==
    SubSeq(vec, 1, first - 1) \o items \o SubSeq(vec, last + 1, Len(vec))

-----------------------------------------------------------------------------
(* Merging one Constraint.  The search reaches one word further on both    *)
(* sides, so that neighbours are merged too.                               *)
SearchRange(c) == RangeConstraint(IF c.lower > 0 THEN c.lower - 1 ELSE 0,
                                  IF c.upper < MaxWord THEN c.upper + 1 ELSE MaxWord)

(* The object that replaces the neighbours first .. last.                  *)
MergeContiguous(vec, first, last, c) ==
    LET r == IF c.type = "Value" THEN SearchRange(c) ELSE c
    IN  RangeConstraint(Least(vec[first].lower, r.lower), Greatest(vec[last].upper, r.upper))

MergeConstraint(s, c) ==
    LET first == LowerIndex(s.vec, 1, SearchRange(c))
        last  == UpperIndex(s.vec, 1, SearchRange(c)) - 1
        items == IF last < first THEN <<c>>
                 ELSE IF last = first THEN <<MergeInto(s.vec[first], c)>>
                 ELSE <<MergeContiguous(s.vec, first, last, c)>>
    IN  [s EXCEPT !.vec  = Splice(@, first, last, items),
                  !.size = Wrap(@ + SizeOf(items) - SizeOf(SubSeq(s.vec, first, last)))]

AddRange(s, l, u) == MergeConstraint(s, ConstraintOf(Least(l, u), Greatest(l, u)))

(* Subtracting one Constraint: what is left of the first and of the last   *)
(* object it meets stays, everything between them goes.                    *)
SubConstraint(s, c) ==
    LET first == LowerIndex(s.vec, 1, c)
        last  == UpperIndex(s.vec, 1, c) - 1
        a == SubOne(s.vec[first], c)
        b == SubOne(s.vec[last], c)
    IN  IF last < first THEN s
        ELSE IF last = first
        THEN [s EXCEPT !.vec = Splice(@, first, last, a.head \o a.tail), !.size = Wrap(@ - a.change)]
        ELSE [s EXCEPT !.vec = Splice(@, first, last, a.head \o b.head),
                       !.size = Wrap(@ - a.change - b.change - SizeOf(SubSeq(s.vec, first + 1, last - 1)))]

SubRange(s, l, u) == SubConstraint(s, ConstraintOf(Least(l, u), Greatest(l, u)))

(* Intersecting with one Constraint.                                       *)
ApplyConstraint(s, c) ==
    LET first == LowerIndex(s.vec, 1, c)
        last  == UpperIndex(s.vec, 1, c) - 1
        head  == ApplyOne(s.vec[first], c)
        tail  == IF last > first THEN ApplyOne(s.vec[last], c) ELSE <<>>
        middle == SubSeq(s.vec, first + 1, last - 1)
    IN  IF IsEmpty(s) THEN s
        ELSE IF last < first THEN Empty
        ELSE [s EXCEPT !.vec = head \o middle \o tail,
                       !.size = Wrap(@ - SizeOf(s.vec) + SizeOf(head \o middle \o tail))]

-----------------------------------------------------------------------------
(* Binary operations.  ConstraintSetBinaryProcessor walks over the objects *)
(* of the other set (the yielder, next item y, end yend) and edits the     *)
(* target vector; start is the beginning of the current move block, search *)
(* the place the next search starts from.                                  *)
Processor(s, other, first, last) ==
    [vec |-> s.vec, search |-> 1, y |-> first, yend |-> last + 1, other |-> other.vec,
     blocks |-> <<>>, start |-> 1, change |-> 0, fail |-> NoFailure]

(* CommitConstraintBlock(WithGap): the current block ends before end, the  *)
(* next one starts at start.                                               *)
Commit(p, end, start) ==
    [p EXCEPT !.blocks = IF end > p.start THEN Append(@, MoveBlock(p.start, end)) ELSE @,
              !.start = start]

(* ConstraintSetMerger.  A Constraint that touches nothing is cloned, with *)
(* all those that come before the next object of the target.               *)
AddCloneConstraintBlock_OneByOne(p, next) ==
    LET end == IF next = Len(p.vec) + 1 THEN Len(p.other) + 1 ELSE p.y
        items == SubSeq(p.other, p.y - 1, end - 1)
    IN  [Commit(p, next, next) EXCEPT
            !.blocks = Append(@, InsertBlock(items)), !.change = Wrap(@ + SizeOf(items)),
            !.y = end, !.search = next]
AddCloneConstraintBlock(p, next) ==
    LET end == IF next = Len(p.vec) + 1 THEN Len(p.other) + 1
               ELSE LowerIndex(p.other, p.y, ValueConstraint(Wrap(p.vec[next].lower - 1)))
        items == SubSeq(p.other, p.y - 1, end - 1)
    IN  [Commit(p, next, next) EXCEPT
            !.blocks = Append(@, InsertBlock(items)), !.change = Wrap(@ + SizeOf(items)),
            !.y = end, !.search = next]

(* One that touches a single object is merged into it; those of the other  *)
(* set the object already covers are skipped.                              *)
MergeIntoOneConstraint(p, i, c) ==
    LET merged  == MergeInto(p.vec[i], c)
        covered == {k \in p.y + 1 .. UpperIndex(p.other, p.y, merged) - 1 :
                       p.other[k].upper <= merged.upper}
        skipped == CHOOSE k \in covered : \A m \in covered : m <= k
    IN  [p EXCEPT !.vec[i] = merged, !.change = Wrap(@ + Size(merged) - Size(p.vec[i])),
                  !.y = IF merged.upper > c.upper /\ covered # {} THEN skipped + 1 ELSE @]

MergeWithContiguousConstraints(p, first, last, c) ==
    LET merged == MergeContiguous(p.vec, first, last, c)
    IN  [Commit(p, first, last) EXCEPT
            !.vec[last] = merged, !.search = last,
            !.change = Wrap(@ + Size(merged) - SizeOf(SubSeq(p.vec, first, last)))]

MergeNextItem(p0) ==
    LET c == p0.other[p0.y]
        p == [p0 EXCEPT !.y = @ + 1]
        first == LowerIndex(p.vec, p.search, SearchRange(c))
        last  == UpperIndex(p.vec, p.search, SearchRange(c)) - 1
    IN  IF last < first THEN AddCloneConstraintBlock(p, first)
        ELSE IF last = first THEN MergeIntoOneConstraint(p, first, c)
        ELSE MergeWithContiguousConstraints(p, first, last, c)

(* ConstraintSetSubtractor.  The part of an object above a subtrahend that *)
(* splits it becomes an insert block, minus the further subtrahends.       *)
RECURSIVE CutTail(_, _, _, _)
CutTail(cur, other, i, last) ==
    IF i > last THEN [pieces |-> <<cur>>, change |-> 0]
    ELSE LET r == SubOne(cur, other[i])
         IN  IF r.tail = <<>> THEN [pieces |-> r.head, change |-> r.change]
             ELSE LET rest == CutTail(r.tail[1], other, i + 1, last)
                  IN  [pieces |-> r.head \o rest.pieces, change |-> Wrap(r.change + rest.change)]

ProcessTailInsertion(p, tail) ==
    LET first == LowerIndex(p.other, p.y, tail)
        last  == UpperIndex(p.other, p.y, tail) - 1
        cut   == CutTail(tail, p.other, first, last)
        ynew  == IF last < first THEN p.y
                 ELSE IF p.other[last].upper > tail.upper THEN last ELSE last + 1
    IN  IF cut.pieces = <<>> THEN [p EXCEPT !.fail = "unexpected-empty-vector"]
        ELSE IF ynew > p.yend THEN [p EXCEPT !.fail = "iterator-out-of-range"]
        ELSE [p EXCEPT !.blocks = Append(@, InsertBlock(cut.pieces)),
                       !.change = Wrap(@ + cut.change), !.y = ynew]

SubFromOneConstraint(p, i, c) ==
    LET r == SubOne(p.vec[i], c)
        q == [p EXCEPT !.change = Wrap(@ + r.change)]
        kept == [q EXCEPT !.vec[i] = r.head[1], !.search = i + 1]
        stays == r.head[1].type = "Range" /\ r.head[1].upper > c.upper
    IN  IF r.head = <<>> THEN [Commit(q, i, i + 1) EXCEPT !.search = i + 1]
        ELSE IF r.tail # <<>> THEN ProcessTailInsertion(Commit(kept, i + 1, i + 1), r.tail[1])
        ELSE [kept EXCEPT !.search = IF stays THEN i ELSE i + 1]

SubFromContiguousConstraints(p, first, last, c) ==
    LET a == SubOne(p.vec[first], c)
        b == SubOne(p.vec[last], c)
        from == IF a.head = <<>> THEN first ELSE first + 1
        to   == IF b.head = <<>> THEN last + 1 ELSE last
        q == [p EXCEPT !.vec[first] = IF a.head = <<>> THEN @ ELSE a.head[1],
                       !.vec[last]  = IF b.head = <<>> THEN @ ELSE b.head[1],
                       !.change = Wrap(@ + a.change + b.change + SizeOf(SubSeq(p.vec, first + 1, last - 1)))]
        stays == q.vec[last].upper > c.upper /\ Size(q.vec[last]) > 1
    IN  IF from < to THEN [Commit(q, from, to) EXCEPT !.search = to]
        ELSE [q EXCEPT !.search = IF stays THEN last ELSE last + 1]

SubNextItem(p0) ==
    LET c == p0.other[p0.y]
        p == [p0 EXCEPT !.y = @ + 1]
        first == LowerIndex(p.vec, p.search, c)
        last  == UpperIndex(p.vec, p.search, c) - 1
    IN  IF last < first THEN [p EXCEPT !.search = first]
        ELSE IF last = first THEN SubFromOneConstraint(p, first, c)
        ELSE SubFromContiguousConstraints(p, first, last, c)

RECURSIVE Process(_, _)
Process(p, op) ==
    LET q == IF op = "merge" THEN MergeNextItem(p) ELSE SubNextItem(p)
    IN  IF p.y = p.yend \/ p.fail # NoFailure THEN p
        ELSE IF q.search = Len(q.vec) + 1 THEN q
        ELSE Process(q, op)

(* Process, commit the last block, assemble.                               *)
Rebuild(s, p, enough, sign) ==
    LET q == Commit(p, Len(p.vec) + 1, Len(p.vec) + 1)
        a == Assemble(q.vec, q.blocks, enough)
    IN  IF p.fail # NoFailure THEN Fail(s, p.fail)
        ELSE [vec |-> a.vec, size |-> Wrap(s.size + sign * q.change), fail |-> a.fail]

MergeConstraintSet(s, other, enough) ==
    IF IsEmpty(s) THEN Object(other.vec, s.size + SizeOf(other.vec))
    ELSE IF IsEmpty(other) THEN s
    ELSE IF Len(other.vec) = 1 THEN MergeConstraint(s, other.vec[1])
    ELSE Rebuild(s, Process(Processor(s, other, 1, Len(other.vec)), "merge"), enough, 1)

SubConstraintSet(s, other, enough) ==
    LET bounds == RangeConstraint(LowerBound(s), UpperBound(s))
        first == LowerIndex(other.vec, 1, bounds)
        last  == UpperIndex(other.vec, 1, bounds) - 1
    IN  IF IsEmpty(s) THEN s
        ELSE IF last < first THEN s
        ELSE IF last = first THEN SubConstraint(s, other.vec[first])
        ELSE Rebuild(s, Process(Processor(s, other, first, last), "sub"), enough, -1)
=============================================================================
