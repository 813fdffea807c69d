------------------------ MODULE ConstraintSetAlgebra ------------------------
(***************************************************************************)
(* A ConstraintSet under any sequence of its operations, against the plain *)
(* set of words it stands for.  Every operation takes every argument of    *)
(* the small word; the other operand of a binary operation is any set in   *)
(* the form the operations leave (Operands).                               *)
(***************************************************************************)
EXTENDS ConstraintSetTransforms

VARIABLES
    cs,       \* the ConstraintSet object
    vals      \* the words it should hold

vars == <<cs, vals>>

(* The object a sequence of AddValue calls builds for a set of words.      *)
RECURSIVE ObjectOf(_)
ObjectOf(S) ==
    IF S = {} THEN Empty
    ELSE LET v == CHOOSE x \in S : TRUE IN AddRange(ObjectOf(S \ {v}), v, v)

Operands == {ObjectOf(S) : S \in SUBSET Word}

Init ==
    /\ cs = Empty
    /\ vals = {}

(* A FAIL ends the process.                                                *)
Becomes(object, words) ==
    /\ cs.fail = NoFailure
    /\ cs' = object
    /\ vals' = words

AddRangeCall == \E l, u \in Word :
    Becomes(AddRange(cs, l, u), vals \cup (Least(l, u) .. Greatest(l, u)))

SubRangeCall == \E l, u \in Word :
    Becomes(SubRange(cs, l, u), vals \ (Least(l, u) .. Greatest(l, u)))

ApplyConstraintCall == \E l, u \in Word : l <= u /\
    Becomes(ApplyConstraint(cs, ConstraintOf(l, u)), vals \cap (l .. u))

MergeConstraintSetCall == \E o \in Operands, enough \in BOOLEAN :
    Becomes(MergeConstraintSet(cs, o, enough), vals \cup Values(o))

SubConstraintSetCall == \E o \in Operands, enough \in BOOLEAN :
    Becomes(SubConstraintSet(cs, o, enough), vals \ Values(o))

ApplyConstraintSetCall == \E o \in Operands :
    Becomes(ApplyConstraintSet(cs, o), vals \cap Values(o))

ApplyLargeConstraintSetCall == \E o \in Operands :
    Becomes(ApplyLargeConstraintSet(cs, o), vals \cap Values(o))

NotElementsCall == Becomes(NotElements(cs), {MaxWord - v : v \in vals})

Next ==
    \/ AddRangeCall
    \/ SubRangeCall
    \/ ApplyConstraintCall
    \/ MergeConstraintSetCall
    \/ SubConstraintSetCall
    \/ ApplyConstraintSetCall
    \/ ApplyLargeConstraintSetCall
    \/ NotElementsCall

Spec == Init /\ [][Next]_vars

-----------------------------------------------------------------------------
(* The shape every operation relies on and leaves: objects in ascending    *)
(* order with at least one word between two of them, a ValueConstraint     *)
(* exactly for a single word, and mSize the number of words modulo the     *)
(* word.                                                                   *)
Canonical ==
    /\ \A i \in DOMAIN cs.vec : CanonicalConstraint(cs.vec[i])
    /\ \A i \in 1 .. Len(cs.vec) - 1 : cs.vec[i].upper + 1 < cs.vec[i + 1].lower
    /\ cs.size = Wrap(Cardinality(Values(cs)))

(* Merging, subtracting and applying ranges and sets, in place and with or *)
(* without spare capacity, give exactly the union, the difference and the  *)
(* intersection, in canonical form: no word is lost or comes back when     *)
(* blocks are moved over each other.                                       *)
ValuesExact == cs.fail = NoFailure => Values(cs) = vals /\ Canonical

(* No internal check of the block assembler, the subtractor or the applier *)
(* fails: the only FAIL is the documented one on an empty operand.         *)
NeverFails == cs.fail \in {NoFailure, "applying-empty-constraint-set"}

(* The words whose product with d, modulo the word, is in S.               *)
Quotients(S, d) == {v \in Word : Wrap(v * d) \in S}

(* Neither the shift by the overflow remainder nor rounding up leaves the  *)
(* word.                                                                   *)
InWord(S, d) == \A v \in S : v + (WordCount % d) * (d - 1) + d - 1 <= MaxWord

(* FilterAlignedElements never returns when a range of two or more words   *)
(* holds the last aligned word: the next step wraps around (line 2273).    *)
LoopsForever(e) ==
    LET last == WordCount - 2 ^ e
    IN  e > 0 /\ last \in vals /\ {last - 1, last + 1} \cap vals # {}

(* The transforms of all elements: subtraction modulo the word, division   *)
(* with a range of overflow factors (all the quotients for all the         *)
(* factors, only quotients for some; where no rounding leaves the word),   *)
(* the filter of aligned elements, which fails to return in exactly one    *)
(* case, the move of a page's part to another frame, the copy of a range,  *)
(* and the replacement of a range, which leaves the rest and a right size; *)
(* it leaves null objects as well, exactly when the vector should become   *)
(* shorter and nothing lies above the range.                               *)
TransformsExact ==
    cs.fail = NoFailure =>
    /\ \A k \in Word : Values(SubtractFromElements(cs, k)) = {v \in Word : Wrap(v + k) \in vals}
    /\ \A d \in Word \ {0} : \A from \in 0 .. d - 1 :
        InWord(vals, d) =>
        /\ Values(DivideElementsWithFactorRangeUnionedWithZero(cs, d, from, d - 1)) \subseteq Quotients(vals, d)
        /\ Values(DivideElementsWithFactorRange(cs, d, 0, d - 1)) = Quotients(vals, d)
    /\ \A e \in 0 .. WordWidth - 1 :
        /\ LET r == FilterAlignedElements(cs, 2 ^ e)
           IN  IF LoopsForever(e) THEN r.fail = "never-returns"
               ELSE r.fail = NoFailure /\ Values(r) = {v \in vals : v % 2 ^ e = 0}
        /\ \A page \in 0 .. (2 ^ (WordWidth - e)) - 1, frame \in 0 .. (2 ^ (WordWidth - e)) - 1 :
            vals \subseteq (page * 2 ^ e) .. ((page + 1) * 2 ^ e - 1) =>
                Values(Translate(cs, 2 ^ e, frame * 2 ^ e)) = {v - (page - frame) * 2 ^ e : v \in vals}
    /\ \A l, u \in Word : l <= u =>
        /\ Values(CopyInRange(cs, l, u)) = vals \cap (l .. u)
        /\ \A o \in Operands :
            LET r == ReplaceInRange(cs, l, u, o)
                objects == SelectSeq(r.vec, LAMBDA c : c # Null)
                held == UNION {ValuesOf(objects[i]) : i \in DOMAIN objects}
                legal == Values(o) # {} /\ Values(o) \subseteq l .. u /\ vals \cap (l .. u) # {}
            IN  /\ r.fail = NoFailure <=> legal
                /\ legal => /\ held = (vals \ (l .. u)) \cup Values(o)
                            /\ r.size = Wrap(Cardinality(held))
                            /\ (objects # r.vec) <=> /\ \A v \in vals : v > u => (u .. v) \subseteq vals
                                                     /\ Len(objects) < Len(cs.vec)

(* The starts of the blocks of the given size that lie in one piece in the *)
(* set, at the given offset of the step.                                   *)
Fits(step, offset, size) ==
    {v \in Word : v % step = offset /\ v + size - 1 <= MaxWord /\ (v .. v + size - 1) \subseteq vals}

(* Alignment keeps exactly the aligned starts of blocks that fit, also at  *)
(* the ends of the word (not of the full word, whose size wraps to 0).     *)
(* With an offset this needs the rounded excess to stay in the word; for a *)
(* step that is no power of two the code then keeps only starts that fit.  *)
(* The first fit from the top or the bottom is one, unless rounding up     *)
(* wraps around the word.                                                  *)
AlignmentExact ==
    cs.fail = NoFailure /\ vals # Word =>
    \A size \in Word \ {0} :
    /\ \A e \in 0 .. WordWidth - 1 :
        LET a == 2 ^ e
            bottom == GetAlignedSizeFromBottom(cs, a, size)
            top    == GetAlignedSizeFromTop(cs, a, size)
        IN
        /\ {v * a : v \in Values(ShiftRight(AlignWithSize(cs, a, size), e))} = Fits(a, 0, size)
        /\ top # <<>> => top[1] \in Fits(a, 0, size) /\ \A v \in Fits(a, 0, size) : v <= top[1]
        /\ bottom # <<>> /\ UpperBound(cs) + a <= MaxWord =>
            bottom[1] \in Fits(a, 0, size) /\ \A v \in Fits(a, 0, size) : bottom[1] <= v
        /\ Values(AlignWithPage(cs, e)) = {v \div a : v \in vals}
    /\ \A step \in Word \ {0} : \A offset \in 0 .. step - 1 :
        LET kept == {v \in Values(AlignStepWithSize(cs, step, offset, size)) : v % step = offset}
        IN  offset + size + step <= WordCount + 1 =>
            /\ kept \subseteq Fits(step, offset, size)
            /\ WordCount % step = 0 => kept = Fits(step, offset, size)

(* What ChooseValue can return; <<>> stands for its FAIL.                  *)
Chosen == {ChooseValue(cs, k) : k \in Offsets(cs)}

(* The queries answer for the words of the set.  Of a set that is neither  *)
(* empty nor full ChooseValue draws every word and nothing else, and never *)
(* FAILs.  Of the full set it draws every word but 0, and FAILs instead    *)
(* (ChooseOfFullSet).                                                      *)
QueriesExact ==
    cs.fail = NoFailure =>
    /\ \A l, u \in Word :
        LET r == Least(l, u) .. Greatest(l, u)
            lead == LeadingIntersectingRange(cs, l, u)
        IN  /\ ContainsRange(cs, l, u) <=> r \subseteq vals
            /\ l <= u => IF r \cap vals = {} THEN lead = <<>>
                         ELSE /\ ValuesOf(lead[1]) \subseteq vals
                              /\ \A v \in r \cap vals : lead[1].lower <= v
                              /\ lead[1].upper + 1 \notin r \cap vals
    /\ \A o \in Operands :
        /\ ContainsConstraintSet(cs, o) <=> Values(o) \subseteq vals
        /\ Intersects(cs, o) <=> Values(o) \cap vals # {}
    /\ vals # {} => Chosen = IF vals = Word THEN {<<v>> : v \in Word \ {0}} \cup {<<>>}
                             ELSE {<<v>> : v \in vals}

(* A value can be chosen from the full 64-bit range, as the comment of     *)
(* ChooseValue and the test of the full set say: every word, and no FAIL.  *)
ChooseOfFullSet == cs.fail = NoFailure /\ vals = Word => Chosen = {<<v>> : v \in Word}
=============================================================================
