-------------------------- MODULE LargeConstraintSet --------------------------
(***************************************************************************)
(* LargeConstraintSet (MemoryConstraint.cc) and MemoryConstraint, the pair *)
(* of them every memory bank and every address space keeps.  A large set   *)
(* collects additions and subtractions in two caches and applies them only *)
(* when somebody reads it; a bit of mState says which cache is in use.     *)
(* ConstraintSet itself is modelled and checked in ConstraintSet.tla; here *)
(* it is the set of addresses it stands for.                               *)
(***************************************************************************)
EXTENDS Naturals, FiniteSets

LargeSet == [set |-> {}, adds |-> {}, subs |-> {}, addCached |-> FALSE, subCached |-> FALSE]

CommitCachedAdds(l) ==
    [l EXCEPT !.set = @ \cup l.adds, !.adds = {}, !.addCached = FALSE]

CommitCachedSubs(l) ==
    [l EXCEPT !.set = @ \ l.subs, !.subs = {}, !.subCached = FALSE]

(* AddRange and MergeConstraintSet.                                        *)
Merge_NoCommit(l, S) == [l EXCEPT !.adds = @ \cup S, !.addCached = TRUE]

Merge(l, S) ==
    LET c == IF l.subCached THEN CommitCachedSubs(l) ELSE l
    IN  [c EXCEPT !.adds = @ \cup S, !.addCached = TRUE]

(* SubRange and SubConstraintSet.                                          *)
Subtract(l, S) ==
    LET c == IF l.addCached THEN CommitCachedAdds(l) ELSE l
    IN  [c EXCEPT !.subs = @ \cup S, !.subCached = TRUE]

(* GetConstraintSet applies what is cached, the additions first, and gives *)
(* the reader the set itself: the object after the read.                   *)
GetConstraintSet(l) ==
    LET c == IF l.addCached THEN CommitCachedAdds(l) ELSE l
    IN  IF c.subCached THEN CommitCachedSubs(c) ELSE c

(* Initialize adds to the set directly; Clear empties the three sets and   *)
(* leaves the state bits.                                                  *)
InitializeSet(l, S) == [l EXCEPT !.set = @ \cup S]

ClearSet(l) == [l EXCEPT !.set = {}, !.adds = {}, !.subs = {}]

(* What a reader would be given now.                                       *)
Value(l) == GetConstraintSet(l).set

(* At most one cache is in use, and a cache not in use is empty.           *)
Consistent(l) ==
    /\ ~(l.addCached /\ l.subCached)
    /\ ~l.addCached => l.adds = {}
    /\ ~l.subCached => l.subs = {}

-----------------------------------------------------------------------------
(***************************************************************************)
(* MemoryConstraint: the usable and the shared addresses.                  *)
(***************************************************************************)
MemoryConstraint == [usable |-> LargeSet, shared |-> LargeSet, initialized |-> FALSE]

Uninitialize(m) ==
    [usable |-> ClearSet(m.usable), shared |-> ClearSet(m.shared), initialized |-> FALSE]

Initialize(m, S) ==
    [Uninitialize(m) EXCEPT !.usable = InitializeSet(@, S), !.initialized = TRUE]

MarkUsed(m, S) == [m EXCEPT !.usable = Subtract(@, S)]

UnmarkUsed(m, S) == [m EXCEPT !.usable = Merge(@, S)]

MarkShared(m, S) == [m EXCEPT !.shared = Merge(@, S), !.usable = Subtract(@, S)]

ReplaceUsableInRange(m, range, S) ==
    LET read == GetConstraintSet(m.usable)
    IN  [m EXCEPT !.usable = [read EXCEPT !.set = (@ \ range) \cup S]]

(* How many Constraint objects a set of addresses takes.                   *)
Objects(T) == Cardinality({a \in T : \A b \in T : b + 1 # a})

(* ConstraintSet::ReplaceInRange does not shrink the vector when no object *)
(* follows those it replaces, and leaves null objects at the end when what *)
(* replaces them takes fewer: the addresses S for those of the range, and  *)
(* what the objects had outside of it.                                     *)
LeavesNull(set, range, S) ==
    LET outside == {a \in set \ range : \E b \in range : (a .. b) \cup (b .. a) \subseteq set}
    IN  /\ \A a \in set : (\A b \in range : b < a) => a \in outside
        /\ Objects(S \cup outside) < Objects((set \cap range) \cup outside)

(* How ReplaceInRange may end the process on this call: by one of its      *)
(* FAILs, or, not necessarily, by null objects, which a later reader of    *)
(* the set dereferences.                                                   *)
ReplaceFailures(m, range, S) ==
    LET set == Value(m.usable)
    IN  IF set = {} THEN {"unexpected-empty-constraint-set"}
        ELSE IF S = {} THEN {"unexpected-empty-replace-constraint-set"}
        ELSE IF ~(S \subseteq range) THEN {"replacement-constraint-set-out-of-bound"}
        ELSE IF set \cap range = {} THEN {"expecting-constraints-in-range"}
        ELSE IF LeavesNull(set, range, S) THEN {"null-constraint"} ELSE {}
=============================================================================
