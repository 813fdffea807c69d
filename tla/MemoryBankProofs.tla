--------------------------- MODULE MemoryBankProofs ---------------------------
(***************************************************************************)
(* Proofs about the two parts of a memory bank: its LargeConstraintSets,   *)
(* with the MemoryConstraint made of two of them, and its                  *)
(* PhysicalPageManager.  The parts are functions of the state they are     *)
(* given, so the results are about single calls: what a call leaves of the *)
(* books of the pages (PoolInv), and what a reader of a set is told.       *)
(***************************************************************************)
EXTENDS PhysicalPageManager, LargeConstraintSet, Functions, WellFoundedInduction, TLAPS

(***************************************************************************)
(* LargeConstraintSet: what a reader of the set is promised, for sets of   *)
(* any size and any sequence of operations.  Caching changes is invisible: *)
(* each operation keeps Consistent, which needs the commit of one cache    *)
(* before the other is written, and has on Value, the set a reader is      *)
(* given, exactly the effect the operation names.                          *)
(***************************************************************************)

(* The objects, over a universe U of addresses.                            *)
LargeSets(U) ==
    [set : SUBSET U, adds : SUBSET U, subs : SUBSET U,
     addCached : BOOLEAN, subCached : BOOLEAN]

(* A reader's set in closed form: for a consistent object the order in     *)
(* which the two caches are applied does not matter.                       *)
LEMMA ValueClosedForm ==
    ASSUME NEW U, NEW l \in LargeSets(U), Consistent(l)
    PROVE  /\ Value(l) = (l.set \cup l.adds) \ l.subs
           /\ Value(l) = (l.set \ l.subs) \cup l.adds
<1>1. CASE l.addCached /\ ~l.subCached
  BY <1>1, Zenon DEF LargeSets, Consistent, Value, GetConstraintSet, CommitCachedAdds, CommitCachedSubs
<1>2. CASE ~l.addCached /\ l.subCached
  BY <1>2, Zenon DEF LargeSets, Consistent, Value, GetConstraintSet, CommitCachedAdds, CommitCachedSubs
<1>3. CASE ~l.addCached /\ ~l.subCached
  BY <1>3, Zenon DEF LargeSets, Consistent, Value, GetConstraintSet
<1>4. QED
  BY <1>1, <1>2, <1>3, Zenon DEF Consistent

(* AddRange and MergeConstraintSet: the reader's set grows by exactly the  *)
(* addresses added, even those a cached subtraction was about to remove.   *)
THEOREM MergeAdds ==
    ASSUME NEW U, NEW l \in LargeSets(U), Consistent(l), NEW S \in SUBSET U
    PROVE  /\ Merge(l, S) \in LargeSets(U)
           /\ Consistent(Merge(l, S))
           /\ Value(Merge(l, S)) = Value(l) \cup S
<1> DEFINE m == Merge(l, S)
<1>1. CASE l.subCached
  <2>1. /\ m \in LargeSets(U)
        /\ m.set = l.set \ l.subs /\ m.adds = l.adds \cup S /\ m.subs = {}
        /\ m.addCached = TRUE /\ m.subCached = FALSE
    BY <1>1, Zenon DEF Merge, CommitCachedSubs, LargeSets
  <2>2. Consistent(m)
    BY <2>1, Zenon DEF Consistent
  <2>3. Value(m) = (l.set \ l.subs) \cup (l.adds \cup S)
    BY <2>1, <2>2, ValueClosedForm
  <2>4. Value(l) = (l.set \ l.subs) \cup l.adds
    BY ValueClosedForm, Zenon
  <2>5. QED
    BY <2>1, <2>2, <2>3, <2>4, Zenon
<1>2. CASE ~l.subCached
  <2>1. /\ m \in LargeSets(U)
        /\ m.set = l.set /\ m.adds = l.adds \cup S /\ m.subs = l.subs
        /\ m.addCached = TRUE /\ m.subCached = l.subCached
    BY <1>2, Zenon DEF Merge, LargeSets
  <2>2. Consistent(m) /\ l.subs = {}
    BY <1>2, <2>1, Zenon DEF Consistent
  <2>3. Value(m) = (l.set \ l.subs) \cup (l.adds \cup S)
    BY <2>1, <2>2, ValueClosedForm, Zenon
  <2>4. Value(l) = (l.set \ l.subs) \cup l.adds
    BY ValueClosedForm
  <2>5. QED
    BY <2>1, <2>2, <2>3, <2>4, Zenon
<1>3. QED
  BY <1>1, <1>2, Zenon

(* SubRange and SubConstraintSet: the reader's set loses exactly the       *)
(* addresses subtracted, even those a cached addition was about to add.    *)
THEOREM SubtractRemoves ==
    ASSUME NEW U, NEW l \in LargeSets(U), Consistent(l), NEW S \in SUBSET U
    PROVE  /\ Subtract(l, S) \in LargeSets(U)
           /\ Consistent(Subtract(l, S))
           /\ Value(Subtract(l, S)) = Value(l) \ S
<1> DEFINE m == Subtract(l, S)
<1>1. CASE l.addCached
  <2>1. /\ m \in LargeSets(U)
        /\ m.set = l.set \cup l.adds /\ m.adds = {} /\ m.subs = l.subs \cup S
        /\ m.addCached = FALSE /\ m.subCached = TRUE
    BY <1>1, Zenon DEF Subtract, CommitCachedAdds, LargeSets
  <2>2. Consistent(m)
    BY <2>1, Zenon DEF Consistent
  <2>3. Value(m) = (l.set \cup l.adds) \ (l.subs \cup S)
    BY <2>1, <2>2, ValueClosedForm, Zenon
  <2>4. Value(l) = (l.set \cup l.adds) \ l.subs
    BY ValueClosedForm, Zenon
  <2>5. QED
    BY <2>1, <2>2, <2>3, <2>4, Zenon
<1>2. CASE ~l.addCached
  <2>1. /\ m \in LargeSets(U)
        /\ m.set = l.set /\ m.adds = l.adds /\ m.subs = l.subs \cup S
        /\ m.addCached = l.addCached /\ m.subCached = TRUE
    BY <1>2, Zenon DEF Subtract, LargeSets
  <2>2. Consistent(m) /\ l.adds = {}
    BY <1>2, <2>1, Zenon DEF Consistent
  <2>3. Value(m) = (l.set \cup l.adds) \ (l.subs \cup S)
    BY <2>1, <2>2, ValueClosedForm, Zenon
  <2>4. Value(l) = (l.set \cup l.adds) \ l.subs
    BY ValueClosedForm
  <2>5. QED
    BY <2>1, <2>2, <2>3, <2>4, Zenon
<1>3. QED
  BY <1>1, <1>2, Zenon

(* GetConstraintSet: reading applies the caches once and for all, so a     *)
(* second reader is given the same set and nothing is left to apply.       *)
THEOREM ReadKeepsValue ==
    ASSUME NEW U, NEW l \in LargeSets(U), Consistent(l)
    PROVE  /\ GetConstraintSet(l) \in LargeSets(U)
           /\ Consistent(GetConstraintSet(l))
           /\ GetConstraintSet(l).adds = {} /\ GetConstraintSet(l).subs = {}
           /\ Value(GetConstraintSet(l)) = Value(l)
<1> DEFINE m == GetConstraintSet(l)
<1>1. /\ m \in LargeSets(U) /\ m.adds = {} /\ m.subs = {}
      /\ ~m.addCached /\ ~m.subCached
  <2>1. CASE l.addCached /\ ~l.subCached
    BY <2>1, Zenon DEF LargeSets, Consistent, GetConstraintSet, CommitCachedAdds, CommitCachedSubs
  <2>2. CASE ~l.addCached /\ l.subCached
    BY <2>2, Zenon DEF LargeSets, Consistent, GetConstraintSet, CommitCachedAdds, CommitCachedSubs
  <2>3. CASE ~l.addCached /\ ~l.subCached
    BY <2>3, Zenon DEF LargeSets, Consistent, GetConstraintSet
  <2>4. QED
    BY <2>1, <2>2, <2>3, Zenon DEF Consistent
<1>2. Consistent(m)
  BY <1>1, Zenon DEF Consistent
<1>3. Value(m) = m.set
  BY <1>1, <1>2, ValueClosedForm DEF LargeSets
<1>4. QED
  BY <1>1, <1>2, <1>3, Zenon DEF Value

(* Clear leaves the state bits as they were.  That is harmless: a cleared  *)
(* object that is initialized again holds exactly the new set.             *)
THEOREM ClearThenInitialize ==
    ASSUME NEW U, NEW l \in LargeSets(U), Consistent(l), NEW S \in SUBSET U
    PROVE  LET m == InitializeSet(ClearSet(l), S)
           IN  m \in LargeSets(U) /\ Consistent(m) /\ Value(m) = S
<1> DEFINE m == InitializeSet(ClearSet(l), S)
<1>1. /\ m \in LargeSets(U) /\ m.set = S /\ m.adds = {} /\ m.subs = {}
      /\ m.addCached = l.addCached /\ m.subCached = l.subCached
  BY Zenon DEF InitializeSet, ClearSet, LargeSets
<1>2. Consistent(m)
  BY <1>1, Zenon DEF Consistent
<1>3. Value(m) = S
  BY <1>1, <1>2, ValueClosedForm, Zenon
<1>4. QED
  BY <1>1, <1>2, <1>3, Zenon

-----------------------------------------------------------------------------
(* MemoryConstraint: a pair of large sets *)

(* The pairs, whose sets are consistent.                                   *)
Constraints ==
    {c \in [usable : LargeSets(Addresses), shared : LargeSets(Addresses), initialized : BOOLEAN] :
        Consistent(c.usable) /\ Consistent(c.shared)}

(* The parts of a MemoryConstraint.                                        *)
LEMMA ConstraintFields ==
  ASSUME NEW c \in Constraints
  PROVE  /\ c.usable \in LargeSets(Addresses) /\ Consistent(c.usable)
         /\ c.shared \in LargeSets(Addresses) /\ Consistent(c.shared)
         /\ Value(c.usable) \subseteq Addresses /\ Value(c.shared) \subseteq Addresses
  <1>1. /\ c.usable \in LargeSets(Addresses) /\ Consistent(c.usable)
        /\ c.shared \in LargeSets(Addresses) /\ Consistent(c.shared)
    BY Zenon DEF Constraints
  <1>2. ASSUME NEW l \in LargeSets(Addresses), Consistent(l) PROVE Value(l) \subseteq Addresses
    BY <1>2, ValueClosedForm, Zenon DEF LargeSets
  <1> QED
    BY <1>1, <1>2, Zenon

(* A MemoryConstraint whose usable set is replaced.                        *)
LEMMA ReplaceUsable ==
  ASSUME NEW c \in Constraints, NEW l \in LargeSets(Addresses), Consistent(l)
  PROVE  /\ [c EXCEPT !.usable = l] \in Constraints
         /\ [c EXCEPT !.usable = l].usable = l
         /\ [c EXCEPT !.usable = l].shared = c.shared
  BY Zenon DEF Constraints

(* A MemoryConstraint whose shared set is replaced.                        *)
LEMMA ReplaceShared ==
  ASSUME NEW c \in Constraints, NEW l \in LargeSets(Addresses), Consistent(l)
  PROVE  /\ [c EXCEPT !.shared = l] \in Constraints
         /\ [c EXCEPT !.shared = l].shared = l
         /\ [c EXCEPT !.shared = l].usable = c.usable
  BY Zenon DEF Constraints

(* c says of the addresses what usable and shared say.                     *)
Says(c, usable, shared) ==
    c \in Constraints /\ Value(c.usable) = usable /\ Value(c.shared) = shared

(* MemoryConstraint::MarkUsed takes addresses out of the usable set and    *)
(* leaves the shared one.                                                  *)
LEMMA MarkUsedSays ==
  ASSUME NEW c \in Constraints, NEW S \in SUBSET Addresses
  PROVE  Says(MarkUsed(c, S), Value(c.usable) \ S, Value(c.shared))
  <1>1. /\ Subtract(c.usable, S) \in LargeSets(Addresses) /\ Consistent(Subtract(c.usable, S))
        /\ Value(Subtract(c.usable, S)) = Value(c.usable) \ S
    BY ConstraintFields, SubtractRemoves
  <1>2. MarkUsed(c, S) = [c EXCEPT !.usable = Subtract(c.usable, S)]
    BY Zenon DEF MarkUsed
  <1> QED
    BY <1>1, <1>2, ReplaceUsable, Zenon DEF Says

(* MemoryConstraint::UnmarkUsed gives them back.                           *)
LEMMA UnmarkUsedSays ==
  ASSUME NEW c \in Constraints, NEW S \in SUBSET Addresses
  PROVE  Says(UnmarkUsed(c, S), Value(c.usable) \cup S, Value(c.shared))
  <1>1. /\ Merge(c.usable, S) \in LargeSets(Addresses) /\ Consistent(Merge(c.usable, S))
        /\ Value(Merge(c.usable, S)) = Value(c.usable) \cup S
    BY ConstraintFields, MergeAdds
  <1>2. UnmarkUsed(c, S) = [c EXCEPT !.usable = Merge(c.usable, S)]
    BY DEF UnmarkUsed
  <1> QED
    BY <1>1, <1>2, ReplaceUsable, Zenon DEF Says

(* MemoryConstraint::MarkShared adds addresses to the shared set and takes *)
(* them out of the usable one.                                             *)
LEMMA MarkSharedSays ==
  ASSUME NEW c \in Constraints, NEW S \in SUBSET Addresses
  PROVE  Says(MarkShared(c, S), Value(c.usable) \ S, Value(c.shared) \cup S)
  <1>1. /\ Merge(c.shared, S) \in LargeSets(Addresses) /\ Consistent(Merge(c.shared, S))
        /\ Value(Merge(c.shared, S)) = Value(c.shared) \cup S
    BY ConstraintFields, MergeAdds
  <1>2. PICK d : d = [c EXCEPT !.shared = Merge(c.shared, S)]
    BY Zenon
  <1>3. d \in Constraints /\ d.usable = c.usable /\ d.shared = Merge(c.shared, S)
    BY <1>1, <1>2, ReplaceShared, Zenon
  <1>4. MarkShared(c, S) = MarkUsed(d, S)
    BY <1>2, <1>3, Zenon DEF MarkShared, MarkUsed, Constraints
  <1> QED
    BY <1>1, <1>3, <1>4, MarkUsedSays DEF Says

(* Reading a MemoryConstraint changes nothing it says.                     *)
LEMMA ReadSays ==
  ASSUME NEW c \in Constraints
  PROVE  /\ Says([c EXCEPT !.usable = GetConstraintSet(@)], Value(c.usable), Value(c.shared))
         /\ Says([c EXCEPT !.usable = GetConstraintSet(@), !.shared = GetConstraintSet(@)],
                 Value(c.usable), Value(c.shared))
  <1> DEFINE u == GetConstraintSet(c.usable)
             h == GetConstraintSet(c.shared)
  <1>1. /\ u \in LargeSets(Addresses) /\ Consistent(u) /\ Value(u) = Value(c.usable)
        /\ h \in LargeSets(Addresses) /\ Consistent(h) /\ Value(h) = Value(c.shared)
    BY ConstraintFields, ReadKeepsValue, Zenon
  <1> HIDE DEF u, h
  <1>2. Says([c EXCEPT !.usable = u], Value(c.usable), Value(c.shared))
    BY <1>1, ReplaceUsable, Zenon DEF Says
  <1>3. /\ [c EXCEPT !.usable = u, !.shared = h] \in Constraints
        /\ [c EXCEPT !.usable = u, !.shared = h].usable = u
        /\ [c EXCEPT !.usable = u, !.shared = h].shared = h
    BY <1>1, Zenon DEF Constraints
  <1>4. Says([c EXCEPT !.usable = u, !.shared = h], Value(c.usable), Value(c.shared))
    BY <1>1, <1>3, Zenon DEF Says
  <1> QED
    BY <1>2, <1>4, Zenon DEF u, h

(* MemoryConstraint::ReplaceUsableInRange: inside the range the usable     *)
(* addresses become the given ones, outside they stay.                     *)
LEMMA ReplaceUsableInRangeSays ==
  ASSUME NEW c \in Constraints, NEW range \in SUBSET Addresses, NEW S \in SUBSET Addresses
  PROVE  Says(ReplaceUsableInRange(c, range, S), (Value(c.usable) \ range) \cup S, Value(c.shared))
  <1> DEFINE g == GetConstraintSet(c.usable)
             l == [g EXCEPT !.set = (@ \ range) \cup S]
  <1>1. /\ g \in LargeSets(Addresses) /\ Consistent(g) /\ Value(g) = Value(c.usable)
        /\ g.adds = {} /\ g.subs = {}
    BY ConstraintFields, ReadKeepsValue, Zenon
  <1>2. g.set = Value(c.usable)
    BY Zenon DEF Value
  <1>3. ReplaceUsableInRange(c, range, S) = [c EXCEPT !.usable = l]
    BY Zenon DEF ReplaceUsableInRange
  <1> HIDE DEF g
  <1>4. /\ l \in LargeSets(Addresses) /\ l.set = (g.set \ range) \cup S /\ l.adds = {} /\ l.subs = {}
        /\ l.addCached = g.addCached /\ l.subCached = g.subCached
    BY <1>1, Zenon DEF LargeSets
  <1> HIDE DEF l
  <1>5. Consistent(l)
    BY <1>1, <1>4, Zenon DEF Consistent
  <1>6. Value(l) = (g.set \ range) \cup S
    BY <1>4, <1>5, ValueClosedForm, Zenon
  <1> QED
    BY <1>2, <1>3, <1>4, <1>5, <1>6, ReplaceUsable DEF Says

(* MemoryConstraint::Initialize, also after Uninitialize, gives a          *)
(* constraint that says what it was initialized with.                      *)
LEMMA InitializeSays ==
  ASSUME NEW c \in Constraints, NEW S \in SUBSET Addresses
  PROVE  /\ Says(Uninitialize(c), {}, {})
         /\ Says(Initialize(c, S), S, {})
  <1>1. ASSUME NEW l \in LargeSets(Addresses), Consistent(l)
        PROVE  ClearSet(l) \in LargeSets(Addresses) /\ Consistent(ClearSet(l)) /\ Value(ClearSet(l)) = {}
    <2> DEFINE k == ClearSet(l)
    <2>1. /\ k \in LargeSets(Addresses) /\ k.set = {} /\ k.adds = {} /\ k.subs = {}
          /\ k.addCached = l.addCached /\ k.subCached = l.subCached
      BY Zenon DEF ClearSet, LargeSets
    <2> HIDE DEF k
    <2>2. Consistent(k)
      BY <1>1, <2>1, Zenon DEF Consistent
    <2>3. Value(k) = {}
      BY <2>1, <2>2, ValueClosedForm, Zenon
    <2> QED
      BY <2>1, <2>2, <2>3, Zenon DEF k
  <1> DEFINE u == ClearSet(c.usable)
             h == ClearSet(c.shared)
             v == InitializeSet(u, S)
  <1>2. /\ u \in LargeSets(Addresses) /\ Consistent(u) /\ Value(u) = {}
        /\ h \in LargeSets(Addresses) /\ Consistent(h) /\ Value(h) = {}
    BY <1>1, ConstraintFields, Zenon
  <1>3. v \in LargeSets(Addresses) /\ Consistent(v) /\ Value(v) = S
    BY ConstraintFields, ClearThenInitialize
  <1>4. Uninitialize(c) = [usable |-> u, shared |-> h, initialized |-> FALSE]
    BY Zenon DEF Uninitialize
  <1>5. Initialize(c, S) = [usable |-> v, shared |-> h, initialized |-> TRUE]
    <2>1. PICK x : x = Uninitialize(c)
      BY Zenon
    <2>2. Initialize(c, S) = [x EXCEPT !.usable = InitializeSet(x.usable, S), !.initialized = TRUE]
      BY <2>1, Zenon DEF Initialize
    <2> HIDE DEF u, h
    <2>3. x = [usable |-> u, shared |-> h, initialized |-> FALSE]
      BY <1>4, <2>1, Zenon
    <2> QED
      BY <2>2, <2>3, Zenon
  <1> HIDE DEF u, h, v
  <1> QED
    BY <1>2, <1>3, <1>4, <1>5 DEF Says, Constraints

(* A new constraint, which knows no address.                               *)
LEMMA EmptyConstraintSays ==
  MemoryConstraint \in Constraints
  <1>1. LargeSet \in LargeSets(Addresses) /\ Consistent(LargeSet)
    BY Zenon DEF LargeSet, LargeSets, Consistent
  <1> QED
    BY <1>1, Zenon DEF MemoryConstraint, Constraints

-----------------------------------------------------------------------------
(* Loops *)

(* The smallest of some numbers.                                           *)
LEMMA NatMinimum ==
  ASSUME NEW T \in SUBSET Nat, T # {}
  PROVE  \E x \in T : \A y \in T : x <= y
  <1> DEFINE R == {p \in Nat \X Nat : p[1] < p[2]}
  <1>1. R = OpToRel(<, Nat)
    BY Zenon DEF OpToRel
  <1>2. IsWellFoundedOn(R, Nat)
    BY <1>1, NatLessThanWellFounded, Zenon
  <1> HIDE DEF R
  <1>3. PICK x \in T : \A y \in T : ~ (<<y, x>> \in R)
    BY <1>2, WFMin, Zenon
  <1>4. ASSUME NEW y \in T PROVE x <= y
    <2>1. x \in Nat /\ y \in Nat /\ ~ (<<y, x>> \in R)
      BY <1>3, Zenon
    <2> QED
      BY <2>1 DEF R
  <1> QED
    BY <1>4, Zenon

(* Induction, with the property as a set.                                  *)
LEMMA NatSetInduction ==
  ASSUME NEW S, 0 \in S, \A n \in Nat : n \in S => n + 1 \in S
  PROVE  Nat \subseteq S
  <1> SUFFICES ASSUME Nat \ S # {} PROVE FALSE
    BY Zenon
  <1>1. PICK x \in Nat \ S : \A y \in Nat \ S : x <= y
    <2> DEFINE T == Nat \ S
    <2>1. T \in SUBSET Nat /\ T # {}
      BY Zenon
    <2> HIDE DEF T
    <2>2. \E x \in T : \A y \in T : x <= y
      BY <2>1, NatMinimum, Zenon
    <2> QED BY <2>2, Zenon DEF T
  <1>2. x # 0 /\ x - 1 \in Nat /\ (x - 1) + 1 = x /\ ~(x <= x - 1)
    OBVIOUS
  <1>3. x - 1 \in S
    BY <1>1, <1>2, Zenon
  <1> QED
    BY <1>2, <1>3, Zenon

(* f[k] is what the variables of a loop are after k rounds, of which G[k]  *)
(* is one.                                                                 *)
IsLoop(n, D, b, G, f) ==
    f \in [0 .. n -> D] /\ f[0] = b /\ \A k \in 1 .. n : f[k] = G[k][f[k - 1]]

(* A loop of n rounds has values: f[k] are the variables after k rounds,   *)
(* G[k] is what round k does with them.                                    *)
LEMMA LoopExists ==
  ASSUME NEW n \in Nat, NEW D, NEW b \in D, NEW G \in [0 .. n -> [D -> D]]
  PROVE  \E f : IsLoop(n, D, b, G, f)
  <1> DEFINE Loop(m, f) == f \in [0 .. m -> D] /\ f[0] = b /\ \A k \in 1 .. m : f[k] = G[k][f[k - 1]]
             S == {m \in Nat : m <= n => \E f : Loop(m, f)}
  <1>1. 0 \in S
    <2>1. Loop(0, [k \in 0 .. 0 |-> b])
      OBVIOUS
    <2> QED
      BY <2>1, Zenon
  <1>2. ASSUME NEW m \in Nat, m \in S PROVE m + 1 \in S
    <2> SUFFICES ASSUME m + 1 <= n PROVE \E f : Loop(m + 1, f)
      OBVIOUS
    <2>1. PICK f : Loop(m, f)
      BY <1>2
    <2> DEFINE g == [k \in 0 .. m + 1 |-> IF k = m + 1 THEN G[m + 1][f[m]] ELSE f[k]]
    <2>2. f[m] \in D /\ G[m + 1] \in [D -> D]
      BY <2>1
    <2>3. g \in [0 .. m + 1 -> D] /\ g[0] = b
      BY <2>1, <2>2
    <2>4. ASSUME NEW k \in 1 .. m + 1 PROVE g[k] = G[k][g[k - 1]]
      <3>1. CASE k = m + 1
        BY <3>1
      <3>2. CASE k # m + 1
        <4>1. k \in 1 .. m /\ g[k] = f[k] /\ g[k - 1] = f[k - 1]
          BY <3>2
        <4> QED
          BY <2>1, <4>1, Zenon
      <3> QED
        BY <3>1, <3>2, Zenon
    <2> QED
      BY <2>3, <2>4, Zenon
  <1>3. Nat \subseteq S
    <2> HIDE DEF S
    <2> QED
      BY <1>1, <1>2, NatSetInduction, Zenon
  <1> QED
    BY <1>3 DEF IsLoop

(* What holds of the variables before the loop and is kept by every round  *)
(* holds after any number of rounds: I[k] is the invariant after k rounds. *)
LEMMA LoopInvariant ==
  ASSUME NEW n \in Nat, NEW f, NEW I, f[0] \in I[0],
         \A k \in 1 .. n : f[k - 1] \in I[k - 1] => f[k] \in I[k]
  PROVE  \A k \in 0 .. n : f[k] \in I[k]
  <1> DEFINE S == {m \in Nat : m <= n => f[m] \in I[m]}
  <1>1. 0 \in S
    BY Zenon
  <1>2. ASSUME NEW m \in Nat, m \in S PROVE m + 1 \in S
    <2> SUFFICES ASSUME m + 1 <= n PROVE f[m + 1] \in I[m + 1]
      OBVIOUS
    <2>1. m + 1 \in 1 .. n /\ (m + 1) - 1 = m /\ f[m] \in I[m]
      BY <1>2
    <2> QED
      BY <2>1, Zenon
  <1>3. Nat \subseteq S
    <2> HIDE DEF S
    <2> QED
      BY <1>1, <1>2, NatSetInduction, Zenon
  <1> QED
    BY <1>3

-----------------------------------------------------------------------------
(* Pages *)

(* An address lies in the page its page number names.                      *)
LEMMA DivBounds ==
  ASSUME NEW a \in Nat, NEW size \in Nat \ {0}
  PROVE  /\ a \div size \in Nat
         /\ (a \div size) * size <= a
         /\ a < (a \div size) * size + size
  OBVIOUS

(* Starts of pages are ordered as their numbers.                           *)
LEMMA TimesMonotonic ==
  ASSUME NEW m \in Nat, NEW n \in Nat, NEW size \in Nat, m <= n
  PROVE  m * size <= n * size
  <1>1. (n - m) * size >= 0
    OBVIOUS
  <1> QED
    BY <1>1

(* The page number of an address.                                          *)
LEMMA DivUnique ==
  ASSUME NEW a \in Nat, NEW size \in Nat \ {0}, NEW n \in Nat, n * size <= a, a < n * size + size
  PROVE  a \div size = n
  OBVIOUS

(* Page numbers are ordered as addresses.                                  *)
LEMMA DivMonotonic ==
  ASSUME NEW a \in Nat, NEW b \in Nat, NEW size \in Nat \ {0}, a <= b
  PROVE  a \div size <= b \div size
  OBVIOUS

(* A number that a size divides is the start of a page.                    *)
LEMMA ModZero ==
  ASSUME NEW a \in Nat, NEW size \in Nat \ {0}, a % size = 0
  PROVE  a = (a \div size) * size
  OBVIOUS

(* The page of an address.                                                 *)
LEMMA InPage ==
  ASSUME NEW a \in Nat, NEW size \in Nat \ {0}, NEW n \in Nat
  PROVE  a \in PageRange(n * size, size) <=> a \div size = n
  <1>1. n * size \in Nat
    OBVIOUS
  <1> QED
    BY <1>1, DivBounds, DivUnique DEF PageRange

(* A page is not empty, and its addresses are numbers.                     *)
LEMMA PageRangeInNat ==
  ASSUME NEW start \in Nat, NEW size \in Nat \ {0}
  PROVE  /\ PageRange(start, size) \subseteq Nat
         /\ start \in PageRange(start, size)
  BY DEF PageRange

(* q is how often size goes into a.                                        *)
Quotient(a, size, q) == q \in Nat /\ q * size <= a /\ a < q * size + size

(* A frame is a page of one of the sizes.                                  *)
IsFrame(S) ==
    \E size \in PageSizes, n \in Nat : S = PageRange(n * size, size) /\ S \subseteq Addresses

(* Two frames are apart or one is in the other.                            *)
LEMMA FramesNest ==
  ASSUME NEW S, NEW T, IsFrame(S), IsFrame(T), S \cap T # {}
  PROVE  S \subseteq T \/ T \subseteq S
  <1>Regroup.
    ASSUME NEW k \in Nat, NEW c \in Nat, NEW size \in Nat
    PROVE  k * (c * size) = (k * c) * size /\ k * (c * size) + c * size = (k * c + c) * size
    OBVIOUS
  <1>DivIsQuotient.
    ASSUME NEW a \in Nat, NEW size \in Nat \ {0}
    PROVE  Quotient(a, size, a \div size)
    BY DivBounds, Zenon DEF Quotient
  <1>QuotientUnique.
    ASSUME NEW a \in Nat, NEW size \in Nat, NEW n, NEW k, Quotient(a, size, n), Quotient(a, size, k)
    PROVE  n = k
    <2> USE <1>QuotientUnique
    <2>1. size \in Nat \ {0}
      BY DEF Quotient
    <2>2. a \div size = n /\ a \div size = k
      BY <2>1, DivUnique, Zenon DEF Quotient
    <2> QED
      BY <2>2, Zenon
  <1>QuotientOfQuotient.
    ASSUME NEW small \in Nat \ {0}, NEW c \in Nat, NEW large, large = c * small,
           NEW x \in Nat, NEW q, NEW m, Quotient(x, large, q), Quotient(x, small, m)
    PROVE  Quotient(m, c, q)
    <2> USE <1>QuotientOfQuotient
    <2>1. /\ q \in Nat /\ q * large <= x /\ x < q * large + large
          /\ m \in Nat /\ m * small <= x /\ x < m * small + small
      BY Zenon DEF Quotient
    <2>2. (q * c) * small <= x /\ x < (q * c + c) * small
      BY <2>1, <1>Regroup
    <2>3. q * c \in Nat /\ q * c + c \in Nat
      BY <2>1
    <2>4. q * c <= m
      <3> SUFFICES ASSUME m + 1 <= q * c PROVE FALSE
        BY <2>1, <2>3
      <3>1. (m + 1) * small <= (q * c) * small
        BY <2>1, <2>3, TimesMonotonic
      <3>2. (m + 1) * small = m * small + small
        BY <2>1
      <3> QED
        BY <2>1, <2>2, <2>3, <3>1, <3>2
    <2>5. m < q * c + c
      <3> SUFFICES ASSUME q * c + c <= m PROVE FALSE
        BY <2>1, <2>3
      <3>1. (q * c + c) * small <= m * small
        BY <2>1, <2>3, TimesMonotonic, Zenon
      <3> QED
        BY <2>1, <2>2, <2>3, <3>1
    <2> QED
      BY <2>1, <2>4, <2>5, Zenon DEF Quotient
  (* Addresses in one page are in one larger page.                         *)
  <1>CoarserPage.
    ASSUME NEW small \in Nat \ {0}, NEW large \in Nat \ {0}, large % small = 0,
           NEW a \in Nat, NEW b \in Nat, a \div small = b \div small
    PROVE  a \div large = b \div large
    <2> USE <1>CoarserPage
    <2>1. PICK c \in Nat : large = c * small
      BY ModZero, DivBounds, Zenon
    <2>2. ASSUME NEW x \in Nat
          PROVE  Quotient(x \div small, c, x \div large)
      <3>1. Quotient(x, large, x \div large) /\ Quotient(x, small, x \div small)
        BY <1>DivIsQuotient, Zenon
      <3> QED
        BY <2>1, <3>1, <1>QuotientOfQuotient, Zenon
    <2>3. a \div small \in Nat
      BY DivBounds, Zenon
    <2>4. Quotient(a \div small, c, a \div large) /\ Quotient(b \div small, c, b \div large)
      BY <2>2, Zenon
    <2> QED
      BY <2>3, <2>4, <1>QuotientUnique, Zenon
  <1>1. PICK s \in PageSizes, m \in Nat : S = PageRange(m * s, s)
    BY Zenon DEF IsFrame
  <1>2. PICK t \in PageSizes, n \in Nat : T = PageRange(n * t, t)
    BY Zenon DEF IsFrame
  <1>3. s \in Nat \ {0} /\ t \in Nat \ {0} /\ (s % t = 0 \/ t % s = 0)
    BY PageAssumption, Zenon
  <1>4. S \subseteq Nat /\ T \subseteq Nat
    BY <1>1, <1>2, <1>3, PageRangeInNat
  <1>5. PICK a \in S : a \in T
    BY Zenon
  <1>6. a \div s = m /\ a \div t = n /\ a \in Nat
    BY <1>1, <1>2, <1>3, <1>4, <1>5, InPage, Zenon
  <1>7. CASE t % s = 0
    <2>1. ASSUME NEW b \in S PROVE b \in T
      <3>1. b \in Nat /\ b \div s = a \div s
        BY <1>1, <1>3, <1>4, <1>6, InPage, Zenon
      <3>2. b \div t = n
        BY <1>3, <1>6, <1>7, <3>1, <1>CoarserPage
      <3> QED
        BY <1>2, <1>3, <3>1, <3>2, InPage, Zenon
    <2> QED
      BY <2>1, Zenon
  <1>8. CASE s % t = 0
    <2>1. ASSUME NEW b \in T PROVE b \in S
      <3>1. b \in Nat /\ b \div t = a \div t
        BY <1>2, <1>3, <1>4, <1>6, InPage, Zenon
      <3>2. b \div s = m
        BY <1>3, <1>6, <1>8, <3>1, <1>CoarserPage
      <3> QED
        BY <1>1, <1>3, <3>1, <3>2, InPage, Zenon
    <2> QED
      BY <2>1, Zenon
  <1> QED
    BY <1>3, <1>7, <1>8, Zenon

(* The page of an address is whole: PhysicalAddressLimit ends a page.      *)
LEMMA PageOfAddress ==
  ASSUME NEW a \in Addresses, NEW size \in PageSizes
  PROVE  /\ a \div size \in PageNumbers(size)
         /\ a \in PageRange(PageStart(a, size), size)
         /\ PageRange(PageStart(a, size), size) \subseteq Addresses
         /\ IsFrame(PageRange(PageStart(a, size), size))
  <1> DEFINE n == a \div size
             c == (Top + 1) \div size
  <1>1. size \in Nat \ {0} /\ a \in Nat /\ a <= Top /\ Top \in Nat /\ (Top + 1) % size = 0
    BY PageAssumption DEF Addresses
  <1>2. n \in Nat /\ n * size <= a /\ a < n * size + size
    BY <1>1, DivBounds, Zenon
  <1>3. Top + 1 = c * size /\ c \in Nat
    BY <1>1, ModZero, DivBounds
  <1>4. n + 1 <= c
    <2> HIDE DEF n, c
    <2> SUFFICES ASSUME c <= n PROVE FALSE
      BY <1>2, <1>3
    <2>1. c * size <= n * size
      BY <1>1, <1>2, <1>3, TimesMonotonic, Zenon
    <2> QED
      BY <1>1, <1>2, <1>3, <2>1
  <1>5. (n + 1) * size <= c * size
    <2> HIDE DEF n, c
    <2> QED
      BY <1>1, <1>2, <1>3, <1>4, TimesMonotonic
  <1>6. n * size \in Nat /\ n * size + size <= Top + 1
    BY <1>1, <1>2, <1>3, <1>5
  <1>7. PageRange(n * size, size) \subseteq Addresses /\ a \in PageRange(n * size, size)
    BY <1>1, <1>2, <1>6 DEF PageRange, Addresses
  <1>8. n \in PageNumbers(size)
    BY <1>1, <1>2, DivMonotonic, DivBounds DEF PageNumbers
  <1> QED
    BY <1>2, <1>7, <1>8, Zenon DEF IsFrame, PageStart

-----------------------------------------------------------------------------
(* The pool *)

PhysicalPages(V) ==
    [lower : Nat, upper : Nat, canAlias : BOOLEAN, virtuals : Seq(V)]

Managers(V) ==
    [boundary : SUBSET Addresses, free : SUBSET Addresses, allocated : SUBSET Addresses,
     exclude : SUBSET Addresses, aligned : [PageSizes -> SUBSET Nat],
     pages : SUBSET PhysicalPages(V)]

(* The books of the manager m, whose pages list virtual pages in V, agree. *)
PoolInv(V, m) ==
    /\ m \in Managers(V)
    /\ \A p \in m.pages : IsFrame(Frame(p))
    /\ \A p, q \in m.pages : p # q => Frame(p) \cap Frame(q) = {}
    /\ m.allocated = UNION {Frame(p) : p \in m.pages}
    /\ m.free = Addresses \ m.allocated
    /\ \A size \in PageSizes :
          m.aligned[size] = {n \in PageNumbers(size) : PageRange(n * size, size) \subseteq m.free}
    /\ \A p \in m.pages : ~p.canAlias => Frame(p) \subseteq m.exclude

(* The frame of a physical page is not empty and lies in the address       *)
(* range.                                                                  *)
LEMMA FrameNotEmpty ==
  ASSUME NEW S, IsFrame(S)
  PROVE  S # {} /\ S \subseteq Addresses
  <1>1. PICK size \in PageSizes, n \in Nat : S = PageRange(n * size, size)
    BY Zenon DEF IsFrame
  <1>2. size \in Nat \ {0} /\ n * size \in Nat
    BY PageAssumption
  <1> QED
    BY <1>1, <1>2, PageRangeInNat, Zenon DEF IsFrame

(* Only the page that covers a range overlaps it.                          *)
LEMMA OnePageIn ==
  ASSUME NEW V, NEW m, PoolInv(V, m), NEW p \in m.pages,
         NEW range, range # {}, range \subseteq Frame(p)
  PROVE  PagesIn(m, range) = {p}
  <1>1. \A q \in m.pages : q # p => Frame(q) \cap Frame(p) = {}
    BY Zenon DEF PoolInv
  <1>2. \A q \in m.pages : Overlaps(q, range) <=> q = p
    BY <1>1, Zenon DEF Overlaps
  <1> QED
    BY <1>2, Zenon DEF PagesIn

(* AddPhysicalPage, for a page that takes the place of those inside it.    *)
LEMMA AddPhysicalPageKeeps ==
  ASSUME NEW V, NEW m, PoolInv(V, m), NEW p \in PhysicalPages(V), IsFrame(Frame(p)),
         NEW over, over = PagesIn(m, Frame(p)), \A q \in over : Frame(q) \subseteq Frame(p)
  PROVE  LET after == AddPhysicalPage([m EXCEPT !.pages = @ \ over], p)
         IN  PoolInv(V, after) /\ after.pages = (m.pages \ over) \cup {p}
  (* The pages of one size that a range meets.                             *)
  <1>PagesMet.
    ASSUME NEW size \in Nat \ {0}, NEW n \in Nat, NEW lo \in Nat, NEW hi \in Nat, lo <= hi
    PROVE  PageRange(n * size, size) \cap (lo .. hi) # {} <=> n \in (lo \div size) .. (hi \div size)
    <2> USE <1>PagesMet
    <2>1. ASSUME NEW a \in PageRange(n * size, size), a \in lo .. hi
          PROVE  n \in (lo \div size) .. (hi \div size)
      <3>1. a \in Nat /\ lo <= a /\ a <= hi
        BY <2>1
      <3>2. a \div size = n
        BY <3>1, InPage, Zenon
      <3>3. lo \div size <= a \div size /\ a \div size <= hi \div size
        BY <3>1, DivMonotonic, Zenon
      <3>4. lo \div size \in Nat /\ hi \div size \in Nat
        BY DivBounds, Zenon
      <3> QED
        BY <3>2, <3>3, <3>4
    <2>2. ASSUME n \in (lo \div size) .. (hi \div size)
          PROVE  \E a \in PageRange(n * size, size) : a \in lo .. hi
      <3>1. CASE n = lo \div size
        <4>1. lo \in PageRange(n * size, size)
          BY <3>1, InPage, Zenon
        <4> QED
          BY <4>1
      <3>2. CASE n # lo \div size
        <4> DEFINE q == lo \div size
                   r == hi \div size
        <4>1. q \in Nat /\ lo < q * size + size /\ r \in Nat /\ r * size <= hi
          BY DivBounds, Zenon
        <4>2. q + 1 <= n /\ n <= r
          BY <2>2, <3>2, <4>1
        <4> HIDE DEF q, r
        <4>3. (q + 1) * size <= n * size /\ n * size <= r * size
          BY <4>1, <4>2, TimesMonotonic
        <4>4. (q + 1) * size = q * size + size /\ n * size \in Nat
          BY <4>1
        <4>5. n * size \in lo .. hi
          BY <4>1, <4>3, <4>4
        <4> QED
          BY <4>4, <4>5, PageRangeInNat, Zenon
      <3> QED
        BY <3>1, <3>2, Zenon
    <2> QED
      BY <2>1, <2>2, Zenon
  (* The books after a page took the place of the pages inside it.         *)
  <1>PageTakesPlace.
    ASSUME NEW after \in Managers(V),
           after.free = m.free \ Frame(p),
           after.allocated = m.allocated \cup Frame(p),
           after.aligned = UpdateUsablePageAligned(m.aligned, p),
           after.pages = (m.pages \ over) \cup {p},
           ~p.canAlias => Frame(p) \subseteq after.exclude,
           m.exclude \subseteq after.exclude
    PROVE  PoolInv(V, after)
    <2> USE <1>PageTakesPlace
    <2>1. Frame(p) \subseteq Addresses /\ Frame(p) # {}
      BY FrameNotEmpty, Zenon
    <2>3. \A q \in after.pages : IsFrame(Frame(q))
      BY Zenon DEF PoolInv
    <2>4. \A q, r \in after.pages : q # r => Frame(q) \cap Frame(r) = {}
      BY Zenon DEF PoolInv, PagesIn, Overlaps
    <2>5. after.allocated = UNION {Frame(q) : q \in after.pages}
      <3>1. m.allocated = UNION {Frame(q) : q \in m.pages}
        BY Zenon DEF PoolInv
      <3>2. ASSUME NEW a \in after.allocated PROVE \E q \in after.pages : a \in Frame(q)
        <4>1. CASE a \in Frame(p)
          BY <4>1, Zenon
        <4>2. CASE a \notin Frame(p)
          <5>1. PICK q \in m.pages : a \in Frame(q)
            BY <3>1, <4>2
          <5> QED
            BY <4>2, <5>1, Zenon
        <4> QED
          BY <4>1, <4>2, Zenon
      <3>3. ASSUME NEW q \in after.pages PROVE Frame(q) \subseteq after.allocated
        BY <3>1, Zenon
      <3> QED
        BY <3>2, <3>3
    <2>6. after.free = Addresses \ after.allocated
      BY Zenon DEF PoolInv
    <2>7. ASSUME NEW size \in PageSizes, NEW n \in PageNumbers(size)
          PROVE  PageRange(n * size, size) \subseteq after.free
                    <=> /\ PageRange(n * size, size) \subseteq m.free
                        /\ n \notin (p.lower \div size) .. (p.upper \div size)
      <3>1. size \in Nat \ {0} /\ p.lower \in Nat /\ p.upper \in Nat /\ n \in Nat
        BY PageAssumption DEF PhysicalPages, PageNumbers
      <3>2. p.lower <= p.upper
        BY <2>1, <3>1 DEF Frame
      <3>3. PageRange(n * size, size) \cap Frame(p) # {}
               <=> n \in (p.lower \div size) .. (p.upper \div size)
        BY <3>1, <3>2, <1>PagesMet, Zenon DEF Frame
      <3> QED
        BY <3>3, Zenon
    <2>8. ASSUME NEW size \in PageSizes
          PROVE  after.aligned[size] =
                    {n \in PageNumbers(size) : PageRange(n * size, size) \subseteq after.free}
      <3>1. after.aligned[size] = m.aligned[size] \ ((p.lower \div size) .. (p.upper \div size))
        BY Zenon DEF UpdateUsablePageAligned
      <3>2. m.aligned[size] = {n \in PageNumbers(size) : PageRange(n * size, size) \subseteq m.free}
        BY Zenon DEF PoolInv
      <3> QED
        BY <2>7, <3>1, <3>2, Zenon
    <2>9. \A q \in after.pages : ~q.canAlias => Frame(q) \subseteq after.exclude
      BY Zenon DEF PoolInv
    <2> QED
      BY <2>3, <2>4, <2>5, <2>6, <2>8, <2>9, Zenon DEF PoolInv
  <1>AddPhysicalPageFields.
    ASSUME NEW w \in Managers(V), Frame(p) \subseteq Addresses
    PROVE  LET after == AddPhysicalPage(w, p)
           IN  /\ after \in Managers(V)
               /\ after.boundary = w.boundary
               /\ after.free = w.free \ Frame(p)
               /\ after.allocated = w.allocated \cup Frame(p)
               /\ after.aligned = UpdateUsablePageAligned(w.aligned, p)
               /\ after.pages = w.pages \cup {p}
               /\ ~p.canAlias => Frame(p) \subseteq after.exclude
               /\ w.exclude \subseteq after.exclude
    <2> USE <1>AddPhysicalPageFields
    <2> DEFINE E == IF p.canAlias THEN w.exclude ELSE w.exclude \cup Frame(p)
               A == UpdateUsablePageAligned(w.aligned, p)
    <2>1. AddPhysicalPage(w, p) =
             [w EXCEPT !.pages = @ \cup {p}, !.free = @ \ Frame(p),
                       !.allocated = @ \cup Frame(p), !.exclude = E, !.aligned = A]
      BY Zenon DEF AddPhysicalPage
    <2>2. A \in [PageSizes -> SUBSET Nat]
      BY Zenon DEF UpdateUsablePageAligned, Managers
    <2>3. E \subseteq Addresses /\ w.exclude \subseteq E /\ (~p.canAlias => Frame(p) \subseteq E)
      BY Zenon DEF Managers
    <2> HIDE DEF E, A
    <2> DEFINE after == [w EXCEPT !.pages = @ \cup {p}, !.free = @ \ Frame(p),
                                  !.allocated = @ \cup Frame(p), !.exclude = E, !.aligned = A]
    <2>4. /\ after.boundary = w.boundary
          /\ after.free = w.free \ Frame(p)
          /\ after.allocated = w.allocated \cup Frame(p)
          /\ after.aligned = A
          /\ after.exclude = E
          /\ after.pages = w.pages \cup {p}
      BY Zenon DEF Managers
    <2>5. after \in Managers(V)
      BY <2>2, <2>3, Zenon DEF Managers
    <2> HIDE DEF after
    <2> QED
      BY <2>1, <2>3, <2>4, <2>5, Zenon DEF A, after
  <1> DEFINE without == [m EXCEPT !.pages = @ \ over]
             after == AddPhysicalPage(without, p)
  <1>1. m \in Managers(V) /\ Frame(p) \subseteq Addresses
    BY FrameNotEmpty, Zenon DEF PoolInv
  <1>2. /\ without \in Managers(V) /\ without.boundary = m.boundary /\ without.free = m.free
        /\ without.allocated = m.allocated /\ without.aligned = m.aligned
        /\ without.exclude = m.exclude /\ without.pages = m.pages \ over
    BY <1>1, Zenon DEF Managers
  <1> HIDE DEF without
  <1>3. /\ after \in Managers(V)
        /\ after.free = m.free \ Frame(p)
        /\ after.allocated = m.allocated \cup Frame(p)
        /\ after.aligned = UpdateUsablePageAligned(m.aligned, p)
        /\ after.pages = (m.pages \ over) \cup {p}
        /\ ~p.canAlias => Frame(p) \subseteq after.exclude
        /\ m.exclude \subseteq after.exclude
    BY <1>1, <1>2, <1>AddPhysicalPageFields, Zenon
  <1> HIDE DEF after
  <1>4. PoolInv(V, after)
    BY <1>3, <1>PageTakesPlace, Zenon
  <1> QED
    BY <1>3, <1>4, Zenon DEF after, without

(* A page is replaced by one with the same frame, the excluded ranges      *)
(* possibly growing by it.                                                 *)
ReplacePage(m, p, q, E) == [m EXCEPT !.pages = (@ \ {p}) \cup {q}, !.exclude = E]

(* A physical page that is replaced by one with the same frame, as AddPage *)
(* and the closing of a page to aliasing do.                               *)
LEMMA ReplacePageKeeps ==
  ASSUME NEW V, NEW m, PoolInv(V, m), NEW p \in m.pages, NEW q \in PhysicalPages(V),
         Frame(q) = Frame(p), NEW E, m.exclude \subseteq E, E \subseteq Addresses,
         ~q.canAlias => Frame(p) \subseteq E
  PROVE  /\ PoolInv(V, ReplacePage(m, p, q, E))
         /\ ReplacePage(m, p, q, E).pages = (m.pages \ {p}) \cup {q}
  <1> DEFINE after == ReplacePage(m, p, q, E)
  <1>1. m \in Managers(V)
    BY Zenon DEF PoolInv
  <1>2. /\ after.boundary = m.boundary /\ after.free = m.free /\ after.allocated = m.allocated
        /\ after.aligned = m.aligned /\ after.exclude = E
        /\ after.pages = (m.pages \ {p}) \cup {q}
        /\ after \in Managers(V)
    BY <1>1, Zenon DEF Managers, ReplacePage
  <1> HIDE DEF after
  <1>4. \A r \in after.pages : IsFrame(Frame(r))
    BY <1>2, Zenon DEF PoolInv
  <1>5. \A r, t \in after.pages : r # t => Frame(r) \cap Frame(t) = {}
    BY <1>2, Zenon DEF PoolInv
  <1>6. after.allocated = UNION {Frame(r) : r \in after.pages}
    BY <1>2 DEF PoolInv
  <1>7. \A r \in after.pages : ~r.canAlias => Frame(r) \subseteq after.exclude
    BY <1>2, Zenon DEF PoolInv
  <1> QED
    BY <1>2, <1>4, <1>5, <1>6, <1>7 DEF PoolInv, after

(* A page that may no longer be aliased: its frame is excluded as well.    *)
LEMMA AliasingOff ==
  ASSUME NEW V, NEW m, PoolInv(V, m), NEW p \in m.pages
  PROVE  LET q == [p EXCEPT !.canAlias = FALSE]
             E == m.exclude \cup Frame(p)
         IN  /\ Frame(q) = Frame(p) /\ Listed(q) = Listed(p)
             /\ PoolInv(V, ReplacePage(m, p, q, E))
             /\ ReplacePage(m, p, q, E).pages = (m.pages \ {p}) \cup {q}
  <1> DEFINE q == [p EXCEPT !.canAlias = FALSE]
             E == m.exclude \cup Frame(p)
  <1>1. p \in PhysicalPages(V) /\ Frame(p) \subseteq Addresses /\ m.exclude \subseteq Addresses
    BY FrameNotEmpty, Zenon DEF PoolInv, Managers
  <1>2. /\ q \in PhysicalPages(V) /\ q.lower = p.lower /\ q.upper = p.upper
        /\ q.virtuals = p.virtuals
    BY <1>1, Zenon DEF PhysicalPages
  <1> HIDE DEF q
  <1>3. Frame(q) = Frame(p) /\ Listed(q) = Listed(p)
    BY <1>2, Zenon DEF Frame, Listed
  <1> HIDE DEF E
  <1>4. m.exclude \subseteq E /\ E \subseteq Addresses /\ Frame(p) \subseteq E
    BY <1>1, Zenon DEF E
  <1>5. /\ PoolInv(V, ReplacePage(m, p, q, E))
        /\ ReplacePage(m, p, q, E).pages = (m.pages \ {p}) \cup {q}
    BY <1>2, <1>3, <1>4, ReplacePageKeeps
  <1> QED
    BY <1>3, <1>5, Zenon DEF q, E

-----------------------------------------------------------------------------
(* The lists of virtual pages *)

(* The members of V are like virtual pages.                                *)
ArePages(V) == \A v \in V : v.lower \in Nat /\ v.size \in Nat \ {0}

Collide(v, w) == Virtual(v) \cap Virtual(w) # {}

(* Of the first i entries of one list and the first j of the other, every  *)
(* one is in out, except those of the second that collide with one of the  *)
(* first.                                                                  *)
Merged(mine, other, i, j, out) ==
    /\ \A k \in 1 .. i : mine[k] \in Range(out)
    /\ \A k \in 1 .. j : \/ other[k] \in Range(out)
                         \/ \E l \in 1 .. Len(mine) : mine[l] \in Range(out) /\ Collide(mine[l], other[k])
    /\ Range(out) \subseteq Range(mine) \cup Range(other)

MergeStates(V, mine, other) ==
    [mine : 1 .. Len(mine) + 1, other : 1 .. Len(other) + 1, out : Seq(V)]

MergeInv(V, mine, other, k) ==
    {x \in MergeStates(V, mine, other) :
        /\ Merged(mine, other, x.mine - 1, x.other - 1, x.out)
        /\ \/ x.mine + x.other >= k + 2
           \/ x.mine = Len(mine) + 1 /\ x.other = Len(other) + 1}

(* The bisection answers a place of the list or the one after it.          *)
BisectStates(list) ==
    {b \in [first : 1 .. Len(list) + 1, len : 0 .. Len(list)] : b.first + b.len <= Len(list) + 1}

BisectStep(list, v, b) ==
    LET half == b.len \div 2
    IN  IF b.len = 0 THEN b
        ELSE IF page_less_than(list[b.first + half], v)
             THEN [first |-> b.first + half + 1, len |-> b.len - half - 1]
             ELSE [first |-> b.first, len |-> half]

(* PhysicalPage::AddPage: wherever std::lower_bound ends on a list that is *)
(* not sorted, the page is added and no entry is lost.                     *)
LEMMA AddPageKeeps ==
  ASSUME NEW V, NEW p \in PhysicalPages(V), NEW v \in V
  PROVE  /\ AddPage(p, v) \in PhysicalPages(V)
         /\ Listed(AddPage(p, v)) = Listed(p) \cup {v}
         /\ Frame(AddPage(p, v)) = Frame(p)
         /\ AddPage(p, v).canAlias = p.canAlias /\ AddPage(p, v).lower = p.lower
  (* The members of two lists, one after the other.                        *)
  <1>RangeJoined.
    ASSUME NEW a \in Seq(V), NEW b \in Seq(V)
    PROVE  Range(a \o b) = Range(a) \cup Range(b)
    <2> DEFINE m == Len(a)
               n == Len(b)
               c == a \o b
    <2>1. /\ m \in Nat /\ n \in Nat
          /\ DOMAIN a = 1 .. m /\ DOMAIN b = 1 .. n /\ DOMAIN c = 1 .. m + n
          /\ \A i \in 1 .. m : c[i] = a[i]
          /\ \A i \in 1 .. n : c[m + i] = b[i]
      OBVIOUS
    <2> HIDE DEF m, n, c
    <2>2. ASSUME NEW x \in Range(c) PROVE x \in Range(a) \cup Range(b)
      <3>1. PICK i \in 1 .. m + n : x = c[i]
        BY <2>1, Zenon DEF Range
      <3>2. CASE i <= m
        <4>1. i \in 1 .. m
          BY <2>1, <3>2
        <4> QED
          BY <2>1, <3>1, <4>1, Zenon DEF Range
      <3>3. CASE ~(i <= m)
        <4>1. i - m \in 1 .. n /\ m + (i - m) = i
          BY <2>1, <3>3
        <4>2. x = b[i - m]
          BY <2>1, <3>1, <4>1, Zenon
        <4> QED
          BY <2>1, <4>1, <4>2, Zenon DEF Range
      <3> QED
        BY <3>2, <3>3, Zenon
    <2>3. ASSUME NEW i \in 1 .. m PROVE a[i] \in Range(c)
      <3>1. i \in 1 .. m + n
        BY <2>1
      <3> QED
        BY <2>1, <3>1, Zenon DEF Range
    <2>4. ASSUME NEW i \in 1 .. n PROVE b[i] \in Range(c)
      <3>1. m + i \in 1 .. m + n
        BY <2>1
      <3> QED
        BY <2>1, <3>1, Zenon DEF Range
    <2>5. Range(a) \subseteq Range(c) /\ Range(b) \subseteq Range(c)
      BY <2>1, <2>3, <2>4 DEF Range
    <2> QED
      BY <2>2, <2>5, Zenon DEF c
  <1>BisectStepKeeps.
    ASSUME NEW list \in Seq(V), NEW b \in BisectStates(list)
    PROVE  BisectStep(list, v, b) \in BisectStates(list)
    <2>1. Len(list) \in Nat
      OBVIOUS
    <2>2. /\ b.first \in 1 .. Len(list) + 1 /\ b.len \in 0 .. Len(list)
          /\ b.first + b.len <= Len(list) + 1
      BY Zenon DEF BisectStates
    <2> DEFINE half == b.len \div 2
    <2>3. half \in Nat /\ (b.len # 0 => half < b.len)
      BY <2>1, <2>2
    <2> HIDE DEF half
    <2>4. CASE b.len = 0
      BY <2>4, Zenon DEF BisectStep
    <2>5. CASE b.len # 0
      <3>1. [first |-> b.first + half + 1, len |-> b.len - half - 1] \in BisectStates(list)
        BY <2>1, <2>2, <2>3, <2>5 DEF BisectStates
      <3>2. [first |-> b.first, len |-> half] \in BisectStates(list)
        BY <2>1, <2>2, <2>3, <2>5 DEF BisectStates
      <3> QED
        BY <2>5, <3>1, <3>2, Zenon DEF BisectStep, half
    <2> QED
      BY <2>4, <2>5, Zenon
  <1>LowerBoundInList.
    ASSUME NEW list \in Seq(V)
    PROVE  LowerBound(list, v) \in 1 .. Len(list) + 1
    <2> DEFINE n == Len(list)
               start == [first |-> 1, len |-> n]
               D == BisectStates(list)
               Loop(f) == f = [k \in 0 .. n |-> IF k = 0 THEN start
                                                ELSE BisectStep(list, v, f[k - 1])]
               bisect == CHOOSE f : Loop(f)
               I == [k \in Nat |-> D]
               G == [k \in 0 .. n |-> [b \in D |-> BisectStep(list, v, b)]]
    <2>1. n \in Nat
      OBVIOUS
    <2>2. start \in D
      BY <2>1 DEF BisectStates
    <2>3. ASSUME NEW b \in D PROVE BisectStep(list, v, b) \in D
      BY <2>3, <1>BisectStepKeeps, Zenon
    <2>4. G \in [0 .. n -> [D -> D]]
      BY <2>3, Zenon
    <2>5. PICK f : f \in [0 .. n -> D] /\ f[0] = start /\ \A k \in 1 .. n : f[k] = G[k][f[k - 1]]
      <3>1. \E f : IsLoop(n, D, start, G, f)
        <4> HIDE DEF n, D, start, G
        <4> QED
          BY <2>1, <2>2, <2>4, LoopExists, Zenon
      <3> QED
        BY <3>1, Zenon DEF IsLoop
    <2>6. ASSUME NEW k \in 1 .. n PROVE f[k] = BisectStep(list, v, f[k - 1])
      <3>1. k \in 0 .. n /\ k - 1 \in 0 .. n
        BY <2>1
      <3>2. f[k - 1] \in D
        BY <2>5, <3>1, Zenon
      <3> QED
        BY <2>5, <3>1, <3>2, Zenon
    <2>7. Loop(f)
      <3> HIDE DEF start, n
      <3> QED
        BY <2>1, <2>5, <2>6
    <2>8. Loop(bisect)
      BY <2>7, Zenon
    <2>9. bisect[0] = start /\ \A k \in 1 .. n : bisect[k] = BisectStep(list, v, bisect[k - 1])
      <3> HIDE DEF bisect
      <3>1. \A k \in 0 .. n : bisect[k] = IF k = 0 THEN start ELSE BisectStep(list, v, bisect[k - 1])
        BY <2>8, Zenon
      <3>2. 0 \in 0 .. n /\ \A k \in 1 .. n : k \in 0 .. n /\ k # 0
        BY <2>1
      <3> HIDE DEF n, start, Loop
      <3> QED
        BY <3>1, <3>2, Zenon
    <2>10. \A k \in 0 .. n : bisect[k] \in I[k]
      <3>1. bisect[0] \in I[0]
        BY <2>2, <2>9, Zenon
      <3>2. ASSUME NEW k \in 1 .. n, bisect[k - 1] \in I[k - 1] PROVE bisect[k] \in I[k]
        <4> HIDE DEF bisect, D
        <4>1. k - 1 \in Nat /\ k \in Nat
          BY <2>1
        <4> QED
          BY <2>3, <2>9, <3>2, <4>1, Zenon
      <3> HIDE DEF bisect, I, n
      <3> QED
        BY <2>1, <3>1, <3>2, LoopInvariant, Zenon
    <2>11. bisect[n] \in D
      <3> HIDE DEF bisect, D
      <3> QED
        BY <2>1, <2>10
    <2>12. LowerBound(list, v) = bisect[n].first
      BY Zenon DEF LowerBound, BisectStep
    <2> HIDE DEF bisect
    <2> QED
      BY <2>11, <2>12, Zenon DEF BisectStates
  (* PhysicalPage::AddPage adds the virtual page and keeps the others.     *)
  <1>InsertPageKeeps.
    ASSUME NEW list \in Seq(V), NEW k \in 1 .. Len(list) + 1
    PROVE  InsertPage(list, k, v) \in Seq(V) /\ Range(InsertPage(list, k, v)) = Range(list) \cup {v}
    <2> DEFINE front == SubSeq(list, 1, k - 1)
               back == SubSeq(list, k, Len(list))
               n == Len(list)
    <2>1. n \in Nat /\ \A i \in 1 .. n : list[i] \in V
      OBVIOUS
    <2>2. front \in Seq(V) /\ Len(front) = k - 1 /\ \A i \in 1 .. k - 1 : front[i] = list[i]
      <3>1. k - 1 \in Int /\ \A i \in 1 .. k - 1 : list[i] \in V
        BY <2>1
      <3>2. /\ front \in Seq(V) /\ Len(front) = IF 1 <= k - 1 THEN k - 1 - 1 + 1 ELSE 0
            /\ \A i \in 1 .. k - 1 - 1 + 1 : front[i] = list[1 + i - 1]
        BY <3>1
      <3> QED
        BY <2>1, <3>2
    <2>3. back \in Seq(V) /\ Len(back) = n - k + 1 /\ \A i \in 1 .. n - k + 1 : back[i] = list[k + i - 1]
      <3>1. k \in Int /\ n \in Int /\ \A i \in k .. n : list[i] \in V
        BY <2>1
      <3>2. /\ back \in Seq(V) /\ Len(back) = IF k <= n THEN n - k + 1 ELSE 0
            /\ \A i \in 1 .. n - k + 1 : back[i] = list[k + i - 1]
        BY <3>1
      <3> QED
        BY <2>1, <3>2
    <2>4. <<v>> \in Seq(V) /\ Range(<<v>>) = {v}
      BY DEF Range
    <2> HIDE DEF front, back
    <2>5. PICK mid \in Seq(V) : mid = <<v>> /\ Range(mid) = {v}
      BY <2>4, Zenon
    <2>6. PICK two \in Seq(V) : two = front \o mid /\ Range(two) = Range(front) \cup {v}
      <3>1. front \o mid \in Seq(V)
        BY <2>2
      <3>2. Range(front \o mid) = Range(front) \cup Range(mid)
        BY <2>2, <1>RangeJoined, Zenon
      <3> QED
        BY <2>5, <3>1, <3>2, Zenon
    <2>7. Range(front) \cup Range(back) = Range(list)
      <3>1. Range(front) = {front[i] : i \in 1 .. k - 1}
        <4> HIDE DEF front
        <4> QED
          BY <2>2 DEF Range
      <3>2. Range(back) = {back[i] : i \in 1 .. n - k + 1}
        <4> HIDE DEF back
        <4> QED
          BY <2>3 DEF Range
      <3>3. Range(list) = {list[i] : i \in 1 .. n}
        BY DEF Range
      <3>4. ASSUME NEW i \in 1 .. n PROVE list[i] \in Range(front) \cup Range(back)
        <4>1. CASE i <= k - 1
          <5>1. i \in 1 .. k - 1
            BY <2>1, <4>1
          <5> QED
            BY <2>2, <3>1, <5>1, Zenon
        <4>2. CASE i > k - 1
          <5>1. i - k + 1 \in 1 .. n - k + 1 /\ k + (i - k + 1) - 1 = i
            BY <2>1, <4>2
          <5> QED
            BY <2>3, <3>2, <5>1, Zenon
        <4> QED
          BY <2>1, <4>1, <4>2
      <3>5. ASSUME NEW i \in 1 .. k - 1 PROVE front[i] \in Range(list)
        <4>1. i \in 1 .. n
          BY <2>1
        <4> QED
          BY <2>2, <3>3, <4>1, Zenon
      <3>6. ASSUME NEW i \in 1 .. n - k + 1 PROVE back[i] \in Range(list)
        <4>1. k + i - 1 \in 1 .. n
          BY <2>1
        <4> QED
          BY <2>3, <3>3, <4>1, Zenon
      <3> QED
        BY <3>1, <3>2, <3>3, <3>4, <3>5, <3>6, Zenon
    <2>8. two \o back \in Seq(V)
      BY <2>3
    <2>9. Range(two \o back) = Range(two) \cup Range(back)
      BY <2>3, <1>RangeJoined, Zenon
    <2>10. InsertPage(list, k, v) = two \o back
      BY <2>5, <2>6, Zenon DEF InsertPage, front, back
    <2> QED
      BY <2>6, <2>7, <2>8, <2>9, <2>10, Zenon
  <1> DEFINE list == p.virtuals
             new == InsertPage(list, LowerBound(list, v), v)
  <1>1. list \in Seq(V)
    BY Zenon DEF PhysicalPages
  <1>2. new \in Seq(V) /\ Range(new) = Range(list) \cup {v}
    BY <1>1, <1>LowerBoundInList, <1>InsertPageKeeps, Zenon
  <1>3. AddPage(p, v) = [p EXCEPT !.virtuals = new]
    BY Zenon DEF AddPage
  <1> HIDE DEF list, new
  <1>4. /\ AddPage(p, v) \in PhysicalPages(V) /\ AddPage(p, v).virtuals = new
        /\ AddPage(p, v).lower = p.lower /\ AddPage(p, v).upper = p.upper
        /\ AddPage(p, v).canAlias = p.canAlias
    BY <1>2, <1>3, Zenon DEF PhysicalPages
  <1>5. Listed(AddPage(p, v)) = Range(new) /\ Listed(p) = Range(list)
    BY <1>4, Zenon DEF Listed, Range, list
  <1> QED
    BY <1>2, <1>4, <1>5, Zenon DEF Frame

-----------------------------------------------------------------------------
(* Merging physical pages *)

(* Every entry of S is in T or overlaps an entry of T.                     *)
KeptOrEqual(S, T) == \A v \in S : v \in T \/ \E w \in T : Collide(w, v)

(* Two intervals, neither of which ends before the other begins, share the *)
(* larger of their first elements.                                         *)
LEMMA IntervalsMeet ==
  ASSUME NEW a \in Nat, NEW m \in Nat \ {0}, NEW b \in Nat, NEW n \in Nat \ {0},
         a <= b, ~(a + m - 1 < b)
  PROVE  b \in a .. a + m - 1 /\ b \in b .. b + n - 1
OBVIOUS

(* No two intervals both end before the other begins.                      *)
LEMMA IntervalsOrdered ==
  ASSUME NEW a \in Nat, NEW m \in Nat \ {0}, NEW b \in Nat, NEW n \in Nat \ {0}
  PROVE  ~(a + m - 1 < b /\ b + n - 1 < a)
OBVIOUS

(* Lists of a and of b entries are used up when the next entries, i and j, *)
(* are past their ends.                                                    *)
UsedUp(i, a, j, b) == i - 1 = a /\ j - 1 = b

(* After as many steps as there are entries, both lists are used up.       *)
LEMMA MergeEnds ==
  ASSUME NEW a \in Nat, NEW b \in Nat, NEW i \in 1 .. a + 1, NEW j \in 1 .. b + 1,
         i + j >= a + b + 2 \/ (i = a + 1 /\ j = b + 1)
  PROVE  UsedUp(i, a, j, b)
  BY DEF UsedUp

(* PhysicalPage::Merge of two lists: only their entries come out, and one  *)
(* that does not is overlapped by one that does.                           *)
LEMMA MergePagesRange ==
  ASSUME NEW V, ArePages(V), NEW mine \in Seq(V), NEW other \in Seq(V)
  PROVE  /\ MergePages(mine, other) \in Seq(V)
         /\ Range(mine) \subseteq Range(MergePages(mine, other))
         /\ Range(MergePages(mine, other)) \subseteq Range(mine) \cup Range(other)
         /\ KeptOrEqual(Range(other), Range(MergePages(mine, other)))
  (* Pages neither of which is below the other overlap.                    *)
  <1>NeitherLess.
    ASSUME NEW v \in V, NEW w \in V,
           ~page_less_than(v, w), ~page_less_than(w, v)
    PROVE  Collide(v, w)
    <2> USE <1>NeitherLess
    <2>1. v.lower \in Nat /\ v.size \in Nat \ {0} /\ w.lower \in Nat /\ w.size \in Nat \ {0}
      BY Zenon DEF ArePages
    <2>2. CASE v.lower <= w.lower
      <3>1. w.lower \in Virtual(v) /\ w.lower \in Virtual(w)
        BY <2>1, <2>2, IntervalsMeet, Zenon DEF page_less_than, Virtual, PageRange
      <3> QED
        BY <3>1, Zenon DEF Collide
    <2>3. CASE w.lower <= v.lower
      <3>1. v.lower \in Virtual(v) /\ v.lower \in Virtual(w)
        BY <2>1, <2>3, IntervalsMeet, Zenon DEF page_less_than, Virtual, PageRange
      <3> QED
        BY <3>1, Zenon DEF Collide
    <2> QED
      BY <2>1, <2>2, <2>3
  <1>NotBothLess.
    ASSUME NEW v \in V, NEW w \in V
    PROVE  ~(page_less_than(v, w) /\ page_less_than(w, v))
    <2>1. v.lower \in Nat /\ v.size \in Nat \ {0} /\ w.lower \in Nat /\ w.size \in Nat \ {0}
      BY Zenon DEF ArePages
    <2> QED
      BY <2>1, IntervalsOrdered, Zenon DEF page_less_than
  <1>RangeAppend.
    ASSUME NEW list \in Seq(V), NEW v \in V
    PROVE  Append(list, v) \in Seq(V) /\ Range(Append(list, v)) = Range(list) \cup {v}
    <2>1. \A i \in 1 .. Len(list) : Append(list, v)[i] = list[i]
      OBVIOUS
    <2>2. Append(list, v)[Len(list) + 1] = v /\ Len(Append(list, v)) = Len(list) + 1
      OBVIOUS
    <2>3. Append(list, v) \in Seq(V) /\ Len(list) \in Nat
      OBVIOUS
    <2>4. Range(list) = {list[i] : i \in 1 .. Len(list)}
      BY DEF Range
    <2>5. Range(Append(list, v)) = {Append(list, v)[i] : i \in 1 .. Len(list) + 1}
      <3>1. DOMAIN Append(list, v) = 1 .. Len(list) + 1
        BY <2>2, <2>3
      <3> QED
        BY <3>1, Zenon DEF Range
    <2> QED
      BY <2>1, <2>2, <2>3, <2>4, <2>5
  <1>MergedMine.
    ASSUME NEW i \in Nat \ {0}, NEW j, NEW out, NEW new,
           mine[i] \in Range(mine), Merged(mine, other, i - 1, j, out),
           Range(new) = Range(out) \cup {mine[i]}
    PROVE  Merged(mine, other, i, j, new)
    <2> USE <1>MergedMine
    <2>1. \A k \in 1 .. i : k = i \/ k \in 1 .. i - 1
      OBVIOUS
    <2>2. \A k \in 1 .. i : mine[k] \in Range(new)
      BY <2>1, Zenon DEF Merged
    <2> QED
      BY <2>2, Zenon DEF Merged
  <1>MergedOther.
    ASSUME NEW i, NEW j \in Nat \ {0}, NEW out,
           other[j] \in Range(other), Merged(mine, other, i, j - 1, out),
           \/ other[j] \in Range(out)
           \/ \E l \in 1 .. Len(mine) : mine[l] \in Range(out) /\ Collide(mine[l], other[j])
    PROVE  Merged(mine, other, i, j, out)
    <2> USE <1>MergedOther
    <2>1. \A k \in 1 .. j : k = j \/ k \in 1 .. j - 1
      OBVIOUS
    <2> QED
      BY <2>1, Zenon DEF Merged
  <1>MergedMore.
    ASSUME NEW i, NEW j, NEW out, NEW new, NEW v \in Range(mine) \cup Range(other),
           Merged(mine, other, i, j, out), Range(new) = Range(out) \cup {v}
    PROVE  Merged(mine, other, i, j, new)
    BY <1>MergedMore, Zenon DEF Merged
  <1>MergeInvIntro.
    ASSUME NEW k, NEW i \in 1 .. Len(mine) + 1,
           NEW j \in 1 .. Len(other) + 1, NEW out \in Seq(V),
           Merged(mine, other, i - 1, j - 1, out),
           i + j >= k + 2 \/ (i = Len(mine) + 1 /\ j = Len(other) + 1)
    PROVE  [mine |-> i, other |-> j, out |-> out] \in MergeInv(V, mine, other, k)
    BY <1>MergeInvIntro, Zenon DEF MergeInv, MergeStates
  <1>MergeStepKeeps.
    ASSUME NEW k \in Nat, NEW x \in MergeInv(V, mine, other, k)
    PROVE  MergeStep(mine, other, x) \in MergeInv(V, mine, other, k + 1)
    <2> USE <1>MergeStepKeeps
    <2> DEFINE y == MergeStep(mine, other, x)
               M == Len(mine)
               N == Len(other)
    <2>1. /\ M \in Nat /\ N \in Nat
          /\ \A n \in 1 .. M : mine[n] \in V /\ mine[n] \in Range(mine)
          /\ \A n \in 1 .. N : other[n] \in V /\ other[n] \in Range(other)
      BY DEF Range
    <2>2. PICK i \in 1 .. M + 1, j \in 1 .. N + 1, out \in Seq(V) :
             /\ x = [mine |-> i, other |-> j, out |-> out]
             /\ i + j >= k + 2 \/ (i = M + 1 /\ j = N + 1)
             /\ Merged(mine, other, i - 1, j - 1, out)
      BY Zenon DEF MergeInv, MergeStates
    <2> DEFINE mineFirst == i <= M /\ (j <= N => page_less_than(mine[i], other[j]))
               otherFirst == j <= N /\ (i <= M => page_less_than(other[j], mine[i]))
    <2>3. y = CASE ~(i <= M) /\ ~(j <= N) -> x
                [] mineFirst -> [mine |-> i + 1, other |-> j, out |-> Append(out, mine[i])]
                [] otherFirst -> [mine |-> i, other |-> j + 1, out |-> Append(out, other[j])]
                [] OTHER -> [mine |-> i + 1, other |-> j + 1, out |-> Append(out, mine[i])]
      BY <2>2, Zenon DEF MergeStep
    <2>4. ~(mineFirst /\ otherFirst)
      <3> SUFFICES ASSUME i <= M, j <= N, page_less_than(mine[i], other[j]), page_less_than(other[j], mine[i])
                   PROVE  FALSE
        BY Zenon
      <3>1. mine[i] \in V /\ other[j] \in V
        BY <2>1
      <3> QED
        BY <3>1, <1>NotBothLess, Zenon
    <2>5. CASE ~(i <= M) /\ ~(j <= N)
      <3>1. i = M + 1 /\ j = N + 1
        BY <2>1, <2>5
      <3>2. y = [mine |-> i, other |-> j, out |-> out]
        BY <2>2, <2>3, <2>5, Zenon
      <3> HIDE DEF y, M, N, mineFirst, otherFirst
      <3> QED
        BY <2>2, <3>1, <3>2, <1>MergeInvIntro, Zenon DEF y, M, N
    <2>6. CASE mineFirst
      <3>1. i \in 1 .. M /\ mine[i] \in V /\ mine[i] \in Range(mine)
        BY <2>1, <2>6
      <3>2. y = [mine |-> i + 1, other |-> j, out |-> Append(out, mine[i])]
        BY <2>3, <2>4, <2>6, Zenon
      <3> HIDE DEF y, mineFirst, otherFirst
      <3> DEFINE v == mine[i]
      <3> HIDE DEF v
      <3>a. v \in V /\ v = mine[i]
        BY <3>1, Zenon DEF v
      <3>b. Append(out, v) \in Seq(V) /\ Range(Append(out, v)) = Range(out) \cup {v}
        BY <3>a, <1>RangeAppend, Zenon
      <3>3. PICK new \in Seq(V) : new = Append(out, mine[i]) /\ Range(new) = Range(out) \cup {mine[i]}
        BY <3>b, Zenon DEF v
      <3>4. Merged(mine, other, i, j - 1, new)
        <4>1. i \in Nat \ {0}
          BY <3>1
        <4> QED
          BY <2>2, <3>1, <3>3, <4>1, <1>MergedMine, Zenon
      <3>5. i + 1 \in 1 .. M + 1 /\ (i + 1) - 1 = i /\ (i + 1) + j >= (k + 1) + 2
        BY <2>1, <2>2, <3>1
      <3> QED
        BY <2>2, <3>2, <3>3, <3>4, <3>5, <1>MergeInvIntro, Zenon DEF y
    <2>7. CASE otherFirst
      <3>1. j \in 1 .. N /\ other[j] \in V /\ other[j] \in Range(other)
        BY <2>1, <2>7
      <3>2. y = [mine |-> i, other |-> j + 1, out |-> Append(out, other[j])]
        BY <2>3, <2>4, <2>7, Zenon
      <3> HIDE DEF y, mineFirst, otherFirst
      <3> DEFINE v == other[j]
      <3> HIDE DEF v
      <3>a. v \in V /\ v = other[j]
        BY <3>1, Zenon DEF v
      <3>b. Append(out, v) \in Seq(V) /\ Range(Append(out, v)) = Range(out) \cup {v}
        BY <3>a, <1>RangeAppend, Zenon
      <3>3. PICK new \in Seq(V) : new = Append(out, other[j]) /\ Range(new) = Range(out) \cup {other[j]}
        BY <3>b, Zenon DEF v
      <3>4. Merged(mine, other, i - 1, j - 1, new)
        BY <2>2, <3>1, <3>3, <1>MergedMore, Zenon
      <3>5. Merged(mine, other, i - 1, j, new)
        <4>1. other[j] \in Range(new) /\ j \in Nat \ {0}
          BY <3>1, <3>3
        <4> QED
          BY <3>1, <3>4, <4>1, <1>MergedOther, Zenon
      <3>6. j + 1 \in 1 .. N + 1 /\ (j + 1) - 1 = j /\ i + (j + 1) >= (k + 1) + 2
        BY <2>1, <2>2, <3>1
      <3> QED
        BY <2>2, <3>2, <3>3, <3>5, <3>6, <1>MergeInvIntro, Zenon DEF y
    <2>8. CASE (i <= M \/ j <= N) /\ ~mineFirst /\ ~otherFirst
      <3>1. /\ i \in 1 .. M /\ mine[i] \in V /\ mine[i] \in Range(mine)
            /\ j \in 1 .. N /\ other[j] \in V /\ other[j] \in Range(other)
            /\ ~page_less_than(mine[i], other[j]) /\ ~page_less_than(other[j], mine[i])
        BY <2>1, <2>8
      <3>2. y = [mine |-> i + 1, other |-> j + 1, out |-> Append(out, mine[i])]
        BY <2>3, <2>8, Zenon
      <3> HIDE DEF y, mineFirst, otherFirst
      <3> DEFINE v == mine[i]
      <3> HIDE DEF v
      <3>a. v \in V /\ v = mine[i]
        BY <3>1, Zenon DEF v
      <3>b. Append(out, v) \in Seq(V) /\ Range(Append(out, v)) = Range(out) \cup {v}
        BY <3>a, <1>RangeAppend, Zenon
      <3>3. PICK new \in Seq(V) : new = Append(out, mine[i]) /\ Range(new) = Range(out) \cup {mine[i]}
        BY <3>b, Zenon DEF v
      <3>4. Merged(mine, other, i, j - 1, new)
        <4>1. i \in Nat \ {0}
          BY <3>1
        <4> QED
          BY <2>2, <3>1, <3>3, <4>1, <1>MergedMine, Zenon
      <3>5. Collide(mine[i], other[j])
        BY <3>1, <1>NeitherLess, Zenon
      <3>6. Merged(mine, other, i, j, new)
        <4>1. \E l \in 1 .. Len(mine) : mine[l] \in Range(new) /\ Collide(mine[l], other[j])
          BY <3>1, <3>3, <3>5, Zenon
        <4>2. j \in Nat \ {0}
          BY <3>1
        <4> QED
          BY <3>1, <3>4, <4>1, <4>2, <1>MergedOther, Zenon
      <3>7. /\ i + 1 \in 1 .. M + 1 /\ (i + 1) - 1 = i /\ (i + 1) + (j + 1) >= (k + 1) + 2
            /\ j + 1 \in 1 .. N + 1 /\ (j + 1) - 1 = j
        BY <2>1, <2>2, <3>1
      <3> QED
        BY <2>2, <3>2, <3>3, <3>6, <3>7, <1>MergeInvIntro, Zenon DEF y
    <2> QED
      BY <2>5, <2>6, <2>7, <2>8, Zenon
  (* PhysicalPage::Merge: the entries of the page merged into all stay, and*)
  (* an entry of the other page is dropped only for one of them that       *)
  (* overlaps it.                                                          *)
  <1>MergePagesKeeps.
         /\ MergePages(mine, other) \in Seq(V)
           /\ Merged(mine, other, Len(mine), Len(other), MergePages(mine, other))
    <2> DEFINE n == Len(mine) + Len(other)
               start == [mine |-> 1, other |-> 1, out |-> <<>>]
               D == MergeInv(V, mine, other, 0)
               S == MergeStates(V, mine, other)
               Loop(f) == f = [k \in 0 .. n |-> IF k = 0 THEN start ELSE MergeStep(mine, other, f[k - 1])]
               merge == CHOOSE f : Loop(f)
               I == [k \in Nat |-> MergeInv(V, mine, other, k)]
               G == [k \in 0 .. n |-> [x \in D |-> MergeStep(mine, other, x)]]
    <2>1. n \in Nat /\ Len(mine) \in Nat /\ Len(other) \in Nat
      OBVIOUS
    <2>2. start \in D
      <3>1. <<>> \in Seq(V) /\ Range(<<>>) = {}
        BY DEF Range
      <3>2. Merged(mine, other, 1 - 1, 1 - 1, <<>>)
        BY <3>1 DEF Merged
      <3>3. 1 \in 1 .. Len(mine) + 1 /\ 1 \in 1 .. Len(other) + 1 /\ 1 + 1 >= 0 + 2
        BY <2>1
      <3> QED
        BY <3>1, <3>2, <3>3, <1>MergeInvIntro, Zenon
    <2>3. \A k \in Nat : MergeInv(V, mine, other, k) \subseteq D
      BY <2>1 DEF MergeInv, MergeStates
    <2>4. G \in [0 .. n -> [D -> D]]
      <3>1. ASSUME NEW x \in D PROVE MergeStep(mine, other, x) \in D
        BY <2>3, <1>MergeStepKeeps
      <3> QED
        BY <3>1, Zenon
    <2>5. PICK f : f \in [0 .. n -> D] /\ f[0] = start /\ \A k \in 1 .. n : f[k] = G[k][f[k - 1]]
      <3>1. \E f : IsLoop(n, D, start, G, f)
        <4> HIDE DEF n, D, start, G
        <4> QED
          BY <2>1, <2>2, <2>4, LoopExists, Zenon
      <3> QED
        BY <3>1, Zenon DEF IsLoop
    <2>6. ASSUME NEW k \in 1 .. n PROVE f[k] = MergeStep(mine, other, f[k - 1])
      <3>1. k \in 0 .. n /\ k - 1 \in 0 .. n
        BY <2>1
      <3>2. f[k - 1] \in D
        BY <2>5, <3>1, Zenon
      <3> QED
        BY <2>5, <3>1, <3>2, Zenon
    <2>7. Loop(f)
      BY <2>1, <2>5, <2>6
    <2>8. Loop(merge)
      BY <2>7, Zenon
    <2>9. merge[0] = start /\ \A k \in 1 .. n : merge[k] = MergeStep(mine, other, merge[k - 1])
      <3> HIDE DEF merge
      <3>1. \A k \in 0 .. n : merge[k] = IF k = 0 THEN start ELSE MergeStep(mine, other, merge[k - 1])
        BY <2>8, Zenon
      <3>2. 0 \in 0 .. n /\ \A k \in 1 .. n : k \in 0 .. n /\ k # 0
        BY <2>1
      <3> HIDE DEF n, start, Loop
      <3> QED
        BY <3>1, <3>2, Zenon
    <2>10. merge[0] \in I[0]
      BY <2>2, <2>9, Zenon
    <2>11. ASSUME NEW k \in 1 .. n, merge[k - 1] \in I[k - 1] PROVE merge[k] \in I[k]
      <3> HIDE DEF merge
      <3>1. k - 1 \in Nat /\ k \in Nat /\ (k - 1) + 1 = k
        BY <2>1
      <3>2. merge[k - 1] \in MergeInv(V, mine, other, k - 1)
        BY <2>11, <3>1, Zenon
      <3> QED
        BY <2>9, <3>1, <3>2, <1>MergeStepKeeps, Zenon
    <2>12. merge[n] \in I[n]
      <3> HIDE DEF merge, I, n
      <3>1. n \in Nat /\ n \in 0 .. n
        BY <2>1
      <3>2. \A k \in 1 .. n : merge[k - 1] \in I[k - 1] => merge[k] \in I[k]
        BY <2>11, Zenon
      <3>3. \A k \in 0 .. n : merge[k] \in I[k]
        BY <2>10, <3>1, <3>2, LoopInvariant, Zenon
      <3> QED
        BY <3>1, <3>3, Zenon
    <2>13. MergePages(mine, other) = merge[n].out
      BY Zenon DEF MergePages
    <2>14. PICK x : x = merge[n]
      BY Zenon
    <2>15. x \in MergeInv(V, mine, other, n)
      <3> HIDE DEF merge
      <3> QED
        BY <2>1, <2>12, <2>14, Zenon
    <2>16. /\ x.mine \in 1 .. Len(mine) + 1 /\ x.other \in 1 .. Len(other) + 1 /\ x.out \in Seq(V)
           /\ Merged(mine, other, x.mine - 1, x.other - 1, x.out)
           /\ x.mine + x.other >= n + 2 \/ (x.mine = Len(mine) + 1 /\ x.other = Len(other) + 1)
      BY <2>15, Zenon DEF MergeInv, MergeStates
    <2>17. x.mine - 1 = Len(mine) /\ x.other - 1 = Len(other)
      <3>1. Len(mine) \in Nat /\ Len(other) \in Nat
        OBVIOUS
      <3>2. UsedUp(x.mine, Len(mine), x.other, Len(other))
        BY <2>16, <3>1, MergeEnds, Zenon
      <3> QED
        BY <3>2, Zenon DEF UsedUp
    <2> QED
      BY <2>13, <2>14, <2>16, <2>17, Zenon
  <1> DEFINE out == MergePages(mine, other)
  <1>1. out \in Seq(V) /\ Merged(mine, other, Len(mine), Len(other), out)
    BY <1>MergePagesKeeps, Zenon
  <1>2. /\ Range(mine) = {mine[i] : i \in 1 .. Len(mine)}
        /\ Range(other) = {other[i] : i \in 1 .. Len(other)}
    BY DEF Range
  <1> HIDE DEF out
  <1>3. Range(mine) \subseteq Range(out)
    BY <1>1, <1>2, Zenon DEF Merged
  <1>4. KeptOrEqual(Range(other), Range(out))
    BY <1>1, <1>2, Zenon DEF Merged, KeptOrEqual
  <1> QED
    BY <1>1, <1>3, <1>4, Zenon DEF Merged, out

(* The pages of over whose frames begin below a are merged into list.      *)
Gathered(V, over, a) ==
    {list \in Seq(V) :
        /\ Range(list) \subseteq UNION {Listed(p) : p \in over}
        /\ \A p \in over : p.lower < a => KeptOrEqual(Listed(p), Range(list))}

GatherStep(over, a, list) ==
    IF \E p \in over : p.lower = a - 1
    THEN MergePages(list, (CHOOSE p \in over : p.lower = a - 1).virtuals)
    ELSE list

(* The merge of all overlapped pages keeps every virtual page or one that  *)
(* overlaps it.                                                            *)
LEMMA MergeVirtualsKeeps ==
  ASSUME NEW V, ArePages(V), NEW over \in SUBSET PhysicalPages(V),
         \A p, q \in over : p.lower = q.lower => p = q, \A p \in over : p.lower \in Addresses
  PROVE  /\ MergeVirtuals(over) \in Seq(V)
         /\ Range(MergeVirtuals(over)) \subseteq UNION {Listed(p) : p \in over}
         /\ \A p \in over : KeptOrEqual(Listed(p), Range(MergeVirtuals(over)))
  <1>GatherStepKeeps.
    ASSUME NEW a \in Nat \ {0}, NEW list \in Gathered(V, over, a - 1)
    PROVE  GatherStep(over, a, list) \in Gathered(V, over, a)
    <2> USE <1>GatherStepKeeps
    <2>1. CASE \E p \in over : p.lower = a - 1
      <3> DEFINE p == CHOOSE p \in over : p.lower = a - 1
                 new == MergePages(list, p.virtuals)
      <3>1. p \in over /\ p.lower = a - 1
        BY <2>1, Zenon
      <3>2. GatherStep(over, a, list) = new
        BY <2>1, Zenon DEF GatherStep
      <3> HIDE DEF p
      <3>3. list \in Seq(V) /\ p.virtuals \in Seq(V) /\ Listed(p) = Range(p.virtuals)
        BY <3>1, Zenon DEF Gathered, PhysicalPages, Listed, Range
      <3>4. /\ new \in Seq(V) /\ Range(list) \subseteq Range(new)
            /\ Range(new) \subseteq Range(list) \cup Listed(p)
            /\ KeptOrEqual(Listed(p), Range(new))
        BY <3>3, MergePagesRange
      <3> HIDE DEF new
      <3>5. Range(new) \subseteq UNION {Listed(q) : q \in over}
        BY <3>1, <3>4, Zenon DEF Gathered
      <3>6. ASSUME NEW q \in over, q.lower < a PROVE KeptOrEqual(Listed(q), Range(new))
        <4>1. CASE q = p
          BY <3>4, <4>1, Zenon
        <4>2. CASE q # p
          <5>1. q.lower \in Nat /\ q.lower # a - 1
            BY <3>1, <4>2, Zenon DEF PhysicalPages
          <5>2. q.lower < a - 1
            BY <3>6, <5>1
          <5>3. KeptOrEqual(Listed(q), Range(list))
            BY <5>2, Zenon DEF Gathered
          <5> QED
            BY <3>4, <5>3, Zenon DEF KeptOrEqual
        <4> QED
          BY <4>1, <4>2, Zenon
      <3> QED
        BY <3>2, <3>4, <3>5, <3>6, Zenon DEF Gathered
    <2>2. CASE ~\E p \in over : p.lower = a - 1
      <3>1. GatherStep(over, a, list) = list
        BY <2>2, Zenon DEF GatherStep
      <3>2. ASSUME NEW q \in over, q.lower < a PROVE q.lower < a - 1
        <4>1. q.lower \in Nat /\ q.lower # a - 1
          BY <2>2, Zenon DEF PhysicalPages
        <4> QED
          BY <3>2, <4>1
      <3> QED
        BY <3>1, <3>2, Zenon DEF Gathered
    <2> QED
      BY <2>1, <2>2, Zenon
  <1> DEFINE n == Top + 1
             D == Seq(V)
             Loop(f) == f = [a \in 0 .. n |-> IF a = 0 THEN <<>> ELSE GatherStep(over, a, f[a - 1])]
             merged == CHOOSE f : Loop(f)
             I == [a \in Nat |-> Gathered(V, over, a)]
             G == [a \in 0 .. n |-> [list \in D |-> GatherStep(over, a, list)]]
  <1>1. n \in Nat
    BY PageAssumption
  <1>2. <<>> \in D /\ <<>> \in Gathered(V, over, 0)
    <2>1. <<>> \in Seq(V) /\ Range(<<>>) = {}
      BY DEF Range
    <2>2. \A p \in over : ~(p.lower < 0)
      BY DEF PhysicalPages
    <2> QED
      BY <2>1, <2>2, Zenon DEF Gathered
  <1>3. ASSUME NEW a \in 0 .. n, NEW list \in D PROVE GatherStep(over, a, list) \in D
    <2>1. CASE \E p \in over : p.lower = a - 1
      <3> DEFINE p == CHOOSE p \in over : p.lower = a - 1
      <3>1. p \in over
        BY <2>1, Zenon
      <3>2. GatherStep(over, a, list) = MergePages(list, p.virtuals)
        BY <2>1, Zenon DEF GatherStep
      <3> HIDE DEF p
      <3>3. p.virtuals \in Seq(V)
        BY <3>1, Zenon DEF PhysicalPages
      <3> QED
        BY <3>2, <3>3, MergePagesRange, Zenon
    <2>2. CASE ~\E p \in over : p.lower = a - 1
      BY <2>2, Zenon DEF GatherStep
    <2> QED
      BY <2>1, <2>2, Zenon
  <1>4. G \in [0 .. n -> [D -> D]]
    BY <1>3, Zenon
  <1>5. PICK f : f \in [0 .. n -> D] /\ f[0] = <<>> /\ \A a \in 1 .. n : f[a] = G[a][f[a - 1]]
    <2>1. \E f : IsLoop(n, D, <<>>, G, f)
      <3> HIDE DEF n, D, G
      <3> QED
        BY <1>1, <1>2, <1>4, LoopExists, Zenon
    <2> QED
      BY <2>1, Zenon DEF IsLoop
  <1>6. ASSUME NEW a \in 1 .. n PROVE f[a] = GatherStep(over, a, f[a - 1])
    <2>1. a \in 0 .. n /\ a - 1 \in 0 .. n
      BY <1>1
    <2>2. f[a - 1] \in D
      BY <1>5, <2>1, Zenon
    <2> HIDE DEF D
    <2> QED
      BY <1>5, <2>1, <2>2, Zenon
  <1>7. Loop(f)
    <2> HIDE DEF n, D
    <2> QED
      BY <1>1, <1>5, <1>6
  <1>8. Loop(merged)
    BY <1>7, Zenon
  <1>9. merged[0] = <<>> /\ \A a \in 1 .. n : merged[a] = GatherStep(over, a, merged[a - 1])
    <2> HIDE DEF merged
    <2>1. \A a \in 0 .. n : merged[a] = IF a = 0 THEN <<>> ELSE GatherStep(over, a, merged[a - 1])
      BY <1>8, Zenon
    <2>2. 0 \in 0 .. n /\ \A a \in 1 .. n : a \in 0 .. n /\ a # 0
      BY <1>1
    <2> HIDE DEF n, Loop
    <2> QED
      BY <2>1, <2>2, Zenon
  <1>10. \A a \in 0 .. n : merged[a] \in I[a]
    <2>1. merged[0] \in I[0]
      BY <1>2, <1>9, Zenon
    <2>2. ASSUME NEW a \in 1 .. n, merged[a - 1] \in I[a - 1] PROVE merged[a] \in I[a]
      <3> HIDE DEF merged
      <3>1. a - 1 \in Nat /\ a \in Nat \ {0}
        BY <1>1
      <3>2. merged[a - 1] \in Gathered(V, over, a - 1)
        BY <2>2, <3>1, Zenon
      <3> QED
        BY <1>9, <3>1, <3>2, <1>GatherStepKeeps
    <2> HIDE DEF merged, I, n
    <2> QED
      BY <1>1, <2>1, <2>2, LoopInvariant, Zenon
  <1>11. merged[n] \in Gathered(V, over, n)
    <2> HIDE DEF merged
    <2> QED
      BY <1>1, <1>10
  <1>12. MergeVirtuals(over) = merged[n]
    BY Zenon DEF MergeVirtuals, GatherStep
  <1>13. \A p \in over : p.lower < n
    BY PageAssumption DEF Addresses
  <1> HIDE DEF merged
  <1> QED
    BY <1>11, <1>12, <1>13, Zenon DEF Gathered

-----------------------------------------------------------------------------
(* Allocation *)

(* What an allocation leaves of the pages of the manager m: each is in a   *)
(* page now, with its virtual pages but those a merge found equal to       *)
(* others, and no page lists others than those of the pages inside it.     *)
PagesCarried(m, after) ==
    /\ \A q \in m.pages : \E p \in after.pages :
          Frame(q) \subseteq Frame(p) /\ KeptOrEqual(Listed(q), Listed(p))
    /\ \A p \in after.pages : \A v \in Listed(p) :
          \E q \in m.pages : v \in Listed(q) /\ Frame(q) \subseteq Frame(p)

(* The promise of an allocation that finds a page: no FAIL, the books      *)
(* agree, the page is inside one physical page, and a request without      *)
(* privileges got it on no page that is closed to aliasing.                *)
GoodOutcome(V, m, size, request, o) ==
    /\ o.failure = "none"
    /\ PoolInv(V, o.manager)
    /\ PagesCarried(m, o.manager)
    /\ o.start \in Nat
    /\ IsFrame(PageRange(o.start, size))
    /\ \E p \in o.manager.pages : PageRange(o.start, size) \subseteq Frame(p)
    /\ ~request.flat /\ ~request.forceMemAttrs =>
          \A p \in PagesIn(m, PageRange(o.start, size)) : p.canAlias

(* Nothing is dropped from a list that grows.                              *)
LEMMA KeptItself ==
  ASSUME NEW S, NEW T, S \subseteq T
  PROVE  KeptOrEqual(S, T)
  BY Zenon DEF KeptOrEqual

(* Pages of the manager whose frames begin at one address are one page.    *)
LEMMA FramesByStart ==
  ASSUME NEW V, NEW m, PoolInv(V, m)
  PROVE  /\ \A p \in m.pages : p.lower \in Frame(p) /\ p.lower \in Addresses
         /\ \A p, q \in m.pages : p.lower = q.lower => p = q
  <1>1. ASSUME NEW p \in m.pages PROVE p.lower \in Frame(p) /\ Frame(p) \subseteq Addresses
    <2>1. Frame(p) # {} /\ Frame(p) \subseteq Addresses /\ p.lower \in Nat /\ p.upper \in Nat
      BY FrameNotEmpty, Zenon DEF PoolInv, Managers, PhysicalPages
    <2> QED
      BY <2>1 DEF Frame
  <1> QED
    BY <1>1, Zenon DEF PoolInv

(* AllocatePage keeps its promise, whichever way it takes.                 *)
LEMMA AllocatePageGood ==
  ASSUME NEW V, ArePages(V), NEW m, PoolInv(V, m), NEW VA \in Addresses, NEW size \in PageSizes,
         NEW request, request.canAlias \in BOOLEAN, request.pa \in Addresses, NEW aliasFirst,
         NEW outcome \in AllocatePage(m, VA, size, request, aliasFirst), outcome.found
  PROVE  GoodOutcome(V, m, size, request, outcome)
  (* A page that overlaps a frame covers it, or is inside it.              *)
  <1>PagesInFrame.
    ASSUME NEW range, IsFrame(range), NEW p \in PagesIn(m, range)
    PROVE  range \subseteq Frame(p) \/ Frame(p) \subseteq range
    BY <1>PagesInFrame, FramesNest, Zenon DEF PoolInv, PagesIn, Overlaps
  (* Several pages in a frame are all inside it.                           *)
  <1>PagesInside.
    ASSUME NEW range, IsFrame(range),
           \A p \in m.pages : PagesIn(m, range) = {p} => ~(range \subseteq Frame(p))
    PROVE  \A p \in PagesIn(m, range) : Frame(p) \subseteq range
    <2> USE <1>PagesInside
    <2> SUFFICES ASSUME NEW p \in PagesIn(m, range), range \subseteq Frame(p) PROVE FALSE
      BY <1>PagesInFrame, Zenon
    <2>1. PagesIn(m, range) = {p}
      BY OnePageIn, FrameNotEmpty DEF PagesIn
    <2> QED
      BY <2>1, Zenon DEF PagesIn
  <1>NewPageFields.
    ASSUME NEW start \in Nat, NEW virtuals \in Seq(V)
    PROVE  /\ NewPage(start, size, request, virtuals) \in PhysicalPages(V)
           /\ Frame(NewPage(start, size, request, virtuals)) = PageRange(start, size)
           /\ Listed(NewPage(start, size, request, virtuals)) = Range(virtuals)
    <2> DEFINE p == NewPage(start, size, request, virtuals)
    <2>1. /\ p.lower = start /\ p.upper = start + size - 1 /\ p.canAlias = request.canAlias
          /\ p.virtuals = virtuals
          /\ p = [lower |-> start, upper |-> start + size - 1, canAlias |-> request.canAlias,
                  virtuals |-> virtuals]
      BY Zenon DEF NewPage
    <2>2. start + size - 1 \in Nat
      BY PageAssumption
    <2> QED
      BY <2>1, <2>2, PageAssumption, Zenon DEF PhysicalPages, Frame, PageRange, Listed, Range
  (* A new page that takes the place of the pages inside it, with their    *)
  (* merged lists.                                                         *)
  <1>MergeGood.
    ASSUME NEW start \in Nat, IsFrame(PageRange(start, size)),
           NEW over, over = PagesIn(m, PageRange(start, size)),
           \A q \in over : Frame(q) \subseteq PageRange(start, size),
           NEW virtuals \in Seq(V), Range(virtuals) \subseteq UNION {Listed(q) : q \in over},
           \A q \in over : KeptOrEqual(Listed(q), Range(virtuals))
    PROVE  LET after == AddPhysicalPage([m EXCEPT !.pages = @ \ over],
                                        NewPage(start, size, request, virtuals))
           IN  /\ PoolInv(V, after)
               /\ PagesCarried(m, after)
               /\ \E p \in after.pages : PageRange(start, size) \subseteq Frame(p)
    <2> USE <1>MergeGood
    <2> DEFINE after == AddPhysicalPage([m EXCEPT !.pages = @ \ over],
                                        NewPage(start, size, request, virtuals))
    <2>1. PICK p \in PhysicalPages(V) :
             /\ p = NewPage(start, size, request, virtuals)
             /\ Frame(p) = PageRange(start, size)
             /\ Listed(p) = Range(virtuals)
      BY PageAssumption, <1>NewPageFields, Zenon
    <2>2. PoolInv(V, after) /\ after.pages = (m.pages \ over) \cup {p}
      BY <2>1, AddPhysicalPageKeeps
    <2> HIDE DEF after
    <2>3. ASSUME NEW q \in m.pages
          PROVE  \E r \in after.pages : Frame(q) \subseteq Frame(r) /\ KeptOrEqual(Listed(q), Listed(r))
      <3>1. CASE q \in over
        BY <2>1, <2>2, <3>1
      <3>2. CASE q \notin over
        BY <2>2, <3>2, KeptItself, Zenon
      <3> QED
        BY <3>1, <3>2, Zenon
    <2>4. ASSUME NEW r \in after.pages, NEW v \in Listed(r)
          PROVE  \E q \in m.pages : v \in Listed(q) /\ Frame(q) \subseteq Frame(r)
      <3>1. CASE r = p
        <4>1. PICK q \in over : v \in Listed(q)
          BY <2>1, <3>1
        <4> QED
          BY <2>1, <3>1, <4>1 DEF PagesIn
      <3>2. CASE r # p
        BY <2>2, <3>2, Zenon
      <3> QED
        BY <3>1, <3>2, Zenon
    <2>5. PagesCarried(m, after)
      BY <2>3, <2>4, Zenon DEF PagesCarried
    <2> QED
      BY <2>1, <2>2, <2>5, Zenon DEF after
  <1>NewAllocationGood.
    ASSUME NEW o \in NewAllocation(m, VA, size, request), o.found
    PROVE  GoodOutcome(V, m, size, request, o)
    <2> USE <1>NewAllocationGood
    <2>1. PICK n \in m.aligned[size] :
             o = Found(AddPhysicalPage(m, NewPage(n * size, size, request, <<>>)), n * size)
      <3>1. ~NoPage(m).found
        BY Zenon DEF NoPage
      <3>2. Frames(m, VA, size, request) \subseteq m.aligned[size]
        BY Zenon DEF Frames
      <3> QED
        BY <3>1, <3>2, Zenon DEF NewAllocation
    <2>2. n \in PageNumbers(size) /\ PageRange(n * size, size) \subseteq m.free
      <3>1. m.aligned[size] =
              {k \in PageNumbers(size) : PageRange(k * size, size) \subseteq m.free}
        BY Zenon DEF PoolInv
      <3> QED
        BY <3>1, Zenon
    <2>3. n \in Nat /\ size \in Nat \ {0} /\ n * size \in Nat
      BY <2>2, PageAssumption DEF PageNumbers
    <2>4. IsFrame(PageRange(n * size, size))
      BY <2>2, <2>3, Zenon DEF IsFrame, PoolInv
    <2>5. PagesIn(m, PageRange(n * size, size)) = {}
      BY <2>2 DEF PoolInv, PagesIn, Overlaps
    <2>6. <<>> \in Seq(V) /\ Range(<<>>) = {}
      BY DEF Range
    <2>a. PICK start : start = n * size
      BY Zenon
    <2>b. PICK over : over = {}
      BY Zenon
    <2>c. PICK virtuals : virtuals = <<>>
      BY Zenon
    <2>7. /\ start \in Nat /\ start = n * size /\ over = {}
          /\ virtuals \in Seq(V) /\ virtuals = <<>> /\ Range(virtuals) = {}
      BY <2>3, <2>6, <2>a, <2>b, <2>c, Zenon
    <2>8. m = [m EXCEPT !.pages = @ \ over]
      BY <2>7 DEF PoolInv, Managers
    <2> DEFINE after == AddPhysicalPage([m EXCEPT !.pages = @ \ over],
                                        NewPage(start, size, request, virtuals))
    <2>11. /\ IsFrame(PageRange(start, size)) /\ over = PagesIn(m, PageRange(start, size))
           /\ \A q \in over : Frame(q) \subseteq PageRange(start, size)
           /\ Range(virtuals) \subseteq UNION {Listed(q) : q \in over}
           /\ \A q \in over : KeptOrEqual(Listed(q), Range(virtuals))
      BY <2>4, <2>5, <2>7, Zenon
    <2>12. /\ PoolInv(V, after) /\ PagesCarried(m, after)
           /\ \E p \in after.pages : PageRange(start, size) \subseteq Frame(p)
      <3>1. start \in Nat /\ virtuals \in Seq(V)
        BY <2>7, Zenon
      <3> QED
        BY <3>1, <2>11, <1>MergeGood, Zenon
    <2> HIDE DEF after
    <2>13. o.failure = "none" /\ o.manager = after /\ o.start = start
      <3>1. o = Found(after, start)
        BY <2>1, <2>7, <2>8, Zenon DEF after
      <3> QED
        BY <3>1, Zenon DEF Found
    <2> QED
      BY <2>7, <2>11, <2>12, <2>13, Zenon DEF GoodOutcome
  <1>MergeAllGood.
    ASSUME NEW start \in Nat, IsFrame(PageRange(start, size)),
           NEW over, over = PagesIn(m, PageRange(start, size)),
           \A q \in over : Frame(q) \subseteq PageRange(start, size),
           ~request.flat /\ ~request.forceMemAttrs => \A q \in over : q.canAlias
    PROVE  /\ GoodOutcome(V, m, size, request, MergeAll(m, start, size, request, over))
           /\ MergeAll(m, start, size, request, over).start = start
    <2> USE <1>MergeAllGood
    <2> DEFINE virtuals == MergeVirtuals(over)
               after == AddPhysicalPage([m EXCEPT !.pages = @ \ over],
                                        NewPage(start, size, request, virtuals))
               o == MergeAll(m, start, size, request, over)
    <2>1. over \in SUBSET PhysicalPages(V) /\ over \subseteq m.pages
      BY Zenon DEF PoolInv, Managers, PagesIn
    <2>2. /\ virtuals \in Seq(V) /\ Range(virtuals) \subseteq UNION {Listed(p) : p \in over}
          /\ \A p \in over : KeptOrEqual(Listed(p), Range(virtuals))
      <3>1. (\A p, q \in over : p.lower = q.lower => p = q) /\ \A p \in over : p.lower \in Addresses
        BY <2>1, FramesByStart, Zenon
      <3> QED
        BY <2>1, <3>1, MergeVirtualsKeeps, Zenon
    <2>3. o = [Found(after, start) EXCEPT !.failure = "none"]
      BY Zenon DEF MergeAll
    <2> HIDE DEF virtuals
    <2>5. /\ PoolInv(V, after) /\ PagesCarried(m, after)
          /\ \E p \in after.pages : PageRange(start, size) \subseteq Frame(p)
      BY <2>2, <1>MergeGood, Zenon
    <2> HIDE DEF o, after
    <2>6. o.failure = "none" /\ o.manager = after /\ o.start = start
      BY <2>3, Zenon DEF Found
    <2> QED
      BY <2>5, <2>6, Zenon DEF GoodOutcome, o
  (* A page is replaced by one with the same frame and a list as long.     *)
  <1>ReplaceCarries.
    ASSUME NEW p \in m.pages, NEW q, Frame(q) = Frame(p), Listed(q) = Listed(p),
           NEW after, after.pages = (m.pages \ {p}) \cup {q}
    PROVE  PagesCarried(m, after)
    <2> USE <1>ReplaceCarries
    <2>1. ASSUME NEW r \in m.pages
          PROVE  \E t \in after.pages : Frame(r) \subseteq Frame(t) /\ KeptOrEqual(Listed(r), Listed(t))
      <3>1. CASE r = p
        BY <3>1, KeptItself, Zenon
      <3>2. CASE r # p
        BY <3>2, KeptItself, Zenon
      <3> QED
        BY <3>1, <3>2, Zenon
    <2>2. ASSUME NEW t \in after.pages, NEW v \in Listed(t)
          PROVE  \E r \in m.pages : v \in Listed(r) /\ Frame(r) \subseteq Frame(t)
      BY Zenon
    <2> QED
      BY <2>1, <2>2, Zenon DEF PagesCarried
  <1>SameCarries.
         PagesCarried(m, m)
    BY KeptItself, Zenon DEF PagesCarried
  <1>AliasInsideGood.
    ASSUME NEW start \in Nat, IsFrame(PageRange(start, size)),
           NEW p \in m.pages, PageRange(start, size) \subseteq Frame(p),
           NEW o, o = AliasInside(m, start, p, request), o.found
    PROVE  GoodOutcome(V, m, size, request, o) /\ o.start = start
    <2> USE <1>AliasInsideGood
    <2>1. PagesIn(m, PageRange(start, size)) = {p}
      BY OnePageIn, FrameNotEmpty
    <2>2. request.flat \/ p.canAlias
      BY Zenon DEF AliasInside, NoPage
    <2>3. CASE o = Found(m, start)
      <3>1. o.failure = "none" /\ o.manager = m /\ o.start = start
        BY <2>3 DEF Found
      <3> QED
        BY <2>1, <2>2, <3>1, <1>SameCarries, Zenon DEF GoodOutcome
    <2>4. CASE o # Found(m, start)
      <3> DEFINE q == [p EXCEPT !.canAlias = FALSE]
                 E == m.exclude \cup Frame(p)
                 after == ReplacePage(m, p, q, E)
      <3>1. o = Found(after, start)
        BY <2>4, Zenon DEF AliasInside, NoPage, ReplacePage
      <3>2. /\ Frame(q) = Frame(p) /\ Listed(q) = Listed(p)
            /\ PoolInv(V, after) /\ after.pages = (m.pages \ {p}) \cup {q}
        BY AliasingOff, Zenon
      <3> HIDE DEF after, q
      <3>3. PagesCarried(m, after)
        BY <3>2, <1>ReplaceCarries, Zenon
      <3>4. o.failure = "none" /\ o.manager = after /\ o.start = start
        <4>1. /\ Found(after, start).failure = "none" /\ Found(after, start).manager = after
              /\ Found(after, start).start = start
          BY Zenon DEF Found
        <4> QED
          BY <3>1, <4>1, Zenon
      <3> QED
        BY <2>1, <2>2, <3>2, <3>3, <3>4, Zenon DEF GoodOutcome
    <2> QED
      BY <2>3, <2>4, Zenon
  (* A set of one member, seen through CHOOSE.                             *)
  <1>ChooseOnly.
    ASSUME NEW S, NEW x \in S, \A y \in S : y = x
    PROVE  (CHOOSE y \in S : TRUE) = x
    BY <1>ChooseOnly, Zenon
  <1>AliasAtGood.
    ASSUME NEW start \in Nat, IsFrame(PageRange(start, size)),
           NEW o, o = AliasAt(m, start, size, request), o.found
    PROVE  GoodOutcome(V, m, size, request, o) /\ o.start = start
    <2> USE <1>AliasAtGood
    <2> DEFINE range == PageRange(start, size)
               over == PagesIn(m, range)
               refused == ~request.flat /\ \E p \in over : ~p.canAlias
               one == \E p \in over : over = {p}
    <2>1. o = CASE over = {} -> NoPage(m)
                [] one /\ \E p \in over : range \subseteq Frame(p) ->
                       AliasInside(m, start, CHOOSE p \in over : TRUE, request)
                [] one /\ \A p \in over : ~(range \subseteq Frame(p)) ->
                       IF refused THEN NoPage(m)
                       ELSE MergeAll(m, start, size, request, over)
                [] OTHER ->
                       IF ~request.forceMemAttrs /\ refused THEN NoPage(m)
                       ELSE MergeAll(m, start, size, request, over)
      BY Zenon DEF AliasAt
    <2>2. ~NoPage(m).found
      BY Zenon DEF NoPage
    <2>3. one => over # {}
      BY Zenon
    <2>4. over # {}
      BY <2>1, <2>2, <2>3, Zenon
    <2> HIDE DEF one
    <2>5. CASE one /\ \E p \in over : range \subseteq Frame(p)
      <3>1. PICK p \in over : range \subseteq Frame(p)
        BY <2>5, Zenon
      <3>2. p \in m.pages
        BY <3>1, Zenon DEF PagesIn
      <3>3. over = {p}
        <4>1. range # {}
          BY FrameNotEmpty, Zenon
        <4> HIDE DEF range, refused
        <4> QED
          BY <3>1, <3>2, <4>1, OnePageIn
      <3>4. (CHOOSE q \in over : TRUE) = p
        <4> HIDE DEF over
        <4> QED
          BY <3>3, <1>ChooseOnly, Zenon
      <3>5. o = AliasInside(m, start, p, request)
        BY <2>1, <2>4, <2>5, <3>4, Zenon
      <3> QED
        BY <3>1, <3>2, <3>5, <1>AliasInsideGood, Zenon
    <2>6. CASE ~(one /\ \E p \in over : range \subseteq Frame(p))
      <3>1. \A p \in over : Frame(p) \subseteq range
        <4>1. \A p \in m.pages : over = {p} => ~(range \subseteq Frame(p))
          BY <2>6, Zenon DEF one
        <4> QED
          BY <4>1, <1>PagesInside, Zenon
      <3>2. o = MergeAll(m, start, size, request, over) /\ (refused => request.forceMemAttrs)
        <4> HIDE DEF over, range, refused
        <4> QED
          BY <2>1, <2>2, <2>4, <2>6, Zenon
      <3>3. ~request.flat /\ ~request.forceMemAttrs => \A q \in over : q.canAlias
        BY <3>2, Zenon
      <3> QED
        BY <3>1, <3>2, <3>3, <1>MergeAllGood, Zenon
    <2> QED
      BY <2>5, <2>6, Zenon
  (* The addresses an alias aims at are addresses.                         *)
  <1>AliasTargetsAreAddresses.
         AliasTargets(m, VA, size, request) \subseteq Addresses
    <2>1. {p.lower : p \in m.pages} \subseteq Addresses
      BY FramesByStart, Zenon
    <2>2. {n * size : n \in SolveAliasConstraints(m, size)} \subseteq Addresses
      <3>1. ASSUME NEW a \in Addresses PROVE (a \div size) * size \in Addresses
        <4>1. PageRange(PageStart(a, size), size) \subseteq Addresses
          BY PageOfAddress, Zenon
        <4>2. a \in Nat /\ size \in Nat \ {0}
          BY PageAssumption DEF Addresses
        <4>3. (a \div size) * size \in Nat
          BY <4>2, DivBounds
        <4> QED
          BY <4>1, <4>2, <4>3, PageRangeInNat, Zenon DEF PageStart
      <3>2. SolveAliasConstraints(m, size) \subseteq {a \div size : a \in Addresses}
        BY DEF SolveAliasConstraints, PoolInv, Managers
      <3> QED
        BY <3>1, <3>2, Zenon
    <2> QED
      BY <2>1, <2>2, Zenon DEF AliasTargets
  <1>AliasAllocationGood.
    ASSUME NEW o \in AliasAllocation(m, VA, size, request), o.found
    PROVE  GoodOutcome(V, m, size, request, o)
    <2> USE <1>AliasAllocationGood
    <2>1. PICK t \in AliasTargets(m, VA, size, request) : o = AliasAt(m, PageStart(t, size), size, request)
      <3>1. ~NoPage(m).found
        BY Zenon DEF NoPage
      <3> QED
        BY <3>1, Zenon DEF AliasAllocation
    <2>2. t \in Addresses
      BY <1>AliasTargetsAreAddresses, Zenon
    <2>3. IsFrame(PageRange(PageStart(t, size), size))
      BY <2>2, PageOfAddress, Zenon
    <2>4. PageStart(t, size) \in Nat
      BY <2>2, PageAssumption, DivBounds DEF PageStart, Addresses
    <2> QED
      BY <2>1, <2>3, <2>4, <1>AliasAtGood, Zenon
  <1>1. outcome \in NewAllocation(m, VA, size, request) \/
        outcome \in AliasAllocation(m, VA, size, request)
    BY Zenon DEF AllocatePage
  <1> QED
    BY <1>1, <1>NewAllocationGood, <1>AliasAllocationGood, Zenon

(* Commit files v under the physical page p of m.                          *)
Files(V, m, v, p) ==
    /\ ~CommitFails(m, v)
    /\ PoolInv(V, CommitFrame(m, v))
    /\ CommitFrame(m, v).pages = (m.pages \ {p}) \cup {AddPage(p, v)}

(* Commit: the page is filed under the one physical page it is in.         *)
LEMMA CommitKeeps ==
  ASSUME NEW V, NEW m, PoolInv(V, m), NEW v \in V, Physical(v) # {},
         NEW p \in m.pages, Physical(v) \subseteq Frame(p)
  PROVE  Files(V, m, v, p)
  <1>1. PagesIn(m, Physical(v)) = {p}
    BY OnePageIn, Zenon
  <1>3. (CHOOSE q \in m.pages : Overlaps(q, Physical(v))) = p
    BY <1>1 DEF PagesIn
  <1>4. p \in PhysicalPages(V) /\ m.exclude \subseteq Addresses /\ m \in Managers(V)
    BY Zenon DEF PoolInv, Managers
  <1>5. CommitFrame(m, v) = ReplacePage(m, p, AddPage(p, v), m.exclude)
    BY <1>3, <1>4, Zenon DEF CommitFrame, ReplacePage, Managers
  <1>6. /\ AddPage(p, v) \in PhysicalPages(V) /\ Frame(AddPage(p, v)) = Frame(p)
        /\ AddPage(p, v).canAlias = p.canAlias
    BY <1>4, AddPageKeeps
  <1>7. ~AddPage(p, v).canAlias => Frame(p) \subseteq m.exclude
    BY <1>6, Zenon DEF PoolInv
  <1>8. /\ PoolInv(V, ReplacePage(m, p, AddPage(p, v), m.exclude))
        /\ ReplacePage(m, p, AddPage(p, v), m.exclude).pages = (m.pages \ {p}) \cup {AddPage(p, v)}
    BY <1>4, <1>6, <1>7, ReplacePageKeeps
  <1> QED
    BY <1>1, <1>5, <1>8, Zenon DEF CommitFails, Files

(* The manager of an empty pool.                                           *)
LEMMA EmptyPool ==
  ASSUME NEW V, NEW boundary \in SUBSET Addresses
  PROVE  PoolInv(V, PageManager(Addresses, boundary))
  <1> DEFINE m == PageManager(Addresses, boundary)
  <1>1. /\ m.boundary = boundary /\ m.free = Addresses /\ m.allocated = {} /\ m.exclude = {}
        /\ m.pages = {}
        /\ m.aligned = [size \in PageSizes |-> GetUsablePageAligned(Addresses, size)]
    BY Zenon DEF PageManager
  <1>2. ASSUME NEW size \in PageSizes
        PROVE  GetUsablePageAligned(Addresses, size) =
                  {n \in PageNumbers(size) : PageRange(n * size, size) \subseteq Addresses}
    <2>1. size \in Nat \ {0}
      BY PageAssumption, Zenon
    <2>2. ASSUME NEW a \in Addresses
          PROVE  /\ a \div size \in PageNumbers(size)
                 /\ PageRange((a \div size) * size, size) \subseteq Addresses
      BY PageOfAddress, Zenon DEF PageStart
    <2>3. ASSUME NEW n \in PageNumbers(size), PageRange(n * size, size) \subseteq Addresses
          PROVE  \E a \in Addresses : n = a \div size
      <3>1. n \in Nat /\ n * size \in Nat
        BY <2>1 DEF PageNumbers
      <3>2. n * size \in PageRange(n * size, size)
        BY <2>1, <3>1, PageRangeInNat, Zenon
      <3>3. (n * size) \div size = n
        BY <2>1, <3>1, <3>2, InPage, Zenon
      <3> QED
        BY <2>3, <3>2, <3>3, Zenon
    <2> QED
      BY <2>2, <2>3, Zenon DEF GetUsablePageAligned
  <1>3. m.aligned \in [PageSizes -> SUBSET Nat]
    <2>1. ASSUME NEW size \in PageSizes PROVE GetUsablePageAligned(Addresses, size) \subseteq Nat
      BY <1>2 DEF PageNumbers
    <2> QED
      BY <1>1, <2>1, Zenon
  <1>4. m \in Managers(V)
    BY <1>1, <1>3, Zenon DEF PageManager, Managers
  <1> HIDE DEF m
  <1> QED
    BY <1>1, <1>2, <1>4 DEF PoolInv, m

(* ReserveMemory and UnreserveMemory change the boundary only.             *)
LEMMA BoundaryKeeps ==
  ASSUME NEW V, NEW m, PoolInv(V, m), NEW B \in SUBSET Addresses
  PROVE  PoolInv(V, [m EXCEPT !.boundary = B]) /\ [m EXCEPT !.boundary = B].pages = m.pages
  <1> DEFINE after == [m EXCEPT !.boundary = B]
  <1>1. m \in Managers(V)
    BY Zenon DEF PoolInv
  <1>2. /\ after \in Managers(V) /\ after.free = m.free /\ after.allocated = m.allocated
        /\ after.aligned = m.aligned /\ after.exclude = m.exclude /\ after.pages = m.pages
    BY <1>1, Zenon DEF Managers
  <1> HIDE DEF after
  <1> QED
    BY <1>2 DEF PoolInv, after

(* There is a first page among any pages.                                  *)
LEMMA FirstPage ==
  ASSUME NEW V, NEW m, PoolInv(V, m), NEW S \in SUBSET m.pages, S # {}
  PROVE  \E p \in S : \A q \in S : p.lower <= q.lower
  <1> DEFINE T == {p.lower : p \in S}
             R == {p \in Nat \X Nat : p[1] < p[2]}
  <1>1. T \subseteq Nat /\ T # {}
    BY DEF PoolInv, Managers, PhysicalPages
  <1>2. R = OpToRel(<, Nat)
    BY Zenon DEF OpToRel
  <1>3. IsWellFoundedOn(R, Nat)
    BY <1>2, NatLessThanWellFounded, Zenon
  <1>4. \E x \in T : \A y \in T : ~(<<y, x>> \in R)
    <2> HIDE DEF T, R
    <2> QED
      BY <1>1, <1>3, WFMin, Zenon
  <1>5. PICK p \in S : \A q \in S : ~(<<q.lower, p.lower>> \in R)
    BY <1>4, Zenon
  <1>6. ASSUME NEW q \in S PROVE p.lower <= q.lower
    <2>1. p.lower \in Nat /\ q.lower \in Nat
      BY <1>1, Zenon
    <2>2. ~(q.lower < p.lower)
      BY <1>5, <2>1, Zenon
    <2> QED
      BY <2>1, <2>2
  <1> QED
    BY <1>6, Zenon
=============================================================================
